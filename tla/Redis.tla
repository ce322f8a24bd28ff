-------------------------------- MODULE Redis --------------------------------
(***************************************************************************)
(* app/server/datasource/nosql/redis/datasource.go: the table of a pattern *)
(* is described from a sample of its keys, then read with SCAN and         *)
(* pipelines of TYPE, GET and HMGET, while other clients write and delete. *)
(*                                                                         *)
(* The server runs one command at a time, but nothing holds the keys still *)
(* between two commands of a pipeline.  A value is a type, a version that  *)
(* no other value has, and, for a hash, its fields.                        *)
(***************************************************************************)
EXTENDS Naturals, FiniteSets

CONSTANTS
  Keys,         \* the keys of the server
  Fields,       \* the fields a hash may have
  CountDocs,    \* TRedisConfig.count_docs_to_deduce_schema
  MaxWrites     \* bound: writes of the other clients

ASSUME RedisAssumption == CountDocs \in Nat \ {0} /\ Keys # {}

VARIABLES
  star,         \* the pattern is "*"; else it is a key
  store,        \* the server: the value of every key
  writes,       \* writes made so far
  untouched,    \* history: the keys that nobody has written yet
  held,         \* history: the values of every key since the read began
  unseen,       \* the keys that the cursor of SCAN has not passed
  todo,         \* commands of the pipeline, by key, that have not run
  replies,      \* what the others saw
  hashKeys,     \* hashes of the batch, which wait until its strings are read
  redisSchema,  \* keysSpec: stringExists, hashExists, unionHashFields; and the sample
  items,        \* the columns of the request
  redisRows,    \* rows given to the sink
  redisPc

redisVars == <<star, store, writes, untouched, held, unseen, todo, replies, hashKeys,
               redisSchema, items, redisRows, redisPc>>

Value(type, version, fields) == [type |-> type, version |-> version, fields |-> fields]
Missing == Value("none", 0, {})
NoReplies == [k \in {} |-> Missing]
NoKeysSpec ==
  [string |-> FALSE, hash |-> FALSE, fields |-> {}, sampled |-> {}, count |-> 0]

NewValues(version) ==
  {Missing, Value("string", version, {}), Value("list", version, {})}
  \cup {Value("hash", version, fs) : fs \in (SUBSET Fields) \ {{}}}

Matching == IF star THEN Keys ELSE {CHOOSE k \in Keys : TRUE}

RedisOff ==
  /\ star = TRUE
  /\ store = [k \in Keys |-> Missing] /\ writes = 0
  /\ untouched = Keys /\ held = [k \in Keys |-> {}]
  /\ unseen = {} /\ todo = {} /\ replies = NoReplies /\ hashKeys = {}
  /\ redisSchema = NoKeysSpec /\ items = {} /\ redisRows = {}
  /\ redisPc = "off"

RedisInit ==
  /\ star \in BOOLEAN
  /\ store \in [Keys -> NewValues(1)]
  /\ writes = 1
  /\ untouched = Keys /\ held = [k \in Keys |-> {}]
  /\ unseen = Keys /\ todo = {} /\ replies = NoReplies /\ hashKeys = {}
  /\ redisSchema = NoKeysSpec /\ items = {} /\ redisRows = {}
  /\ redisPc = "accumulate"
-----------------------------------------------------------------------------
(* The server *)

\* Another client writes or deletes a key.
RedisWrite ==
  /\ redisPc \notin {"off", "done", "failed"} /\ writes <= MaxWrites
  /\ \E k \in Keys, v \in NewValues(writes + 1) :
       /\ v.type # store[k].type \/ v.type # "none"
       /\ store' = [store EXCEPT ![k] = v]
       /\ held' = [held EXCEPT ![k] = @ \cup {v}]
       /\ untouched' = untouched \ {k}
  /\ writes' = writes + 1
  /\ UNCHANGED <<star, unseen, todo, replies, hashKeys, redisSchema, items, redisRows, redisPc>>

\* SCAN moves the cursor past some keys and gives those that are there; it may
\* give a key again.  The cursor is 0 when no key is left.
Scans ==
  {s \in [keys : SUBSET Keys, left : SUBSET unseen] :
     /\ s.left # unseen
     /\ {k \in unseen \ s.left : store[k].type # "none"} \subseteq s.keys
     /\ \A k \in s.keys : k \notin s.left /\ store[k].type # "none"}

\* The commands of a pipeline run one by one.
RedisCommand ==
  /\ \E k \in todo :
       /\ todo' = todo \ {k}
       /\ replies' = [x \in DOMAIN replies \cup {k} |-> IF x = k THEN store[k] ELSE replies[x]]
  /\ UNCHANGED <<star, store, writes, untouched, held, unseen, hashKeys, redisSchema, items,
                 redisRows, redisPc>>

\* A command fails, or the context is cancelled.
RedisFails ==
  /\ redisPc \notin {"off", "done", "failed"}
  /\ redisPc' = "failed"
  /\ todo' = {}
  /\ UNCHANGED <<star, store, writes, untouched, held, unseen, replies, hashKeys, redisSchema,
                 items, redisRows>>
-----------------------------------------------------------------------------
(* DescribeTable *)

\* accumulateKeys, one SCAN: the keys it gives are kept until there are enough,
\* and a key given twice counts twice.
accumulateKeys ==
  /\ redisPc = "accumulate"
  /\ IF star
     THEN \E s \in Scans : \E kept \in SUBSET s.keys :
            LET room == CountDocs - redisSchema.count
                n    == Cardinality(kept)
                over == s.left = {} \/ n = room
            IN   /\ n = room \/ (n < room /\ kept = s.keys)
                 /\ redisSchema' = [redisSchema EXCEPT !.sampled = @ \cup kept, !.count = @ + n]
                 /\ unseen' = s.left
                 /\ todo' = IF over THEN redisSchema'.sampled ELSE {}
                 /\ redisPc' = CASE ~over -> "accumulate"
                                 [] over /\ todo' = {} -> "described"
                                 [] OTHER -> "analyze"
     ELSE /\ redisSchema' = [redisSchema EXCEPT !.sampled = Matching]
          /\ todo' = Matching /\ redisPc' = "analyze"
          /\ UNCHANGED unseen
  /\ UNCHANGED <<star, store, writes, untouched, held, replies, hashKeys, items, redisRows>>

\* analyzeKeys: TYPE of a key, and HKEYS of a hash.  The key may be another thing
\* by then, and HKEYS fails, or gone.
analyzeType ==
  /\ redisPc = "analyze" /\ hashKeys = {}
  /\ \E k \in todo :
       /\ todo' = todo \ {k}
       /\ redisSchema' = [redisSchema EXCEPT !.string = @ \/ store[k].type = "string",
                                             !.hash = @ \/ store[k].type = "hash"]
       /\ hashKeys' = IF store[k].type = "hash" THEN {k} ELSE {}
  /\ UNCHANGED <<star, store, writes, untouched, held, unseen, replies, items, redisRows, redisPc>>

analyzeFields ==
  /\ redisPc = "analyze"
  /\ \E k \in hashKeys :
       IF store[k].type \in {"hash", "none"}
       THEN /\ redisSchema' = [redisSchema EXCEPT !.fields = @ \cup store[k].fields]
            /\ UNCHANGED redisPc
       ELSE redisPc' = "failed" /\ UNCHANGED redisSchema
  /\ hashKeys' = {}
  /\ UNCHANGED <<star, store, writes, untouched, held, unseen, todo, replies, items, redisRows>>

\* buildSchema.  A sample without keys has no columns at all.
Described ==
  IF redisSchema.sampled = {} THEN {}
  ELSE {"key"} \cup (IF redisSchema.string THEN {"string"} ELSE {})
               \cup (IF redisSchema.hash THEN {"hash"} ELSE {})

analyzed ==
  /\ redisPc = "analyze" /\ todo = {} /\ hashKeys = {}
  /\ redisPc' = "described"
  /\ UNCHANGED <<star, store, writes, untouched, held, unseen, todo, replies, hashKeys, redisSchema,
                 items, redisRows>>
-----------------------------------------------------------------------------
(* ReadSplit *)

\* getHashFields: without the column of hashes there are none.
HashFields == IF "hash" \in items THEN redisSchema.fields ELSE {}

\* A request for some of the described columns.  One key is not scanned.
ReadSplit ==
  /\ redisPc = "described" /\ Described # {}
  /\ items' \in (SUBSET Described) \ {{}}
  /\ unseen' = Keys
  /\ IF star THEN redisPc' = "scan" /\ UNCHANGED todo
             ELSE redisPc' = "types" /\ todo' = Matching
  /\ replies' = NoReplies
  /\ held' = [k \in Keys |-> {store[k]}]
  /\ UNCHANGED <<star, store, writes, untouched, hashKeys, redisSchema, redisRows>>

\* The loop stops at a batch without keys.
scanKeys_Empty ==
  /\ redisPc = "scan"
  /\ \E s \in Scans :
       /\ unseen' = IF s.keys = {} THEN {} ELSE s.left
       /\ todo' = s.keys
  /\ redisPc' = "types" /\ replies' = NoReplies
  /\ UNCHANGED <<star, store, writes, untouched, held, hashKeys, redisSchema, items, redisRows>>

\* readKeys: a batch of SCAN, whose types are asked for.
scanKeys ==
  /\ redisPc = "scan"
  /\ \E s \in Scans : unseen' = s.left /\ todo' = s.keys
  /\ redisPc' = "types" /\ replies' = NoReplies
  /\ UNCHANGED <<star, store, writes, untouched, held, hashKeys, redisSchema, items, redisRows>>

Replied(type) == {k \in DOMAIN replies : replies[k].type = type}

\* splitKeysByType: then GET of the strings.
splitKeysByType ==
  /\ redisPc = "types" /\ todo = {}
  /\ todo' = Replied("string")
  /\ hashKeys' = Replied("hash")
  /\ redisPc' = "strings" /\ replies' = NoReplies
  /\ UNCHANGED <<star, store, writes, untouched, held, unseen, redisSchema, items, redisRows>>

\* The transformer, projected to the columns of the request.
Row(k, string, hash) ==
  [key |-> k, cells |-> [c \in items |-> CASE c = "key" -> k [] c = "string" -> string
                                           [] OTHER -> hash]]

StringRow(k) == Row(k, <<replies[k].version>>, <<>>)

HashRow(k) ==
  Row(k, <<>>,
      [f \in HashFields |-> IF f \in replies[k].fields THEN <<replies[k].version>> ELSE <<>>])

\* The batch is over: the next one, or the end.  Without a pattern there is none.
AfterBatch == IF star /\ unseen # {} THEN "scan" ELSE "done"

\* processStringKeys: one key that is not a string any more fails the read before a
\* row of the batch is added.  Then HMGET of the hashes, if fields are asked for.
processStringKeys ==
  /\ redisPc = "strings" /\ todo = {}
  /\ IF DOMAIN replies = Replied("string")
     THEN /\ redisRows' = redisRows \cup {StringRow(k) : k \in DOMAIN replies}
          /\ todo' = IF HashFields = {} THEN {} ELSE hashKeys
          /\ redisPc' = "hashes"
     ELSE redisPc' = "failed" /\ UNCHANGED <<redisRows, todo>>
  /\ hashKeys' = {} /\ replies' = NoReplies
  /\ UNCHANGED <<star, store, writes, untouched, held, unseen, redisSchema, items>>

\* processHashKeys: HMGET of a deleted key finds none of the fields.
processHashKeys ==
  /\ redisPc = "hashes" /\ todo = {}
  /\ IF DOMAIN replies = Replied("hash") \cup Replied("none")
     THEN redisRows' = redisRows \cup {HashRow(k) : k \in DOMAIN replies} /\ redisPc' = AfterBatch
     ELSE redisPc' = "failed" /\ UNCHANGED redisRows
  /\ replies' = NoReplies
  /\ UNCHANGED <<star, store, writes, untouched, held, unseen, todo, hashKeys, redisSchema, items>>

RedisNext ==
  \/ RedisWrite \/ RedisFails
  \/ accumulateKeys \/ analyzeType \/ analyzeFields \/ analyzed
  \/ ReadSplit \/ scanKeys \/ splitKeysByType \/ processStringKeys \/ processHashKeys
  \/ redisPc \in {"types", "strings", "hashes"} /\ RedisCommand

RedisSpec == RedisInit /\ [][RedisNext]_redisVars
-----------------------------------------------------------------------------
(* Properties *)

\* The row that a value of a key should make.
RowOf(k, v) ==
  IF v.type = "string" THEN Row(k, <<v.version>>, <<>>)
  ELSE Row(k, <<>>, [f \in HashFields |-> IF f \in v.fields THEN <<v.version>> ELSE <<>>])

\* What a successful read owes a key that nobody wrote while it went on: its row, if
\* it is a string, or a hash and fields of hashes are asked for (without them hashes
\* are passed over, and strings are not).  If the key was sampled and nobody has
\* written it since then, the fields of its hash are all in the schema.
StableKeysAreRead ==
  redisPc = "done" =>
    \A k \in Matching :
      LET v == store[k] IN
      /\ held[k] = {v} /\ (v.type = "string" \/ (v.type = "hash" /\ HashFields # {})) =>
           RowOf(k, v) \in redisRows
      /\ k \in untouched \cap redisSchema.sampled => v.fields \subseteq redisSchema.fields

\* A row is never put together from two values: its cells are those of one value that
\* its key held during the read.  A deleted key counts as a hash without fields.
RowsAreReal ==
  \A r \in redisRows :
    \E v \in held[r.key] : v.type \in {"string", "hash", "none"} /\ r = RowOf(r.key, v)

\* The keys are scanned, typed and fetched in separate calls while others write them:
\* a read shows every key that nobody wrote, and of the others nothing that was not.
RowsAreExact == StableKeysAreRead /\ RowsAreReal
=============================================================================
