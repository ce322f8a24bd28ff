------------------------------ MODULE Documents ------------------------------
(***************************************************************************)
(* app/server/datasource/nosql/mongodb: one field of a collection.  Its    *)
(* type is deduced from a sample of documents, then the field is read from *)
(* documents that may hold anything, the sample being out of date.         *)
(*                                                                         *)
(* The value of a field is known by its BSON type.  An array or a document *)
(* is told apart by what it holds: "array" has values with a text only,    *)
(* "dates" has one that bsonToString does not support.                     *)
(***************************************************************************)
EXTENDS Naturals

CONSTANTS
  BsonTypes,      \* the values a document may have in the field, or "missing"
  CountSample,    \* TMongoDbConfig.count_docs_to_deduce_schema
  MaxDocuments    \* bound: documents to read

VARIABLES
  omit,           \* UNSUPPORTED_OMIT, else UNSUPPORTED_AS_STRING
  asNull,         \* UNEXPECTED_AS_NULL, else UNEXPECTED_AS_STRING
  sampled,        \* history: the values of the sample
  sampleSize,
  deduced,        \* deducedTypes[field]
  ambiguous,      \* the field is one of ambiguousFields
  optional,       \* the request has the column as it was described
  document,       \* number of the document and its value
  goValue,        \* what the acceptor points to
  cell,           \* the cell made of the document
  mongoPc

documentVars == <<omit, asNull, sampled, sampleSize, deduced, ambiguous, optional, document,
                  goValue, cell, mongoPc>>

NoDocument == [n |-> 0, value |-> "missing"]

DocumentsOff ==
  /\ omit = FALSE /\ asNull = FALSE /\ sampled = {} /\ sampleSize = 0
  /\ deduced = "none" /\ ambiguous = FALSE /\ optional = TRUE
  /\ document = NoDocument /\ goValue = <<>> /\ cell = <<>>
  /\ mongoPc = "off"

DocumentsInit ==
  /\ omit \in BOOLEAN /\ asNull \in BOOLEAN
  /\ sampled = {} /\ sampleSize = 0
  /\ deduced = "none" /\ ambiguous = FALSE /\ optional = TRUE
  /\ document = NoDocument /\ goValue = <<>> /\ cell = <<>>
  /\ mongoPc = "sample"
-----------------------------------------------------------------------------
(* DescribeTable *)

typeMap(v) ==
  CASE v = "int32" -> "INT32" [] v = "int64" -> "INT64" [] v = "boolean" -> "BOOL"
    [] v = "double" -> "DOUBLE" [] v = "string" -> "UTF8" [] v = "binary" -> "STRING"
    [] v = "objectID" -> "Tagged" [] v = "null" -> "null"
    [] OTHER -> "not supported"

\* The last type is taken, whatever there was before.
bsonToYqlColumn_Last(v) ==
  /\ ambiguous' = (ambiguous \/ v = "null")
  /\ deduced' = CASE typeMap(v) = "null" -> deduced
                  [] typeMap(v) = "not supported" -> IF omit THEN deduced ELSE "UTF8"
                  [] OTHER -> typeMap(v)
  /\ UNCHANGED mongoPc

\* common.TypesEqual reads the tag of the new type when the one before has a tag, and
\* of all types only that of an ObjectId has one: the others are a nil pointer.
TypesEqualPanics(prevType, t) ==
  prevType = "Tagged" /\ t \notin {"Tagged", "null", "not supported"}

bsonToYqlColumn(v) ==
  \/ /\ ~TypesEqualPanics(deduced, typeMap(v))
     /\ ambiguous' = (ambiguous \/ v = "null")
     /\ deduced' = CASE typeMap(v) = "null" -> deduced
                     [] typeMap(v) = "not supported" -> IF omit THEN deduced ELSE "UTF8"
                     [] OTHER -> IF deduced \in {"none", typeMap(v)} THEN typeMap(v) ELSE "UTF8"
     /\ UNCHANGED mongoPc
  \/ /\ TypesEqualPanics(deduced, typeMap(v))
     /\ mongoPc' = "describe panic"
     /\ UNCHANGED <<deduced, ambiguous>>

\* One document of the sample.
SampleDocument ==
  /\ mongoPc = "sample" /\ sampleSize < CountSample
  /\ \E v \in BsonTypes :
       /\ sampled' = sampled \cup {v}
       /\ IF v = "missing" THEN UNCHANGED <<deduced, ambiguous, mongoPc>> ELSE bsonToYqlColumn(v)
  /\ sampleSize' = sampleSize + 1
  /\ UNCHANGED <<omit, asNull, optional, document, goValue, cell>>

\* The end of bsonToYql: a field that was null in every document that has it is a
\* text.  A field without a type is not a column.
bsonToYql ==
  /\ mongoPc = "sample"
  /\ deduced' = IF ambiguous /\ deduced = "none" THEN "UTF8" ELSE deduced
  /\ mongoPc' = IF deduced' = "none" THEN "no column" ELSE "described"
  /\ UNCHANGED <<omit, asNull, sampled, sampleSize, ambiguous, optional, document, goValue, cell>>
-----------------------------------------------------------------------------
(* ReadSplit *)

\* addAcceptorAppender: a pointer to a pointer for an optional column, else a
\* pointer to a zero value.
makeDocumentReader ==
  /\ mongoPc = "described"
  /\ optional' \in BOOLEAN
  /\ goValue' = IF optional' THEN <<>> ELSE <<[n |-> 0, text |-> "zero"]>>
  /\ mongoPc' = "read"
  /\ UNCHANGED <<omit, asNull, sampled, sampleSize, deduced, ambiguous, document, cell>>

\* bsonToString: is the type supported, and the text.  What cannot be written down
\* makes the whole text empty.
Textual == {"int32", "int64", "double", "string", "boolean", "objectID", "binary"}
bsonToString(v) ==
  [ok   |-> v \in Textual,
   text |-> IF v \in Textual \cup {"dateTime", "decimal128", "array"} THEN "text" ELSE "empty"]

\* The variable is left alone when the value has another type.
convert_Keep(v, found) == IF typeMap(v) = deduced THEN <<found>> ELSE goValue

convert(v, found) == IF typeMap(v) = deduced THEN <<found>> ELSE <<>>

\* The acceptor of a required column: a failed type assertion, or nil for a missing
\* text, which panics when it is appended.
Panics(v) == ~optional /\ IF deduced = "UTF8" THEN v = "missing" ELSE typeMap(v) # deduced

\* accept, for one column.
Accept(v, n) ==
  LET string == bsonToString(v)
  IN CASE deduced # "UTF8" -> convert(v, [n |-> n, text |-> "value"])
       [] deduced = "UTF8" /\ v = "missing" -> <<>>
       [] deduced = "UTF8" /\ v # "missing" /\ ~string.ok /\ asNull ->
            IF optional THEN <<>> ELSE goValue
       [] OTHER -> <<[n |-> n, text |-> string.text]>>

\* MakeAppenderNullable forgets the value that it appended; the appenders of binaries
\* and object ids, and those of required columns, do not.
Forgets == optional /\ deduced \notin {"STRING", "Tagged"}

\* A document is decoded, accepted and added to the sink.
ReadDocument ==
  /\ mongoPc = "read" /\ document.n < MaxDocuments
  /\ \E v \in BsonTypes :
       /\ document' = [n |-> document.n + 1, value |-> v]
       /\ IF Panics(v)
          THEN mongoPc' = "panic" /\ UNCHANGED <<goValue, cell>>
          ELSE /\ cell' = Accept(v, document.n + 1)
               /\ goValue' = IF Forgets THEN <<>> ELSE cell'
               /\ UNCHANGED mongoPc
  /\ UNCHANGED <<omit, asNull, sampled, sampleSize, deduced, ambiguous, optional>>

\* The cursor has no more documents.
FinishDocuments ==
  /\ mongoPc = "read"
  /\ mongoPc' = "done"
  /\ UNCHANGED <<omit, asNull, sampled, sampleSize, deduced, ambiguous, optional, document,
                 goValue, cell>>

DocumentsNext ==
  SampleDocument \/ bsonToYql \/ makeDocumentReader \/ ReadDocument \/ FinishDocuments

DocumentsSpec == DocumentsInit /\ [][DocumentsNext]_documentVars
-----------------------------------------------------------------------------
(* Properties *)

\* The types of a sample, and the type that they call for.
SampleTypes == {typeMap(v) : v \in sampled \ {"missing"}} \ {"null", "not supported"}
TextSample ==
  \/ ~omit /\ \E v \in sampled \ {"missing"} : typeMap(v) = "not supported"
  \/ \E s, t \in SampleTypes : s # t

TypeOfSample ==
  CASE TextSample -> "UTF8"
    [] ~TextSample /\ SampleTypes # {} -> CHOOSE t \in SampleTypes : TRUE
    [] OTHER -> IF "null" \in sampled THEN "UTF8" ELSE "none"

\* bsonToYql, when it returns, has deduced a type from the values of the sample alone:
\* neither their order nor their number makes a difference, whatever was deduced on the
\* way.  The order does decide whether it returns: TypesEqual panics when the first type
\* of a field is that of an ObjectId and another one follows, and panics in no other case.
SampleGivesSchema ==
  /\ mongoPc \notin {"off", "sample", "describe panic"} => deduced = TypeOfSample
  /\ mongoPc = "describe panic" =>
       deduced = "Tagged" /\ "Tagged" \in SampleTypes /\ \E t \in SampleTypes : t # "Tagged"

\* Reading a column as it was described never panics, and a cell tells of its own
\* document: a value of the type of the column is in it, and what is in it comes from
\* no earlier document.  A required column of texts with UNEXPECTED_AS_NULL does keep
\* the text of the document before.
DocumentCells ==
  /\ optional => mongoPc # "panic"
  /\ mongoPc = "read" /\ document.n > 0 /\ (optional \/ ~asNull) =>
       /\ cell # <<>> => cell[1].n = document.n
       /\ typeMap(document.value) = deduced => cell # <<>>
       /\ deduced = "UTF8" /\ cell = <<>> => asNull \/ document.value = "missing"
=============================================================================
