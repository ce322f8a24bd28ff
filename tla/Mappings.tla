------------------------------ MODULE Mappings -------------------------------
(***************************************************************************)
(* app/server/datasource/nosql/opensearch: the mapping of an index made    *)
(* into columns.  Reading is not implemented there.                        *)
(*                                                                         *)
(* A property is a tree: its type and, if that is "object", its children   *)
(* by name.  A qualified name is the sequence of names on the way down.    *)
(***************************************************************************)
EXTENDS Sequences, Naturals, FiniteSets

CONSTANTS
  Indices,      \* mappings: the named properties, and _meta by qualified name
  MaxDepth      \* how deep the properties are nested

VARIABLES
  index,        \* the index, as the server describes it
  columns,      \* the columns
  mappingPc

mappingVars == <<index, columns, mappingPc>>

Names == Seq(STRING)

\* The properties that are nested at most n deep.
PropertiesOver(below) ==
  [type : STRING, children : SUBSET [name : STRING, property : below]]
Properties[n \in Nat] == IF n = 0 THEN PropertiesOver({}) ELSE PropertiesOver(Properties[n - 1])

ASSUME MappingsAssumption ==
  /\ MaxDepth \in Nat
  /\ \A i \in Indices : i.properties \in SUBSET [name : STRING, property : Properties[MaxDepth]]

NoIndex == [properties |-> {}, meta |-> <<>>]

MappingsOff == index = NoIndex /\ columns = {} /\ mappingPc = "off"
MappingsInit == index \in Indices /\ columns = {} /\ mappingPc = "ask"
-----------------------------------------------------------------------------
\* typeMap, without the optional it puts around the type.
primitiveOf(type) ==
  CASE type = "integer" -> "INT32" [] type = "long" -> "INT64" [] type = "float" -> "FLOAT"
    [] type = "double" -> "DOUBLE" [] type = "boolean" -> "BOOL"
    [] type \in {"keyword", "text"} -> "UTF8" [] type = "date" -> "TIMESTAMP"
    [] OTHER -> "unsupported"

\* The types made by inferField; a member of a struct is a column.
Leaf(id) == [kind |-> "optional", id |-> id, members |-> {}]
Struct(members) == [kind |-> "optional", id |-> "Struct", members |-> members]
List(type) == [type EXCEPT !.kind = "list"]
Failed == [kind |-> "error", id |-> "error", members |-> {}]

Member(name, type) == [name |-> name, type |-> type]

\* _meta has an annotation for the field; that of a struct has to be "list".
handleSimpleField(name, property, meta) ==
  LET id == primitiveOf(property.type)
  IN IF id = "unsupported" THEN Failed
     ELSE IF name \in DOMAIN meta THEN List(Leaf(id)) ELSE Leaf(id)

applyMetaAnnotation(name, meta, type) ==
  IF name \notin DOMAIN meta THEN type
  ELSE IF meta[name] = "list" THEN List(type) ELSE Failed

\* Children looked up in _meta by their own name.
childName_Bare(parent, child) == <<child>>

childName(parent, child) == Append(parent, child)

\* handleStructField and processChildFields, with the types of the children by sub.
handleStructField(sub, name, property, meta) ==
  LET children == {Member(c.name, sub[childName(name, c.name)][c.property]) : c \in property.children}
  IN IF \E c \in children : c.type = Failed THEN Failed
     ELSE applyMetaAnnotation(name, meta, Struct(children))

\* inferField, by the nesting of the property.
InferredOver(properties, sub, meta) ==
  [name \in Names |-> [property \in properties |->
     IF property.type # "object" THEN handleSimpleField(name, property, meta)
     ELSE handleStructField(sub, name, property, meta)]]

Inferred(meta) ==
  LET at[n \in Nat] == IF n = 0 THEN InferredOver(Properties[0], <<>>, meta)
                       ELSE InferredOver(Properties[n], at[n - 1], meta)
  IN at

inferField(name, property, meta) == Inferred(meta)[MaxDepth][name][property]

\* DescribeTable: the mapping is asked for and parsed, in parseMapping.
DescribeIndex ==
  /\ mappingPc = "ask"
  /\ columns' = {Member(f.name, inferField(<<f.name>>, f.property, index.meta)) : f \in index.properties}
  /\ mappingPc' = IF \E c \in columns' : c.type = Failed THEN "failed" ELSE "described"
  /\ UNCHANGED index

\* The server does not answer, or has no such index, and the answer then panics.
NoMapping ==
  /\ mappingPc = "ask"
  /\ mappingPc' \in {"failed", "panic"}
  /\ UNCHANGED <<index, columns>>

MappingsNext == DescribeIndex \/ NoMapping

MappingsSpec == MappingsInit /\ [][MappingsNext]_mappingVars
-----------------------------------------------------------------------------
(* Properties *)

\* The fields below a property and below a type, by qualified name.
FieldsOver(properties, sub, meta) ==
  [name \in Names |-> [property \in properties |->
     {[name |-> name, list |-> name \in DOMAIN meta,
       id |-> IF property.type = "object" THEN "Struct" ELSE primitiveOf(property.type)]}
     \cup IF property.type # "object" THEN {}
          ELSE UNION {sub[Append(name, c.name)][c.property] : c \in property.children}]]

FieldsBelow(meta) ==
  LET at[n \in Nat] == IF n = 0 THEN FieldsOver(Properties[0], <<>>, meta)
                       ELSE FieldsOver(Properties[n], at[n - 1], meta)
  IN at

TypesOver(below) ==
  [kind : {"optional", "list"}, members : SUBSET [name : STRING, type : below],
   id : {"INT32", "INT64", "FLOAT", "DOUBLE", "BOOL", "UTF8", "TIMESTAMP", "Struct"}]
Types[n \in Nat] == IF n = 0 THEN TypesOver({}) ELSE TypesOver(Types[n - 1])

DescribedOver(types, sub) ==
  [name \in Names |-> [type \in types |->
     {[name |-> name, list |-> type.kind = "list", id |-> type.id]}
     \cup UNION {sub[Append(name, m.name)][m.type] : m \in type.members}]]
TypesBelow[n \in Nat] ==
  IF n = 0 THEN DescribedOver(Types[0], <<>>) ELSE DescribedOver(Types[n], TypesBelow[n - 1])

\* A description has every field of the index under its own qualified name and with
\* its own type, at every depth, and lists are the fields that _meta names.  It is
\* made whenever all types are known and no struct is annotated otherwise than "list".
MappingIsKept ==
  LET declared == UNION {FieldsBelow(index.meta)[MaxDepth][<<f.name>>][f.property] : f \in index.properties}
  IN mappingPc \in {"described", "failed"} =>
       /\ mappingPc = "described" =>
            declared = UNION {TypesBelow[MaxDepth][<<c.name>>][c.type] : c \in columns}
       /\ mappingPc = "failed" /\ columns # {} =>
            \E d \in declared :
              \/ d.id = "unsupported"
              \/ d.id = "Struct" /\ d.list /\ index.meta[d.name] # "list"
=============================================================================
