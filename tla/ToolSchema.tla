----------------------------- MODULE ToolSchema -----------------------------
(***************************************************************************)
(* The input schemas of ToolDesc's tools, as the JSON values that          *)
(* schemaJSON gives, and checkSchema's walk over them.  Any JSON value may *)
(* stand under any key, as the walk takes it.                              *)
(*                                                                         *)
(* A path is a sequence of steps, from the schema down.                    *)
(***************************************************************************)
EXTENDS Integers, SequencesExt

CONSTANTS
    Values,       \* JSON values: [kind, fields], [kind, elems], [kind, len] or Other
    Keys,         \* the keys of objects, sorted
    NoParams,     \* the schema of a tool without parameters
    ParamSchemas, \* the schemas of tools with parameters
    nesting(_),   \* how many levels a JSON value has below it
    MaxNesting    \* bound: encoding/json reads no deeper ones

Object(fields) == [kind |-> "object", fields |-> fields]
Array(elems) == [kind |-> "array", elems |-> elems]
String(len) == [kind |-> "string", len |-> len]   \* by the number of its runes
Other == [kind |-> "other"]                       \* a number, a boolean or null

Children(node) ==
    CASE node.kind = "object" -> {node.fields[k] : k \in DOMAIN node.fields}
      [] node.kind = "array" -> {node.elems[i] : i \in DOMAIN node.elems}
      [] OTHER -> {}

Schemas == ParamSchemas \cup {NoParams}

ASSUME ValuesAssumption ==
    /\ \A v \in Values :
         /\ v.kind \in {"object", "array", "string", "other"}
         /\ v.kind = "object" => v = Object(v.fields) /\ DOMAIN v.fields \subseteq Range(Keys)
         /\ v.kind = "array" => v = Array(v.elems) /\ v.elems \in Seq(Values)
         /\ v.kind = "string" => v = String(v.len)
         /\ v.kind = "other" => v = Other
         /\ Children(v) \subseteq Values
    /\ Keys \in Seq(Range(Keys))
    /\ \A i, j \in 1..Len(Keys) : Keys[i] = Keys[j] => i = j
    /\ \A s \in Schemas : s \in Values

ASSUME NestingAssumption ==
    /\ MaxNesting \in Nat
    /\ \A v \in Values :
         /\ nesting(v) \in 0..MaxNesting
         /\ \A child \in Children(v) : nesting(child) < nesting(v)

\* A raw input schema that is no JSON, and one with something after the JSON
\* value, which a decoder that reads one value does not see.
BrokenSchema == [broken |-> TRUE]
Trailed(s) == [trailed |-> s]
RawSchemas == Schemas \cup {BrokenSchema} \cup {Trailed(s) : s \in Schemas}

-----------------------------------------------------------------------------
(* Plausible bugs of the definitions below.                                *)

\* A schema without a case of its own for "properties".
IsPropertiesNever(k) == FALSE

\* The keys as a map may give them, the last one first.
InAnyOrder(f) ==
    LET keys == Reverse(SelectSeq(Keys, LAMBDA k : k \in DOMAIN f))
    IN  FlattenSeq([i \in 1..Len(keys) |-> f[keys[i]]])

-----------------------------------------------------------------------------
(* The walk.                                                               *)

Key(k) == [key |-> k]
Elem(i) == [elem |-> i]   \* an array's own element, or, 0, what "items" says of all

\* Each path with one more step before it.
Under(step, paths) == [i \in DOMAIN paths |-> <<step>> \o paths[i]]

\* What f has for each key, one key after the other.
InOrder(f) == FlattenSeq([i \in 1..Len(Keys) |-> IF Keys[i] \in DOMAIN f THEN f[Keys[i]] ELSE <<>>])

Only(e, condition) == IF condition THEN <<e>> ELSE <<>>

IsProperties(k) == k = "properties"

TooLong(node, limit) ==
    /\ "description" \in DOMAIN node.fields
    /\ node.fields["description"].kind = "string" /\ node.fields["description"].len > limit

\* From each JSON value, the paths of the descriptions over limit.
walkSchema(limit) ==
    LET walk[node \in Values] ==
          LET Below(k) ==
                LET v == node.fields[k]
                IN  CASE k = "description" -> <<>>
                      [] IsProperties(k) ->
                           IF v.kind # "object" THEN <<>>
                           ELSE InOrder([n \in DOMAIN v.fields |-> Under(Key(n), walk[v.fields[n]])])
                      [] k = "items" -> Under(Elem(0), walk[v])
                      [] OTHER -> Under(Key(k), walk[v])
          IN  CASE node.kind = "object" ->
                     Only(<<>>, TooLong(node, limit)) \o InOrder([k \in DOMAIN node.fields |-> Below(k)])
                [] node.kind = "array" ->
                     FlattenSeq([i \in DOMAIN node.elems |-> Under(Elem(i), walk[node.elems[i]])])
                [] OTHER -> <<>>
    IN  walk

Decodes(schema) == schema # BrokenSchema
Untrailed(schema) == IF DOMAIN schema = {"trailed"} THEN schema.trailed ELSE schema
inputSchema(tool) == Untrailed(tool.schema)

checkSchema(tool, limit) == walkSchema(limit)[inputSchema(tool)]

\* json.Indent takes one JSON value and nothing after it.
Indents(schema) == Decodes(schema) /\ schema = Untrailed(schema)

-----------------------------------------------------------------------------
(* What the walk is held to: where a value has schemas in it, and where    *)
(* anything else, as JSON Schema has it.                                   *)

\* The keywords with schemas in a map, in an array, or with one schema.
NamedSchemas == {"properties", "patternProperties", "dependentSchemas", "dependencies", "$defs", "definitions"}
ListedSchemas == {"allOf", "anyOf", "oneOf", "prefixItems", "items"}
SingleSchemas ==
    {"items", "additionalItems", "unevaluatedItems", "contains", "additionalProperties",
     "unevaluatedProperties", "propertyNames", "contentSchema", "not", "if", "then", "else"}

KeywordPath(k) == CASE k = "properties" -> <<>> [] k = "items" -> <<Elem(0)>> [] OTHER -> <<Key(k)>>
Place(k) == CHOOSE i \in 1..Len(Keys) : Keys[i] = k

\* A part of a schema: its path, the places of the keys and elements that
\* lead to it, and what it is.
Part(at, where, is) == [at |-> at, where |-> where, is |-> is]

\* The schemas that schema s has under keyword k.
Subschemas(s, k) ==
    LET v == s.fields[k]
    IN  CASE v.kind = "object" /\ k \in NamedSchemas ->
               {Part(KeywordPath(k) \o <<Key(n)>>, <<Place(k), Place(n)>>, v.fields[n]) : n \in DOMAIN v.fields}
          [] v.kind = "array" /\ k \in ListedSchemas ->
               {Part(KeywordPath(k) \o <<Elem(i)>>, <<Place(k), i>>, v.elems[i]) : i \in DOMAIN v.elems}
          [] v.kind = "object" /\ k \in SingleSchemas -> {Part(KeywordPath(k), <<Place(k)>>, v)}
          [] OTHER -> {}

Steps(v) == IF v.kind = "object" THEN UNION {Subschemas(v, k) : k \in DOMAIN v.fields} ELSE {}

\* A value taken as a schema, and every schema in it.
Positions ==
    LET positions[v \in Values] ==
          {Part(<<>>, <<>>, v)}
          \cup UNION {{Part(s.at \o p.at, s.where \o p.where, p.is) : p \in positions[s.is]} : s \in Steps(v)}
    IN  positions

\* The schemas in v described in more than limit runes.
Overlong(v, limit) == {p \in Positions[v] : p.is.kind = "object" /\ TooLong(p.is, limit)}

\* The paths to what is no schema, in schema v: a default, examples, a
\* keyword nobody knows or with a value it cannot have.
NoSchemas(v) ==
    CASE v.kind = "object" ->
           {KeywordPath(k) : k \in {k \in DOMAIN v.fields \ {"description", "properties"} : Subschemas(v, k) = {}}}
      [] v.kind = "array" -> {<<>>}
      [] OTHER -> {}

NoSchemasIn(v) == UNION {{p.at \o u : u \in NoSchemas(p.is)} : p \in Positions[v]}

\* No definition bears the name of a keyword that the walk looks for; names
\* of properties may.
PlainDefs ==
    \A s \in Values : s.kind = "object" =>
        \A k \in DOMAIN s.fields \cap (NamedSchemas \ {"properties"}) :
            s.fields[k].kind = "object" =>
                DOMAIN s.fields[k].fields \cap {"description", "properties", "items"} = {}
=============================================================================
