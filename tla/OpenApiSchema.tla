---------------------------- MODULE OpenApiSchema ----------------------------
(***************************************************************************)
(* The check of query and body values against the schemas of OpenBao's     *)
(* OpenAPI document (broker/vault.py, _validate_openapi_value and what it  *)
(* calls), beside a reading of the same schemas keyword by keyword.        *)
(*                                                                         *)
(* A schema is a function from the keywords it has; what is no JSON object *)
(* has the one keyword "malformed".  A value is a record whose field "is"  *)
(* names its JSON type.  Schemas never contain themselves except by $ref,  *)
(* which is why the depth is limited.  The check is a recursive function   *)
(* of the levels left: at depth d of the code they are MaxDepth + 1 - d.   *)
(***************************************************************************)
EXTENDS Integers, Sequences, SequencesExt

CONSTANTS
    MaxDepth,     \* the deepest schema that is looked at
    Components,   \* components.schemas of the document, by name
    Schemas,      \* the document's schemas and all their parts
    Values        \* the values callers send and all their parts

Has(schema, keyword) == keyword \in DOMAIN schema

Malformed == [malformed |-> TRUE]

\* _resolve_advertised_schema.  One step: a reference to a reference stays one.
Resolved(schema) ==
    IF ~Has(schema, "$ref") THEN schema
    ELSE IF schema["$ref"] \in DOMAIN Components THEN Components[schema["$ref"]]
    ELSE Malformed

\* The schemas that a schema is made of; additionalProperties: true is one of them,
\* [anything |-> TRUE].
Combinations == {"allOf", "oneOf", "anyOf"}
PartsOf(schema) ==
    {schema[k] : k \in {"items", "additionalProperties"} \intersect DOMAIN schema}
    \union UNION ({ToSet(schema[k]) : k \in Combinations \intersect DOMAIN schema} \union
                 {{schema[k][n] : n \in DOMAIN schema[k]} : k \in {"properties"} \intersect DOMAIN schema})

ASSUME MaxDepthAssumption == MaxDepth \in Nat
ASSUME SchemasAssumption ==
    /\ \A name \in DOMAIN Components : Components[name] \in Schemas
    /\ \A schema \in Schemas :
          /\ PartsOf(schema) \subseteq Schemas
          /\ \A k \in Combinations \intersect DOMAIN schema : schema[k] \in Seq(Schemas)
          /\ Has(schema, "enum") => schema["enum"] \in Seq(Values)
ASSUME ValuesAssumption ==
    \A value \in Values :
        /\ value.is \in {"object", "array", "string", "boolean", "integer", "number", "null"}
        /\ value.is = "boolean" => value \in [is: {"boolean"}, truth: BOOLEAN]
        /\ value.is \in {"integer", "number"} => value \in [is: {value.is}, number: Int]
        /\ value.is = "array" => value.items \in Seq(Values)
        /\ value.is = "object" => \A name \in DOMAIN value.fields : value.fields[name] \in Values

-----------------------------------------------------------------------------
(* broker/vault.py.  Whatever is not accepted raises a VaultError. *)

Numeric(value) == value.is \in {"integer", "number"}

\* A float and an integer may be equal, in Python so may True and 1.
AsNumber(value) == IF value.is = "boolean" THEN IF value.truth THEN 1 ELSE 0 ELSE value.number
PythonEqual(a, b) ==
    IF Numeric(a) \/ a.is = "boolean"
    THEN (Numeric(b) \/ b.is = "boolean") /\ AsNumber(a) = AsNumber(b)
    ELSE a.is = b.is /\ a = b

EnumAccepts(schema, value) ==
    Has(schema, "enum") => \E i \in 1..Len(schema["enum"]) : PythonEqual(schema["enum"][i], value)

\* expected None accepts everything; a boolean is no integer and no number.
ScalarMatches(schema, value) ==
    Has(schema, "type") =>
        \/ schema["type"] = value.is
        \/ schema["type"] = "number" /\ value.is = "integer"

Within(schema, low, high, n) == /\ Has(schema, low) => schema[low] <= n
                                /\ Has(schema, high) => n <= schema[high]

ScalarConstraints(schema, value) ==
    /\ value.is = "string" =>
         /\ Within(schema, "minLength", "maxLength", value.length)
         /\ Has(schema, "format") /\ schema["format"] \in {"uuid", "date-time"} =>
              schema["format"] \in value.formats
    /\ Numeric(value) => Within(schema, "minimum", "maximum", value.number)

RequiredAndKnownFields(schema, value) ==
    /\ Has(schema, "required") => ToSet(schema["required"]) \subseteq DOMAIN value.fields
    /\ \/ Has(schema, "additionalProperties")
       \/ \A name \in DOMAIN value.fields :
              Has(schema, "properties") /\ name \in DOMAIN schema["properties"]

\* "anything" stands for additionalProperties: true, which is absent otherwise.
Unchecked(schema, name) ==
    /\ ~(Has(schema, "properties") /\ name \in DOMAIN schema["properties"])
    /\ Has(schema["additionalProperties"], "anything")
FieldSchema(schema, name) ==
    IF Has(schema, "properties") /\ name \in DOMAIN schema["properties"]
    THEN schema["properties"][name] ELSE schema["additionalProperties"]

\* With one level less left, the pairs in "inner" are accepted.
Alternatives(alternatives, value, inner) ==
    {i \in 1..Len(alternatives) : <<alternatives[i], value>> \in inner}

ObjectAccepts(schema, value, inner) ==
    /\ value.is = "object"
    /\ RequiredAndKnownFields(schema, value)
    /\ \A name \in DOMAIN value.fields :
           Unchecked(schema, name) \/ <<FieldSchema(schema, name), value.fields[name]>> \in inner

ArrayAccepts(schema, value, inner) ==
    /\ value.is = "array"
    /\ Has(schema, "items")
    /\ Within(schema, "minItems", "maxItems", Len(value.items))
    /\ \A i \in 1..Len(value.items) : <<schema["items"], value.items[i]>> \in inner

TypedAccepts(schema, value, inner) ==
    IF (Has(schema, "type") /\ schema["type"] = "object") \/ Has(schema, "properties")
    THEN ObjectAccepts(schema, value, inner)
    ELSE IF Has(schema, "type") /\ schema["type"] = "array"
    THEN ArrayAccepts(schema, value, inner)
    ELSE ScalarMatches(schema, value) /\ ScalarConstraints(schema, value)

Accepts(schema, value, inner) ==
    /\ ~Has(schema, "malformed")
    /\ \/ value.is = "null" /\ Has(schema, "nullable") /\ schema["nullable"]
       \/ /\ EnumAccepts(schema, value)
          /\ Has(schema, "allOf") =>
               \A i \in 1..Len(schema["allOf"]) : <<schema["allOf"][i], value>> \in inner
          /\ IF Has(schema, "oneOf")
             THEN /\ ~Has(schema, "anyOf")
                  /\ Cardinality(Alternatives(schema["oneOf"], value, inner)) = 1
             ELSE IF Has(schema, "anyOf")
             THEN Alternatives(schema["anyOf"], value, inner) # {}
             ELSE TypedAccepts(schema, value, inner)

Levels == 0..(MaxDepth + 1)
accepted[n \in Levels] ==
    IF n = 0 THEN {}
    ELSE LET inner == accepted[n - 1]
         IN  {pair \in Schemas \X Values : Accepts(Resolved(pair[1]), pair[2], inner)}

CheckAccepts(schema, value) == <<schema, value>> \in accepted[MaxDepth + 1]

\* _validate_advertised_query and _validate_advertised_body, for an operation of
\* the document with its query "parameters" and, where it has one, its "body".
Parameter(operation, name) ==
    {operation.parameters[i] : i \in {j \in 1..Len(operation.parameters) :
                                         operation.parameters[j].name = name}}

QueryAccepted(operation, query) ==
    LET declared == {operation.parameters[i].name : i \in 1..Len(operation.parameters)}
    IN  /\ Cardinality(declared) = Len(operation.parameters)
        /\ DOMAIN query \subseteq declared
        /\ \A name \in declared : \A parameter \in Parameter(operation, name) :
               IF name \in DOMAIN query
               THEN CheckAccepts(parameter.schema, query[name])
               ELSE ~parameter.required

BodyAccepted(operation, body) ==
    IF Has(operation, "body") THEN CheckAccepts(operation.body, body)
    ELSE DOMAIN body.fields = {}

ArgumentsAccepted(operation, query, body) ==
    QueryAccepted(operation, query) /\ BodyAccepted(operation, body)

-----------------------------------------------------------------------------
(* What a schema admits: every keyword has its say, whatever stands beside  *)
(* it.  An object has no fields but those its schema speaks of.            *)

\* A boolean is no number, and an integer may equal a float.
SameValue(a, b) == IF Numeric(a) /\ Numeric(b) THEN a.number = b.number ELSE a = b

Says(schema, keyword, value, type) == Has(schema, keyword) /\ value.is = type

CombinationsAdmit(schema, value, inner) ==
    LET Chosen(keyword) == {i \in 1..Len(schema[keyword]) : <<schema[keyword][i], value>> \in inner}
    IN  /\ Has(schema, "allOf") => Chosen("allOf") = 1..Len(schema["allOf"])
        /\ Has(schema, "anyOf") => Chosen("anyOf") # {}
        /\ Has(schema, "oneOf") => \E i \in Chosen("oneOf") : Chosen("oneOf") = {i}

FieldsAdmitted(schema, value, inner) ==
    LET Declared(name) == Has(schema, "properties") /\ name \in DOMAIN schema["properties"]
    IN  /\ Says(schema, "required", value, "object") =>
             ToSet(schema["required"]) \subseteq DOMAIN value.fields
        /\ Says(schema, "properties", value, "object") =>
             \A name \in DOMAIN value.fields : Declared(name) =>
                 <<schema["properties"][name], value.fields[name]>> \in inner
        /\ Says(schema, "type", value, "object") =>
             \A name \in DOMAIN value.fields : Declared(name) \/
                 /\ Has(schema, "additionalProperties")
                 /\ \/ Has(schema["additionalProperties"], "anything")
                    \/ <<schema["additionalProperties"], value.fields[name]>> \in inner

ItemsAdmitted(schema, value, inner) ==
    /\ Says(schema, "items", value, "array") =>
         \A i \in 1..Len(value.items) : <<schema["items"], value.items[i]>> \in inner
    /\ Says(schema, "minItems", value, "array") => schema["minItems"] <= Len(value.items)
    /\ Says(schema, "maxItems", value, "array") => Len(value.items) <= schema["maxItems"]

LimitsAdmit(schema, value) ==
    /\ Says(schema, "minLength", value, "string") => schema["minLength"] <= value.length
    /\ Says(schema, "maxLength", value, "string") => value.length <= schema["maxLength"]
    /\ Says(schema, "format", value, "string") /\ schema["format"] \in {"uuid", "date-time"} =>
         schema["format"] \in value.formats
    /\ Has(schema, "minimum") /\ Numeric(value) => schema["minimum"] <= value.number
    /\ Has(schema, "maximum") /\ Numeric(value) => value.number <= schema["maximum"]

Admits(schema, value, inner) ==
    /\ ~Has(schema, "malformed")
    /\ \/ Says(schema, "nullable", value, "null") /\ schema["nullable"]
       \/ /\ Has(schema, "type") =>
               value.is = schema["type"] \/ (value.is = "integer" /\ schema["type"] = "number")
          /\ Has(schema, "enum") => \E v \in ToSet(schema["enum"]) : SameValue(v, value)
          /\ CombinationsAdmit(schema, value, inner)
          /\ FieldsAdmitted(schema, value, inner)
          /\ ItemsAdmitted(schema, value, inner)
          /\ LimitsAdmit(schema, value)

admitted[n \in Levels] ==
    IF n = 0 THEN {}
    ELSE LET inner == admitted[n - 1]
         IN  {pair \in Schemas \X Values : Admits(Resolved(pair[1]), pair[2], inner)}

\* The code looks at a keyword only beside the type it belongs to, and at none
\* beside oneOf or anyOf.  Schemas that ask for no more than that, themselves and
\* in all their parts:
PlainAlone(schema) ==
    LET Typed(type) == Has(schema, "type") /\ schema["type"] = type
    IN  /\ Has(schema, "oneOf") \/ Has(schema, "anyOf") =>
             DOMAIN schema \subseteq Combinations \union {"nullable"}
        /\ ~(Has(schema, "oneOf") /\ Has(schema, "anyOf"))
        /\ DOMAIN schema \intersect {"properties", "required", "additionalProperties"} # {}
             => Typed("object")
        /\ DOMAIN schema \intersect {"items", "minItems", "maxItems"} # {} => Typed("array")
        /\ Typed("array") => Has(schema, "items")
        /\ Has(schema, "enum") =>
             Has(schema, "type") /\ \A v \in ToSet(schema["enum"]) : ScalarMatches(schema, v)

plain[n \in Levels] ==
    IF n = 0 THEN Schemas
    ELSE LET inner == plain[n - 1]
         IN  {schema \in Schemas : /\ PlainAlone(Resolved(schema))
                                   /\ PartsOf(Resolved(schema)) \subseteq inner}

\* Every parameter and the body are what the operation's schemas admit, the
\* schemas that are not plain excepted.
Admitted(schema, value) ==
    schema \in plain[MaxDepth + 1] => <<schema, value>> \in admitted[MaxDepth + 1]

ArgumentsAdmitted(operation, query, body) ==
    /\ \A i \in 1..Len(operation.parameters) :
           LET parameter == operation.parameters[i]
           IN  IF parameter.name \in DOMAIN query
               THEN Admitted(parameter.schema, query[parameter.name])
               ELSE ~parameter.required
    /\ \A name \in DOMAIN query : Parameter(operation, name) # {}
    /\ IF Has(operation, "body") THEN Admitted(operation.body, body)
       ELSE DOMAIN body.fields = {}
=============================================================================
