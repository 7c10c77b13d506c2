---------------------------- MODULE AssetSchema ----------------------------
(***************************************************************************)
(* The closed dialect rwa-profile-assetSchema/1 of an Asset Profile's      *)
(* assetSchema: the server's guard (assets/schema_guard.go), which walks   *)
(* the schema before the jsonschema library compiles it, and the signer's  *)
(* own compiler and validator (jsonschema/schema.go).                      *)
(*                                                                         *)
(* The guard is a stack of walks still to be done; each call of walkSchema *)
(* checks one schema object and adds the walks it starts.                  *)
(***************************************************************************)
EXTENDS JsonValue

CONSTANTS
    Pointers,         \* local $ref texts, each with the segments of its pointer
    maxRefDepth,      \* references the guard follows on one path
    maxSchemaDepth,   \* nesting and references the signer's compiler follows
    maxSchemaNodes    \* schema objects the signer's compiler visits

allowedValidationKeywords ==
    {"type", "properties", "required", "additionalProperties", "items", "$ref", "enum", "const",
     "minLength", "maxLength", "pattern", "minimum", "maximum", "exclusiveMinimum",
     "exclusiveMaximum", "minItems", "maxItems", "uniqueItems"}

allowedAnnotationKeywords ==
    {"title", "description", "default", "examples", "$comment", "$defs", "$id", "$schema",
     "deprecated", "readOnly", "writeOnly"}

allowedKeywords == allowedValidationKeywords \cup allowedAnnotationKeywords

allowedTypeValues == {"object", "array", "string", "integer", "number", "boolean", "null"}

Has(o, k) == k \in Keys(o)

IsLocal(v) == v.t = "str" /\ v.s.id \in DOMAIN Pointers

StringsOnly(v) == v.t = "arr" /\ \A i \in DOMAIN v.e : v.e[i].t = "str"

NoValue == [t |-> "absent"]

(* One segment of a pointer; the signer also descends into arrays.         *)
Segment(v, seg, arrays) ==
    CASE v.t = "obj" /\ Has(v, seg) -> Get(v, seg)
      [] arrays /\ v.t = "arr" /\ seg = "0" /\ v.e # <<>> -> v.e[1]
      [] OTHER -> NoValue

resolvePointer(root, ref, arrays) ==
    FoldLeft(LAMBDA v, seg : IF v = NoValue THEN v ELSE Segment(v, seg, arrays),
             root, Pointers[ref])

validateTypeValue(v) ==
    \/ v.t = "str" /\ v.s.id \in allowedTypeValues
    \/ /\ StringsOnly(v) /\ v.e # <<>>
       /\ \A i \in DOMAIN v.e : v.e[i].s.id \in allowedTypeValues
       /\ \A i, j \in DOMAIN v.e : v.e[i].s.id = v.e[j].s.id => i = j

-----------------------------------------------------------------------------
(* The server's guard.                                                     *)

Walk(node, chain) == [node |-> node, chain |-> chain]

WalkMembers(o, chain) == [i \in DOMAIN o.m |-> Walk(o.m[i].v, chain)]

(* A walk that forgets the references it is following.                     *)
walkRefUnchained(root, ref, chain) ==
    LET target == resolvePointer(root, ref, FALSE) IN
    IF target = NoValue THEN [ok |-> FALSE, calls |-> <<>>]
    ELSE [ok |-> TRUE, calls |-> <<Walk(target, chain \cup {ref})>>]

walkRef(root, ref, chain) ==
    LET target == resolvePointer(root, ref, FALSE) IN
    IF ref \in chain \/ Cardinality(chain) >= maxRefDepth \/ target = NoValue
    THEN [ok |-> FALSE, calls |-> <<>>]
    ELSE [ok |-> TRUE, calls |-> <<Walk(target, chain \cup {ref})>>]

(* What walkSchema says of one schema object, and the walks it starts: a   *)
(* definition's walk begins without the references followed so far.        *)
walkSchema(root, node, chain) ==
    IF node.t # "obj" \/ ~(Keys(node) \subseteq allowedKeywords)
    THEN [ok |-> FALSE, calls |-> <<>>]
    ELSE IF Has(node, "$ref")
    THEN IF Cardinality(Keys(node)) # 1 \/ ~IsLocal(Get(node, "$ref"))
         THEN [ok |-> FALSE, calls |-> <<>>]
         ELSE walkRef(root, Get(node, "$ref").s.id, chain)
    ELSE LET If(k, calls) == IF Has(node, k) THEN calls ELSE <<>> IN
         [ok |-> /\ Has(node, "type") => validateTypeValue(Get(node, "type"))
                 /\ Has(node, "required") => StringsOnly(Get(node, "required"))
                 /\ \A k \in {"properties", "$defs"} : Has(node, k) => Get(node, k).t = "obj",
          calls |->
             If("properties", IF Get(node, "properties").t # "obj" THEN <<>>
                              ELSE WalkMembers(Get(node, "properties"), chain))
             \o If("additionalProperties",
                   IF Get(node, "additionalProperties").t = "bool" THEN <<>>
                   ELSE <<Walk(Get(node, "additionalProperties"), chain)>>)
             \o If("items", <<Walk(Get(node, "items"), chain)>>)
             \o If("$defs", IF Get(node, "$defs").t # "obj" THEN <<>>
                            ELSE WalkMembers(Get(node, "$defs"), {}))]

-----------------------------------------------------------------------------
(* The signer's compiler.                                                  *)

requireNonNegInt(v) == v.t = "num" /\ v.plain /\ v.h >= 0

KeywordOK(k, v) ==
    CASE k = "type" -> validateTypeValue(v)
      [] k \in {"properties", "$defs"} -> v.t = "obj"
      [] k = "required" -> StringsOnly(v)
      [] k = "additionalProperties" -> v.t \in {"bool", "obj"}
      [] k = "enum" -> v.t = "arr"
      [] k \in {"minLength", "maxLength", "minItems", "maxItems"} -> requireNonNegInt(v)
      [] k \in {"minimum", "maximum", "exclusiveMinimum", "exclusiveMaximum"} -> v.t = "num"
      [] k = "pattern" -> v.t = "str"
      [] k = "uniqueItems" -> v.t = "bool"
      [] OTHER -> TRUE

Subschemas(o) ==
    LET Of(k) == IF ~Has(o, k) THEN <<>>
                 ELSE LET v == Get(o, k) IN
                      CASE k \in {"$defs", "properties"} /\ v.t = "obj" ->
                               [i \in DOMAIN v.m |-> v.m[i].v]
                        [] k = "items" \/ (k = "additionalProperties" /\ v.t = "obj") -> <<v>>
                        [] OTHER -> <<>>
    IN Of("$defs") \o Of("properties") \o Of("additionalProperties") \o Of("items")

(* How many schema objects compiling v visits; 0 when it is refused.       *)
RECURSIVE compile(_, _, _, _)
compile(root, v, depth, visiting) ==
    IF \/ depth > maxSchemaDepth
       \/ v.t # "obj"
       \/ ~(Keys(v) \subseteq allowedKeywords)
    THEN 0
    ELSE IF Has(v, "$ref")
    THEN LET ref == Get(v, "$ref") IN
         IF Len(v.m) # 1 \/ ~IsLocal(ref) \/ ref.s.id \in visiting THEN 0
         ELSE LET target == resolvePointer(root, ref.s.id, TRUE)
                  n == IF target = NoValue THEN 0
                       ELSE compile(root, target, depth + 1, visiting \cup {ref.s.id})
              IN IF n = 0 THEN 0 ELSE n + 1
    ELSE LET subs == Subschemas(v)
             n    == [i \in DOMAIN subs |-> compile(root, subs[i], depth + 1, visiting)]
         IN IF \/ \E k \in Keys(v) : ~KeywordOK(k, Get(v, k))
               \/ \E i \in DOMAIN n : n[i] = 0
            THEN 0
            ELSE 1 + FoldLeft(+, 0, n)

Compile(root) == compile(root, root, 0, {}) \in 1 .. maxSchemaNodes

-----------------------------------------------------------------------------
(* The signer's validator.  Every reference has been replaced by what it   *)
(* names when it runs.                                                     *)

typeOf(v) == CASE v.t = "null" -> "null" [] v.t = "bool" -> "boolean"
               [] v.t = "num" -> IF v.plain \/ v.h % 2 = 0 THEN "integer" ELSE "number"
               [] v.t = "str" -> "string" [] v.t = "arr" -> "array" [] v.t = "obj" -> "object"

Types(s) == IF Get(s, "type").t = "str" THEN {Get(s, "type").s.id}
            ELSE {Get(s, "type").e[i].s.id : i \in DOMAIN Get(s, "type").e}

valuesEqual(a, b) == Marshal(a) = Marshal(b)

(* An off-by-one in the length of a string.                                *)
validateStringLoose(s, v) ==
    /\ Has(s, "minLength") => 2 * v.s.runes >= Get(s, "minLength").h
    /\ Has(s, "maxLength") => 2 * v.s.runes <= Get(s, "maxLength").h + 2
    /\ Has(s, "pattern") => Get(s, "pattern").s.id \in v.s.forms

validateString(s, v) ==
    /\ Has(s, "minLength") => 2 * v.s.runes >= Get(s, "minLength").h
    /\ Has(s, "maxLength") => 2 * v.s.runes <= Get(s, "maxLength").h
    /\ Has(s, "pattern") => Get(s, "pattern").s.id \in v.s.forms

validateNumber(s, v) ==
    /\ Has(s, "minimum") => v.h >= Get(s, "minimum").h
    /\ Has(s, "maximum") => v.h <= Get(s, "maximum").h
    /\ Has(s, "exclusiveMinimum") => v.h > Get(s, "exclusiveMinimum").h
    /\ Has(s, "exclusiveMaximum") => v.h < Get(s, "exclusiveMaximum").h

RECURSIVE validateAt(_, _, _)
validateAt(root, s, v) ==
    IF Has(s, "$ref") THEN validateAt(root, resolvePointer(root, Get(s, "$ref").s.id, TRUE), v)
    ELSE
    /\ Has(s, "type") => \/ typeOf(v) \in Types(s)
                         \/ typeOf(v) = "integer" /\ "number" \in Types(s)
    /\ Has(s, "const") => valuesEqual(v, Get(s, "const"))
    /\ (Has(s, "enum") /\ Get(s, "enum").e # <<>>) =>
           \E i \in DOMAIN Get(s, "enum").e : valuesEqual(v, Get(s, "enum").e[i])
    /\ v.t = "str" => validateString(s, v)
    /\ v.t = "num" => validateNumber(s, v)
    /\ v.t = "arr" =>
           /\ Has(s, "minItems") => 2 * Len(v.e) >= Get(s, "minItems").h
           /\ Has(s, "maxItems") => 2 * Len(v.e) <= Get(s, "maxItems").h
           /\ (Has(s, "uniqueItems") /\ Get(s, "uniqueItems").b) =>
                  \A i, j \in DOMAIN v.e : valuesEqual(v.e[i], v.e[j]) => i = j
           /\ Has(s, "items") => \A i \in DOMAIN v.e : validateAt(root, Get(s, "items"), v.e[i])
    /\ v.t = "obj" =>
           /\ Has(s, "required") =>
                  \A i \in DOMAIN Get(s, "required").e : Has(v, Get(s, "required").e[i].s.id)
           /\ \A k \in Keys(v) :
                  IF Has(s, "properties") /\ Has(Get(s, "properties"), k)
                  THEN validateAt(root, Get(Get(s, "properties"), k), Get(v, k))
                  ELSE IF ~Has(s, "additionalProperties") THEN TRUE
                  ELSE LET ap == Get(s, "additionalProperties") IN
                       IF ap.t = "bool" THEN ap.b ELSE validateAt(root, ap, Get(v, k))

-----------------------------------------------------------------------------
(* The library that compiles and applies the schema on the server: Draft   *)
(* 2020-12 says what each keyword asserts on its own.                      *)

MetaschemaOK(k, v) ==
    CASE k \in {"minLength", "maxLength", "minItems", "maxItems"} ->
             v.t = "num" /\ v.h % 2 = 0 /\ v.h >= 0
      [] k = "required" -> StringsOnly(v) /\ \A i, j \in DOMAIN v.e : v.e[i] = v.e[j] => i = j
      [] OTHER -> KeywordOK(k, v)

RECURSIVE LibraryCompiles(_)
LibraryCompiles(s) ==
    /\ \A k \in Keys(s) : MetaschemaOK(k, Get(s, k))
    /\ \A i \in DOMAIN Subschemas(s) : LibraryCompiles(Subschemas(s)[i])

RECURSIVE Conforms(_, _, _)
Conforms(root, s, v) ==
    LET Asserts(k, a) ==
          CASE k = "$ref" -> Conforms(root, resolvePointer(root, a.s.id, FALSE), v)
            [] k = "type" -> \E t \in Types(s) : typeOf(v) = t \/ (t = "number" /\ v.t = "num")
            [] k = "const" -> Marshal(v) = Marshal(a)
            [] k = "enum" -> a.e = <<>> \/ Marshal(v) \in {Marshal(a.e[i]) : i \in DOMAIN a.e}
            [] k = "minLength" -> v.t = "str" => v.s.runes >= a.h \div 2
            [] k = "maxLength" -> v.t = "str" => v.s.runes <= a.h \div 2
            [] k = "pattern" -> v.t = "str" => a.s.id \in v.s.forms
            [] k = "minimum" -> v.t = "num" => v.h >= a.h
            [] k = "maximum" -> v.t = "num" => v.h <= a.h
            [] k = "exclusiveMinimum" -> v.t = "num" => v.h > a.h
            [] k = "exclusiveMaximum" -> v.t = "num" => v.h < a.h
            [] k = "minItems" -> v.t = "arr" => Len(v.e) >= a.h \div 2
            [] k = "maxItems" -> v.t = "arr" => Len(v.e) <= a.h \div 2
            [] k = "uniqueItems" -> (a.b /\ v.t = "arr") =>
                   Cardinality({Marshal(v.e[i]) : i \in DOMAIN v.e}) = Len(v.e)
            [] k = "items" -> v.t = "arr" => \A i \in DOMAIN v.e : Conforms(root, a, v.e[i])
            [] k = "required" -> v.t = "obj" => {a.e[i].s.id : i \in DOMAIN a.e} \subseteq Keys(v)
            [] k = "properties" -> v.t = "obj" =>
                   \A n \in Keys(v) \cap Keys(a) : Conforms(root, Get(a, n), Get(v, n))
            [] k = "additionalProperties" -> v.t = "obj" =>
                   \A n \in Keys(v) \ (IF Has(s, "properties") THEN Keys(Get(s, "properties"))
                                        ELSE {}) :
                       IF a.t = "bool" THEN a.b ELSE Conforms(root, a, Get(v, n))
            [] OTHER -> TRUE
    IN \A k \in Keys(s) : Asserts(k, Get(s, k))
=============================================================================
