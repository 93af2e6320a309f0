-------------------------------- MODULE Schemas --------------------------------
(***************************************************************************)
(* Schemas, and what aligning a value with one is built from               *)
(* (src/src/json_schema_impl.rs): the clock and the log of a call, the     *)
(* references, the names, the values and the validator.                    *)
(*                                                                         *)
(* A schema is [bool |-> b], [junk |-> x] for what is no schema, or a      *)
(* record of the fields it gives: type, or types for a list of them;       *)
(* properties and patternProperties, sequences of pairs; required;         *)
(* additionalProperties; items, or tuple for a list, and additionalItems;  *)
(* anyOf, oneOf, allOf; enum, const, default, minItems, minProperties,     *)
(* maximum; ref, a name in the definitions of the root.  Formats, patterns *)
(* of strings and the schema's own checks at construction are left out.    *)
(*                                                                         *)
(* Errors are told apart as the code tells them apart: "deadline",         *)
(* "definition" for a schema that is none, and "reject".                   *)
(***************************************************************************)
EXTENDS NumericText
LOCAL INSTANCE SequencesExt

CONSTANTS
  MAX_SCHEMA_DEPTH,   \* how deep a value is aligned
  SAMPLE,             \* every SAMPLE-th poll reads the clock
  SCORES              \* how alike two names are, in percent, by pairs; else not at all

TYPO_REMAP_MIN    == 75
TYPO_REMAP_MARGIN == 5
SUGGEST_MIN       == 60

Missing   == [missing |-> TRUE]
EmptySchema == [f \in {} |-> TRUE]
Bool(b)   == [word |-> IF b THEN "true" ELSE "false"]
Null      == [word |-> "null"]
NoSchema  == [junk |-> "none"]

Has(schema, field) == field \in DOMAIN schema
Field(schema, field, otherwise) == IF Has(schema, field) THEN schema[field] ELSE otherwise

\* The value of the first pair with the key; a key's place, 0 without one.
PlaceOf(pairs, key) == Smallest({Len(pairs) + 1} \cup {k \in 1..Len(pairs) : pairs[k][1] = key})
Holding(pairs, key) == \E k \in 1..Len(pairs) : pairs[k][1] = key
ValueOf(pairs, key) == pairs[PlaceOf(pairs, key)][2]

Key(k) == [key |-> k]
Item(i) == [at |-> i]

-----------------------------------------------------------------------------
(* What a call carries: the clock, the log and how it was asked.  `left`   *)
(* is how often the clock is read before the deadline has passed, -1       *)
(* without one; `n` counts the polls since it was read; `late` is the      *)
(* error that stays once the clock was seen to have run out; `nested` is   *)
(* what the repair parser makes of the texts in the value.                 *)

NewRepairer(root, salvage, locale, left, nested) ==
  [root |-> root, salvage |-> salvage, locale |-> locale, left |-> left, nested |-> nested,
   n |-> 0, late |-> FALSE, log |-> <<>>]

deadline_now_expired(s) ==
  IF s.left = 0 THEN [s EXCEPT !.late = TRUE]
  ELSE IF s.left > 0 THEN [s EXCEPT !.left = @ - 1] ELSE s

deadline_expired(s) ==
  LET n == (s.n + 1) % SAMPLE
  IN  IF s.left = -1 \/ s.late THEN s
      ELSE IF n # 0 THEN [s EXCEPT !.n = n] ELSE deadline_now_expired([s EXCEPT !.n = 0])

force_deadline_check(s) == IF s.left = -1 THEN s ELSE [s EXCEPT !.n = SAMPLE - 1]

ForcedCheck(s) == deadline_expired(force_deadline_check(s))

\* Mutant: what moved is logged under the name it had.
LoggedWhereItWas(s, action, path, to) ==
  [s EXCEPT !.log = Append(@, [action |-> action, path |-> path, to |-> path])]

\* An entry of the log, and where what it is about is found from then on.
Moved(s, action, path, to) ==
  [s EXCEPT !.log = Append(@, [action |-> action, path |-> path, to |-> to])]

Logged(s, action, path) == Moved(s, action, path, path)

\* What a probe logged is dropped, whether or not its answer is taken.
probe(r, s) == [r EXCEPT !.s.log = s.log]

Ok(s, v)   == [s |-> s, v |-> v, err |-> ""]
Err(s, why) == [s |-> s, v |-> NoValue, err |-> why]
Good(r)    == r.err = ""

-----------------------------------------------------------------------------
(* Schemas.                                                                *)

Chain(kind, schema) == [kind |-> kind, schema |-> schema]

\* The schema behind the references.
RECURSIVE FollowRefs(_, _, _)
FollowRefs(root, schema, seen) ==
  LET defs == Field(root, "defs", <<>>)
  IN  IF ~Has(schema, "ref") THEN Chain("schema", schema)
      ELSE IF schema.ref \in seen \/ schema.ref \notin DOMAIN defs THEN Chain("error", NoSchema)
      ELSE LET node == defs[schema.ref]
           IN  CASE Has(node, "bool") -> Chain(IF node.bool THEN "true" ELSE "false", NoSchema)
                 [] Has(node, "junk") -> Chain("error", NoSchema)
                 [] OTHER -> FollowRefs(root, node, seen \cup {schema.ref})

resolve_chain(root, schema) ==
  CASE Has(schema, "bool") -> Chain(IF schema.bool THEN "true" ELSE "false", NoSchema)
    [] Has(schema, "junk") -> Chain("error", NoSchema)
    [] OTHER -> FollowRefs(root, schema, {})

schema_type_allows(schema, kind) ==
  \/ Has(schema, "type") /\ schema.type = kind
  \/ Has(schema, "types") /\ \E i \in 1..Len(schema.types) : schema.types[i] = kind

is_object_schema(root, schema) ==
  LET c == resolve_chain(root, schema)
  IN  /\ c.kind = "schema"
      /\ \/ schema_type_allows(c.schema, "object")
         \/ DOMAIN c.schema \cap
              {"properties", "patternProperties", "additionalProperties", "required"} # {}

is_array_schema(root, schema) ==
  LET c == resolve_chain(root, schema)
  IN  /\ c.kind = "schema"
      /\ schema_type_allows(c.schema, "array") \/ DOMAIN c.schema \cap {"items", "tuple"} # {}

synthesize_branch(schema, kind) ==
  [f \in (DOMAIN schema \ {"types"}) \cup {"type"} |-> IF f = "type" THEN kind ELSE schema[f]]

Properties(schema) == Field(schema, "properties", <<>>)
Required(schema)   == Field(schema, "required", <<>>)
Patterns(schema)   == Field(schema, "patternProperties", <<>>)

property(schema, key) == ValueOf(Properties(schema), key)
HasProperty(schema, key) == Holding(Properties(schema), key)

\* The patterns are beginnings of names; of one in another form nothing is read.
match_pattern_properties(schema, key) ==
  SelectSeq(Patterns(schema), LAMBDA p : p[1].supported /\ IsPrefix(p[1].start, key))

unsupported_patterns(schema) == SelectSeq(Patterns(schema), LAMBDA p : ~p[1].supported)

Lower == [c \in {"T", "N"} |-> IF c = "T" THEN "t" ELSE "n"]

to_lowercase(text) == [i \in 1..Len(text) |-> IF text[i] \in DOMAIN Lower THEN Lower[text[i]] ELSE text[i]]

fold_key(key) == SelectSeq(to_lowercase(key), LAMBDA c : c \notin {"_", "-"} \cup White)

fold_hits(schema, key) ==
  SelectSeq(Properties(schema), LAMBDA p : fold_key(p[1]) = fold_key(key))

-----------------------------------------------------------------------------
(* Values.                                                                 *)

RECURSIVE normalize_missing_values(_)
normalize_missing_values(v) ==
  CASE v = Missing -> EmptyText
    [] IsArray(v)  -> [arr |-> [i \in 1..Len(v.arr) |-> normalize_missing_values(v.arr[i])]]
    [] IsObject(v) -> [obj |-> [i \in 1..Len(v.obj) |->
                                  <<v.obj[i][1], normalize_missing_values(v.obj[i][2])>>]]
    [] OTHER -> v

IsBool(v) == v \in {Bool(TRUE), Bool(FALSE)}
IsNum(v)  == Has(v, "kind")
IsInt(v)  == IsNum(v) /\ v.kind = "int"

One  == [kind |-> "int", num |-> <<"1">>]
Zero == [kind |-> "int", num |-> <<"0">>]

Otherwise(n, v) == IF n = NoNumber THEN v ELSE n

\* The whole number a value equals, or the value.
AsWhole(v) ==
  CASE v = Bool(TRUE)  -> One
    [] v = Bool(FALSE) -> Zero
    [] IsNum(v) /\ ~IsInt(v) -> Otherwise(integral_value(v), v)
    [] OTHER -> v

SameWhole(a, b) == AsWhole(a) = AsWhole(b)

RECURSIVE py_eq(_, _)
py_eq(a, b) ==
  CASE IsArray(a) /\ IsArray(b) ->
         Len(a.arr) = Len(b.arr) /\ \A i \in 1..Len(a.arr) : py_eq(a.arr[i], b.arr[i])
    [] IsObject(a) /\ IsObject(b) ->
         /\ Len(a.obj) = Len(b.obj)
         /\ \A i \in 1..Len(a.obj) : \E k \in 1..Len(b.obj) :
              a.obj[i][1] = b.obj[k][1] /\ py_eq(a.obj[i][2], b.obj[k][2])
    [] OTHER -> SameWhole(a, b)

-----------------------------------------------------------------------------
(* The validator, of another package.                                      *)

RECURSIVE Compiles(_, _)
Compiles(root, schema) ==
  LET all(f, of) == IF Has(schema, f) THEN of ELSE {}
      subs(f) == all(f, {schema[f][i] : i \in 1..Len(schema[f])})
      named(f) == all(f, {schema[f][i][2] : i \in 1..Len(schema[f])})
      only(f) == all(f, {schema[f]})
      kinds == all("type", {schema.type}) \cup all("types", {schema.types[i] : i \in 1..Len(schema.types)})
  IN  CASE Has(schema, "bool") -> TRUE
        [] Has(schema, "junk") -> FALSE
        [] Has(schema, "ref")  -> resolve_chain(root, schema).kind # "error"
        [] OTHER -> /\ kinds \subseteq {"string", "integer", "number", "boolean", "null", "object", "array"}
                    /\ \A sub \in UNION {subs(f) : f \in {"tuple", "anyOf", "oneOf", "allOf"}}
                                  \cup named("properties") \cup named("patternProperties")
                                  \cup UNION {only(f) : f \in {"items", "additionalProperties", "additionalItems"}} :
                         Compiles(root, sub)

HasType(v, kind) ==
  CASE kind = "string"  -> IsText(v)
    [] kind = "integer" -> IsNum(v) /\ IsInt(AsWhole(v))
    [] kind = "number"  -> IsNum(v)
    [] kind = "boolean" -> IsBool(v)
    [] kind = "null"    -> v = Null
    [] kind = "object"  -> IsObject(v)
    [] OTHER            -> IsArray(v)

SameJson(a, b) == py_eq(a, b) /\ IsBool(a) = IsBool(b)

\* A decimal by its first three places; one of six digits and more is as good as any.
ThousandthsOf(minus, digits) ==
  LET n == IF Len(digits) > 8 THEN 10^9 ELSE FoldLeft(LAMBDA sum, c : 10 * sum + Hex[c], 0, digits)
  IN  IF minus THEN -n ELSE n

Thousandths(v) ==
  LET p == Parts(v.num) IN ThousandthsOf(Minus(v.num), p.int \o SubSeq(p.frac \o <<"0", "0", "0">>, 1, 3))

RECURSIVE Accepts(_, _, _)
ObjectHolds(root, schema, members) ==
  /\ \A i \in 1..Len(Required(schema)) : Holding(members, Required(schema)[i])
  /\ Len(members) >= Field(schema, "minProperties", 0)
  /\ \A i \in 1..Len(members) :
       LET fits == SelectSeq(Patterns(schema), LAMBDA p : IsPrefix(p[1].start, members[i][1]))
       IN  /\ HasProperty(schema, members[i][1])
                => Accepts(root, property(schema, members[i][1]), members[i][2])
           /\ \A k \in 1..Len(fits) : Accepts(root, fits[k][2], members[i][2])
           /\ ~HasProperty(schema, members[i][1]) /\ fits = <<>> /\ Has(schema, "additionalProperties")
                => Accepts(root, schema.additionalProperties, members[i][2])

ArrayHolds(root, schema, items) ==
  LET tuple == Field(schema, "tuple", <<>>)
  IN  /\ Len(items) >= Field(schema, "minItems", 0)
      /\ \A i \in 1..Len(items) :
           /\ i <= Len(tuple) => Accepts(root, tuple[i], items[i])
           /\ i > Len(tuple) /\ Has(schema, "tuple") /\ Has(schema, "additionalItems")
                => Accepts(root, schema.additionalItems, items[i])
           /\ Has(schema, "items") => Accepts(root, schema.items, items[i])

Fits(root, f, v) ==
  LET some(field) == Cardinality({i \in 1..Len(f[field]) : Accepts(root, f[field][i], v)})
  IN  /\ Has(f, "type")  => HasType(v, f.type)
      /\ Has(f, "types") => \E i \in 1..Len(f.types) : HasType(v, f.types[i])
      /\ Has(f, "const") => SameJson(v, f.const)
      /\ Has(f, "enum")  => \E i \in 1..Len(f.enum) : SameJson(v, f.enum[i])
      /\ Has(f, "maximum") /\ IsNum(v) => Thousandths(v) <= Thousandths(f.maximum)
      /\ Has(f, "allOf") => some("allOf") = Len(f.allOf)
      /\ Has(f, "anyOf") => some("anyOf") >= 1
      /\ Has(f, "oneOf") => some("oneOf") = 1
      /\ IsObject(v) => ObjectHolds(root, f, v.obj)
      /\ IsArray(v)  => ArrayHolds(root, f, v.arr)

ByChain(root, c, v) == c.kind = "true" \/ (c.kind = "schema" /\ Fits(root, c.schema, v))

Accepts(root, schema, v) == ByChain(root, resolve_chain(root, schema), v)

Validates(root, schema, v) ==
  LET defs == Field(root, "defs", <<>>)
  IN  /\ Compiles(root, schema) /\ \A d \in DOMAIN defs : Compiles(root, defs[d])
      /\ Accepts(root, schema, v)

\* validate always reads the clock; is_valid reads it now and then.
validate(s, v, schema) ==
  LET q == ForcedCheck(s)
      c == resolve_chain(q.root, schema)
  IN  CASE q.late -> Err(q, "deadline")
        [] ~q.late /\ c.kind = "error" -> Err(q, "definition")
        [] OTHER -> IF c.kind = "true" \/ (c.kind = "schema" /\ Validates(q.root, c.schema, v))
                    THEN Ok(q, v) ELSE Err(q, "reject")

Verdict(s, yes) == [s |-> s, yes |-> yes]

\* Mutant: a verdict although the time has run out.
ValidAllTheSame(s, v, schema) ==
  LET q == deadline_expired(s)
      c == resolve_chain(q.root, schema)
  IN  Verdict(q, c.kind = "true" \/ (c.kind = "schema" /\ Validates(q.root, c.schema, v)))

is_valid(s, v, schema) ==
  LET q == deadline_expired(s)
      c == resolve_chain(q.root, schema)
  IN  Verdict(q, /\ ~q.late
                 /\ c.kind = "true" \/ (c.kind = "schema" /\ Validates(q.root, c.schema, v)))
===============================================================================
