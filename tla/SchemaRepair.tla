------------------------------ MODULE SchemaRepair ------------------------------
(***************************************************************************)
(* Aligning a value with a JSON schema (src/src/json_schema_impl.rs).  A   *)
(* step takes the call's record s and gives [s, v, err]; a path is a       *)
(* sequence of names and places.                                           *)
(***************************************************************************)
EXTENDS Schemas
LOCAL INSTANCE SequencesExt

RECURSIVE repair_value(_, _, _, _, _)

Took(r, action, path, v) == Ok(Logged(r, action, path), v)

-----------------------------------------------------------------------------
(* Scalars.                                                                *)

\* Mutant: the assumption is made without a word.
JudgedSilently(first, second, readings, path) ==
  Took(second.s, "coerce", path, readings[IF second.yes /\ ~first.yes THEN 2 ELSE 1])

\* Two readings: the one that validates when only one does, else the first.
JudgedBy(first, second, readings, path) ==
  LET q == Logged(second.s, "coerce", path)
  IN  IF first.yes # second.yes THEN Ok(q, readings[IF first.yes THEN 1 ELSE 2])
      ELSE Took(q, "suggest", path, readings[1])

SecondJudged(first, readings, schema, path) ==
  JudgedBy(first, is_valid(first.s, readings[2], schema), readings, path)

Judged(s, readings, schema, path) == SecondJudged(is_valid(s, readings[1], schema), readings, schema, path)

OfReadings(s, readings, schema, path) ==
  CASE Len(readings) = 0 -> Err(s, "reject")
    [] Len(readings) = 1 -> Took(s, "coerce", path, readings[1])
    [] OTHER -> Judged(s, readings, schema, path)

OfPlain(s, plain, text, integral, path, schema) ==
  CASE plain = Refused -> Err(s, "reject")
    [] plain \notin {Refused, NoNumber} -> Took(s, "coerce", path, plain)
    [] OTHER -> OfReadings(s, IF s.locale = Auto THEN Readings(text, integral) ELSE <<>>, schema, path)

coerce_numeric_string(s, text, integral, path, schema) ==
  OfPlain(s, Plainly(text, integral, s.locale), text, integral, path, schema)

Truths == {<<"t", "r", "u", "e">>, <<"y", "e", "s">>, <<"y">>, <<"o", "n">>, <<"1">>}
Lies   == {<<"f", "a", "l", "s", "e">>, <<"n", "o">>, <<"n">>, <<"o", "f", "f">>, <<"0">>}

Says(yes, no) == IF yes THEN Bool(TRUE) ELSE IF no THEN Bool(FALSE) ELSE NoValue

\* What is said to be true or false, and NoValue for the rest.
Said(v) ==
  LET low == to_lowercase(v.str)
  IN  IF IsText(v) THEN Says(low \in Truths, low \in Lies)
      ELSE Says(SameWhole(v, One), SameWhole(v, Zero))

TookWhole(s, path, whole) == IF whole = NoNumber THEN Err(s, "reject") ELSE Took(s, "coerce", path, whole)

TookSaid(s, path, said) == IF said = NoValue THEN Err(s, "reject") ELSE Took(s, "coerce", path, said)

Coerced(s, v, kind, schema, path) ==
  CASE kind = "string" ->
         CASE IsText(v) -> Ok(s, v)
           [] IsNum(v)  -> Took(s, "coerce", path, Text(v.num))
           [] OTHER     -> Err(s, "reject")
    [] kind \in {"integer", "number"} ->
         CASE IsText(v) -> coerce_numeric_string(s, v.str, kind = "integer", path, schema)
           [] IsNum(v)  -> IF kind = "number" \/ IsInt(v) THEN Ok(s, v)
                           ELSE TookWhole(s, path, integral_value(v))
           [] OTHER     -> Err(s, "reject")
    [] kind = "boolean" ->
         CASE IsBool(v)             -> Ok(s, v)
           [] IsText(v) \/ IsNum(v) -> TookSaid(s, path, Said(v))
           [] OTHER                 -> Err(s, "reject")
    [] kind = "null" -> IF v = Null THEN Ok(s, v) ELSE Err(s, "reject")
    [] OTHER -> Err(s, "definition")

coerce_scalar(s, v, kind, schema, path) ==
  LET q == deadline_expired(s) IN IF q.late THEN Err(q, "deadline") ELSE Coerced(q, v, kind, schema, path)

-----------------------------------------------------------------------------
(* The likeness of names.  Every comparison looks at the clock before it   *)
(* starts and while it runs, and once more after the last one.             *)

Likeness(a, b) ==
  IF a = b THEN 100 ELSE IF <<a, b>> \in DOMAIN SCORES THEN SCORES[<<a, b>>] ELSE 0

RECURSIVE Compared(_, _)
Compared(s, n) ==
  IF s.late \/ n = 0 THEN ForcedCheck(s)
  ELSE Compared(deadline_now_expired(ForcedCheck(s)), n - 1)

\* The first of the names most like the key, 0 without one.
Nearest(names, key) ==
  Smallest({n \in 1..Len(names) : \A k \in 1..Len(names) : Likeness(key, names[k]) <= Likeness(key, names[n])})

closest_enum_member(s, v, members) ==
  LET texts == SelectSeq(members, LAMBDA m : IsText(m))
      names == [i \in 1..Len(texts) |-> texts[i].str]
      q     == Compared(s, Len(members))
  IN  CASE ~IsText(v) -> Ok(s, NoValue)
        [] IsText(v) /\ q.late -> Err(q, "deadline")
        [] OTHER -> IF names # <<>> /\ Likeness(v.str, names[Nearest(names, v.str)]) >= SUGGEST_MIN
                    THEN Ok(q, texts[Nearest(names, v.str)]) ELSE Ok(q, NoValue)

Hinted(hint, path) ==
  IF Good(hint) THEN Err(IF hint.v = NoValue THEN hint.s ELSE Logged(hint.s, "suggest", path), "reject")
  ELSE hint

Among(v, values) == \E i \in 1..Len(values) : py_eq(v, values[i])

apply_enum_const(s, v, schema, path) ==
  IF Has(schema, "const") /\ ~py_eq(v, schema.const) THEN Err(s, "reject")
  ELSE IF ~Has(schema, "enum") \/ Among(v, schema.enum) THEN Ok(s, v)
  ELSE Hinted(closest_enum_member(s, v, schema.enum), path)

-----------------------------------------------------------------------------
(* Unions: the first branch whose repair validates.                        *)

Checked(r, schema) == IF Good(r) THEN validate(r.s, r.v, schema) ELSE r

RECURSIVE UnionFrom(_, _, _, _, _, _)
UnionFrom(last, v, subs, k, path, depth) ==
  LET q == ForcedCheck(last.s)
  IN  CASE k > Len(subs) \/ Good(last) -> last
        [] k <= Len(subs) /\ ~Good(last) /\ q.late -> Err(q, "deadline")
        [] OTHER -> UnionFrom(probe(Checked(repair_value(q, v, subs[k], path, depth + 1), subs[k]), q),
                              v, subs, k + 1, path, depth)

repair_union(s, v, subs, path, depth) == UnionFrom(Err(s, "reject"), v, subs, 1, path, depth)

RECURSIVE repair_array(_, _, _, _, _), repair_object(_, _, _, _, _)

repair_by_type(s, v, kind, schema, path, depth) ==
  CASE kind = "array"  -> repair_array(s, v, schema, path, depth)
    [] kind = "object" -> repair_object(s, v, schema, path, depth)
    [] OTHER           -> coerce_scalar(s, v, kind, schema, path)

Confined(r, schema, path) == IF Good(r) THEN apply_enum_const(r.s, r.v, schema, path) ELSE r

OfType(s, v, schema, kind, branch, path, depth) ==
  probe(Checked(Confined(repair_by_type(s, v, kind, schema, path, depth), branch, path), branch), s)

RECURSIVE TypesFrom(_, _, _, _, _, _)
TypesFrom(last, v, schema, k, path, depth) ==
  LET q    == ForcedCheck(last.s)
      kind == schema.types[k]
  IN  CASE k > Len(schema.types) \/ Good(last) -> last
        [] k <= Len(schema.types) /\ ~Good(last) /\ q.late -> Err(q, "deadline")
        [] OTHER -> TypesFrom(OfType(q, v, schema, kind, synthesize_branch(schema, kind), path, depth),
                              v, schema, k + 1, path, depth)

repair_type_union(s, v, schema, path, depth) == TypesFrom(Err(s, "reject"), v, schema, 1, path, depth)

-----------------------------------------------------------------------------
(* A value that is not there.                                              *)

RECURSIVE fill_missing(_, _, _, _), FillFrom(_, _, _, _, _)

\* The first of the types that can be filled; what the failed ones logged stays.
FillFrom(s, schema, k, path, depth) ==
  LET r == fill_missing(s, synthesize_branch(schema, schema.types[k]), path, depth + 1)
  IN  IF k > Len(schema.types) THEN Err(s, "reject")
      ELSE IF Good(r) THEN r ELSE FillFrom(r.s, schema, k + 1, path, depth)

Inferred(root, schema) ==
  CASE Has(schema, "type") -> schema.type
    [] ~Has(schema, "type") /\ is_object_schema(root, schema) -> "object"
    [] OTHER -> IF is_array_schema(root, schema) THEN "array" ELSE "none"

Filler == [kind \in {"string", "integer", "number", "boolean", "array", "object", "null"} |->
            CASE kind = "string" -> EmptyText [] kind = "boolean" -> Bool(FALSE)
              [] kind = "array" -> [arr |-> <<>>] [] kind = "object" -> [obj |-> <<>>]
              [] kind = "null" -> Null [] OTHER -> Whole(<<"0">>)]

Filled(s, schema, path, depth) ==
  LET kind  == Inferred(s.root, schema)
      least == IF kind = "array" THEN Field(schema, "minItems", 0) ELSE Field(schema, "minProperties", 0)
      given == SelectSeq(<<"const", "enum", "default">>, LAMBDA f : Has(schema, f))
  IN  CASE given # <<>> ->
             IF Head(given) # "enum" THEN Took(s, "fill", path, schema[Head(given)])
             ELSE IF schema.enum = <<>> THEN Err(s, "reject") ELSE Took(s, "fill", path, schema.enum[1])
        [] given = <<>> /\ Has(schema, "types") -> FillFrom(s, schema, 1, path, depth)
        [] OTHER ->
             IF kind \notin DOMAIN Filler \/ (kind \in {"array", "object"} /\ least > 0)
             THEN Err(s, "reject") ELSE Took(s, "fill", path, Filler[kind])

fill_missing(s, schema, path, depth) ==
  LET q == deadline_expired(s)
  IN  IF q.late THEN Err(q, "deadline")
      ELSE IF depth > MAX_SCHEMA_DEPTH THEN Err(q, "reject") ELSE Filled(q, schema, path, depth)

-----------------------------------------------------------------------------
(* Lists.                                                                  *)

\* A text that the repair parser read.  A repair that runs out of time gives its error
\* without marking the call as late.
Nested(s, v, made, container, path) ==
  LET q == IF s.left = -1 THEN s ELSE [s EXCEPT !.left = @ - made.polls]
  IN  CASE s.left # -1 /\ made.polls > s.left -> Err([s EXCEPT !.left = 0], "deadline")
        [] Has(made.v, container) -> Took(q, "unwrap_string", path, made.v)
        [] OTHER -> Ok(q, v)

\* A string that is a container, or that salvaging repairs to one.
Unwrap(s, v, strict, container, path) ==
  IF strict.i # -1 /\ Has(strict.v, container) THEN Took(s, "unwrap_string", path, strict.v)
  ELSE IF s.salvage THEN Nested(s, v, s.nested[v.str], container, path) ELSE Ok(s, v)

load_json_string_container(s, v, container, path) ==
  IF IsText(v) THEN Unwrap(s, v, loads_strict(v.str), container, path) ELSE Ok(s, v)

Keep(r, out)   == Ok(r.s, Append(out, r.v))
Dropped(s, path, out) == Took(s, "drop_item", path, out)

\* The items so far, and the next one repaired; salvaging drops what does not repair.
repair_or_drop(r, out, path) ==
  CASE Good(r) -> Keep(r, out)
    [] ~Good(r) /\ r.s.salvage /\ r.err # "definition" -> Dropped(r.s, path, out)
    [] OTHER -> r

\* The schema of the item at k, 1 the first: [schema], [any] or [extra].
ItemSchema(schema, k) ==
  LET extra == Field(schema, "additionalItems", [bool |-> TRUE])
  IN  CASE Has(schema, "tuple") /\ k <= Len(schema.tuple) -> [of |-> schema.tuple[k], how |-> "repair"]
        [] Has(schema, "tuple") /\ k > Len(schema.tuple) ->
             [of |-> extra, how |-> IF Has(extra, "bool") THEN IF extra.bool THEN "keep" ELSE "drop"
                                    ELSE IF Has(extra, "junk") THEN "drop" ELSE "repair"]
        [] Has(schema, "items") -> [of |-> schema.items, how |-> "repair"]
        [] OTHER -> [of |-> NoSchema, how |-> "keep"]

RECURSIVE ItemsFrom(_, _, _, _, _, _)
ItemsFrom(r, items, schema, k, path, depth) ==
  LET sub  == ItemSchema(schema, k)
      at   == Append(path, Item(k))
      next == CASE sub.how = "keep" -> Ok(r.s, Append(r.v, normalize_missing_values(items[k])))
                [] sub.how = "drop" -> Dropped(r.s, at, r.v)
                [] OTHER -> repair_or_drop(repair_value(r.s, items[k], sub.of, at, depth + 1), r.v, at)
  IN  IF k > Len(items) \/ ~Good(r) THEN r ELSE ItemsFrom(next, items, schema, k + 1, path, depth)

AtLeast(r, least) == IF Good(r) /\ Len(r.v) < least THEN Err(r.s, "reject") ELSE r

repair_items(s, items, schema, path, depth) ==
  AtLeast(ItemsFrom(Ok(s, <<>>), items, schema, 1, path, depth), Field(schema, "minItems", 0))

AsArray(r) == IF Good(r) THEN Ok(r.s, [arr |-> r.v]) ELSE r

RECURSIVE comma_parts(_)
comma_parts(text) ==
  LET comma == Smallest({Len(text) + 1} \cup {i \in 1..Len(text) : text[i] = ","})
  IN  <<Text(trim(SubSeq(text, 1, comma - 1)))>>
        \o (IF comma > Len(text) THEN <<>> ELSE comma_parts(SubSeq(text, comma + 1, Len(text))))

array_is_guided(schema) ==
  Has(schema, "tuple") \/ (Has(schema, "items") /\ ~Has(schema.items, "bool") /\ ~Has(schema.items, "junk"))

\* What is no list: the list of it, or when that fails the list of its parts.  Both
\* are tried, and both log.
WrappedOrSplit(one, split, path) ==
  IF Good(split) /\ ~Good(one) THEN Took(split.s, "coerce", path, [arr |-> split.v])
  ELSE AsArray([one EXCEPT !.s = Logged(split.s, "wrap_array", path)])

OneOrParts(one, v, schema, path, depth) ==
  LET comma == IsText(v) /\ array_is_guided(schema) /\ \E i \in 1..Len(v.str) : v.str[i] = ","
  IN  WrappedOrSplit(one, IF comma THEN repair_items(one.s, comma_parts(v.str), schema, path, depth)
                          ELSE Err(one.s, "reject"), path)

Wrapped(s, v, schema, path, depth) ==
  OneOrParts(repair_items(s, <<v>>, schema, path, depth), v, schema, path, depth)

ArrayRepaired(r, schema, path, depth) ==
  CASE ~Good(r) -> r
    [] Good(r) /\ IsArray(r.v) -> AsArray(repair_items(r.s, r.v.arr, schema, path, depth))
    [] OTHER -> Wrapped(r.s, r.v, schema, path, depth)

repair_array(s, v, schema, path, depth) ==
  ArrayRepaired(load_json_string_container(s, v, "arr", path), schema, path, depth)

-----------------------------------------------------------------------------
(* Names.                                                                  *)

Ladder(how, target) == [how |-> how, target |-> target]

remap_allowed(target, schema) ==
  \/ Field(schema, "additionalProperties", NoSchema) = [bool |-> FALSE]
  \/ \E i \in 1..Len(Required(schema)) : Required(schema)[i] = target

\* The property most like the key stands for it when no other is nearly as much
\* like it; it is renamed when that property is not there and is asked for.
ByLikeness(key, members, schema) ==
  LET names  == [i \in 1..Len(Properties(schema)) |-> Properties(schema)[i][1]]
      best   == Nearest(names, key)
      top    == Likeness(key, names[best])
      clear  == \A n \in 1..Len(names) \ {best} : top - Likeness(key, names[n]) > TYPO_REMAP_MARGIN
  IN  IF names = <<>> \/ top < SUGGEST_MIN THEN Ladder("nothing", <<>>)
      ELSE IF /\ top >= TYPO_REMAP_MIN /\ clear
              /\ ~Holding(members, names[best]) /\ remap_allowed(names[best], schema)
      THEN Ladder("remap", names[best]) ELSE Ladder("suggest", names[best])

ByScores(scored, key, members, schema) ==
  IF scored.late THEN Err(scored, "deadline") ELSE Ok(scored, ByLikeness(key, members, schema))

\* A name that folds to a property whose repair the value fits, or the likeness of names.
Fitted(tried, key, hits, members, schema) ==
  IF Good(tried) THEN Ok(tried.s, Ladder("remap", hits[1][1]))
  ELSE ByScores(Compared(tried.s, Len(Properties(schema))), key, members, schema)

\* r.v is the ladder's answer for a member of the value.
key_ladder(s, member, members, schema, path, depth) ==
  LET q    == ForcedCheck(s)
      hits == fold_hits(schema, member[1])
      free == Len(hits) = 1 /\ ~Holding(members, hits[1][1])
  IN  IF q.late THEN Err(q, "deadline")
      ELSE Fitted(IF free THEN probe(repair_value(q, member[2], hits[1][2], Append(path, Key(hits[1][1])), depth + 1), q)
                  ELSE Err(q, "reject"), member[1], hits, members, schema)

Renamed(members, from, to) == [members EXCEPT ![PlaceOf(members, from)] = <<to, @[2]>>]

-----------------------------------------------------------------------------
(* Objects.                                                                *)

\* A list with as many items as the schema has properties, in their order; r.v is
\* NoValue when one of them does not fit.
RECURSIVE MapFrom(_, _, _, _, _)
MapFrom(r, items, props, path, depth) ==
  LET k    == Len(r.v) + 1
      made == repair_value(r.s, items[k], props[k][2], Append(path, Key(props[k][1])), depth + 1)
  IN  CASE k > Len(props) -> Ok(r.s, [obj |-> r.v])
        [] k <= Len(props) /\ ~Good(made) ->
             IF made.err = "definition" THEN made ELSE Ok(made.s, NoValue)
        [] OTHER -> MapFrom(Ok(made.s, Append(r.v, <<props[k][1], made.v>>)), items, props, path, depth)

map_list_to_object(s, items, schema, path, depth) ==
  LET props == Properties(schema)
  IN  IF props = <<>> \/ Len(items) # Len(props) THEN Ok(s, NoValue)
      ELSE MapFrom(Ok(s, <<>>), items, props, path, depth)

MappedOrFirst(mapped, v, path) ==
  CASE ~Good(mapped) -> mapped
    [] Good(mapped) /\ mapped.v # NoValue -> Took(mapped.s, "map_array_to_object", path, mapped.v)
    [] OTHER -> IF path = <<>> /\ Len(v.arr) = 1 /\ IsObject(v.arr[1])
                THEN Took(mapped.s, "unwrap_root_array", path, v.arr[1]) ELSE Ok(mapped.s, v)

ListAsObject(s, v, schema, path, depth) ==
  IF s.salvage /\ IsArray(v) /\ is_object_schema(s.root, schema) /\ ~is_array_schema(s.root, schema)
  THEN MappedOrFirst(map_list_to_object(s, v.arr, schema, path, depth), v, path) ELSE Ok(s, v)

\* What salvaging puts in the place of a property that is asked for.
salvage_fill(root, prop) ==
  LET c     == resolve_chain(root, prop)
      f     == c.schema
      given == SelectSeq(<<"default", "const", "enum">>, LAMBDA g : Has(f, g) /\ f[g] # <<>>)
  IN  IF c.kind # "schema" THEN NoValue
      ELSE IF given # <<>> THEN IF Head(given) = "enum" THEN f.enum[1] ELSE f[Head(given)]
      ELSE IF is_array_schema(root, f) /\ ~Has(f, "minItems") THEN [arr |-> <<>>]
      ELSE IF is_object_schema(root, f) /\ ~Has(f, "minProperties") THEN [obj |-> <<>>] ELSE NoValue

RECURSIVE FillRequired(_, _, _, _)
FillRequired(r, schema, k, path) ==
  LET key    == Required(schema)[k]
      filled == salvage_fill(r.s.root, property(schema, key))
      fills  == ~Holding(r.v, key) /\ HasProperty(schema, key) /\ filled # NoValue
  IN  IF k > Len(Required(schema)) THEN r
      ELSE FillRequired(IF fills THEN Took(r.s, "fill_required", Append(path, Key(key)), Append(r.v, <<key, filled>>))
                        ELSE r, schema, k + 1, path)

RECURSIVE Suggested(_, _, _)
Suggested(s, path, times) == IF times = 0 THEN s ELSE Suggested(Logged(s, "suggest", path), path, times - 1)

\* What is repaired of a member that is no property: nothing, or by a schema; dropped
\* by NoSchema.
extra_plan(schema) ==
  LET extra == Field(schema, "additionalProperties", [bool |-> TRUE])
  IN  IF Has(extra, "bool") THEN IF extra.bool THEN <<>> ELSE <<NoSchema>>
      ELSE IF Has(extra, "junk") THEN <<>> ELSE <<extra>>

Planned(r, s, members, more) ==
  [r EXCEPT !.s = s, !.v = members, !.k = @ + 1, !.extras = @ \o more]

\* The members that are no properties, by their plans; r.v are the members with those
\* renamed that stand for a property, r.k the place of the next one.
ByLadder(r, ladder, member, schema, path) ==
  LET at   == Append(path, Key(member[1]))
      to   == ladder.v.target
  IN  CASE ~Good(ladder) -> [r EXCEPT !.s = ladder.s, !.err = ladder.err]
        [] Good(ladder) /\ ladder.v.how = "remap" ->
             Planned(r, Moved(ladder.s, "remap_key", at, Append(path, Key(to))),
                     Renamed(r.v, member[1], to), <<>>)
        [] OTHER -> Planned(r, IF ladder.v.how = "suggest" THEN Logged(ladder.s, "suggest", at) ELSE ladder.s,
                            r.v, <<[member |-> member, plan |-> extra_plan(schema)]>>)

ExtraAt(r, member, schema, path, depth) ==
  LET matched == match_pattern_properties(schema, member[1])
      s       == Suggested(r.s, Append(path, Key(member[1])), Len(unsupported_patterns(schema)))
      plan    == [i \in 1..Len(matched) |-> matched[i][2]]
  IN  IF HasProperty(schema, member[1]) THEN Planned(r, r.s, r.v, <<>>)
      ELSE IF matched # <<>> THEN Planned(r, s, r.v, <<[member |-> member, plan |-> plan]>>)
      ELSE ByLadder(r, key_ladder(s, member, r.v, schema, path, depth), member, schema, path)

RECURSIVE ExtrasFrom(_, _, _, _, _)
ExtrasFrom(r, members, schema, path, depth) ==
  IF r.k > Len(members) \/ ~Good(r) THEN r
  ELSE ExtrasFrom(ExtraAt(r, members[r.k], schema, path, depth), members, schema, path, depth)

\* A value repaired by one schema after another.
RECURSIVE ThroughAll(_, _, _, _)
ThroughAll(r, subs, path, depth) ==
  IF subs = <<>> \/ ~Good(r) THEN r
  ELSE ThroughAll(repair_value(r.s, r.v, Head(subs), path, depth + 1), Tail(subs), path, depth)

Joined(r, key, made) ==
  IF Good(made) THEN Ok(made.s, Append(r.v, <<key, made.v>>)) ELSE made

\* The properties in the schema's order, with the defaults of those that are neither
\* there nor asked for.
RECURSIVE PropertiesFrom(_, _, _, _, _, _)
PropertiesFrom(r, members, schema, k, path, depth) ==
  LET p    == Properties(schema)[k]
      at   == Append(path, Key(p[1]))
      due  == Has(p[2], "default") /\ \A i \in 1..Len(Required(schema)) : Required(schema)[i] # p[1]
      next == IF Holding(members, p[1])
              THEN Joined(r, p[1], repair_value(r.s, ValueOf(members, p[1]), p[2], at, depth + 1))
              ELSE IF due THEN Took(r.s, "insert_default", at, Append(r.v, <<p[1], p[2].default>>)) ELSE r
  IN  IF k > Len(Properties(schema)) \/ ~Good(r) THEN r
      ELSE PropertiesFrom(next, members, schema, k + 1, path, depth)

RECURSIVE ExtrasRepaired(_, _, _, _, _)
ExtrasRepaired(r, extras, k, path, depth) ==
  LET e    == extras[k]
      at   == Append(path, Key(e.member[1]))
      next == CASE e.plan = <<>> -> Ok(r.s, Append(r.v, <<e.member[1], normalize_missing_values(e.member[2])>>))
                [] e.plan = <<NoSchema>> -> Took(r.s, "drop_property", at, r.v)
                [] OTHER -> Joined(r, e.member[1], ThroughAll(Ok(r.s, e.member[2]), e.plan, at, depth))
  IN  IF k > Len(extras) \/ ~Good(r) THEN r ELSE ExtrasRepaired(next, extras, k + 1, path, depth)

\* The members as they are named now, and those that are no properties.
AsObject(r) == IF Good(r) THEN Ok(r.s, [obj |-> r.v]) ELSE r

AllMembers(s, members, extras, schema, path, depth) ==
  IF \E i \in 1..Len(Required(schema)) : ~Holding(members, Required(schema)[i]) THEN Err(s, "reject")
  ELSE LET props == PropertiesFrom(Ok(s, <<>>), members, schema, 1, path, depth)
       IN  AsObject(AtLeast(ExtrasRepaired(props, extras, 1, path, depth), Field(schema, "minProperties", 0)))

Placed(r, schema, path, depth) ==
  IF Good(r) THEN AllMembers(r.s, r.v, r.extras, schema, path, depth) ELSE Err(r.s, r.err)

Sorted(filled, schema, path, depth) ==
  Placed(ExtrasFrom([s |-> filled.s, v |-> filled.v, err |-> "", k |-> 1, extras |-> <<>>],
                    filled.v, schema, path, depth), schema, path, depth)

Unwrapped(r, path) == IF Good(r) THEN load_json_string_container(r.s, r.v, "obj", path) ELSE r

ObjectRepaired(r, schema, path, depth) ==
  CASE ~Good(r) -> r
    [] Good(r) /\ ~IsObject(r.v) -> Err(r.s, "reject")
    [] OTHER -> LET members == Ok(r.s, r.v.obj)
                IN  Sorted(IF r.s.salvage THEN FillRequired(members, schema, 1, path) ELSE members,
                           schema, path, depth)

repair_object(s, v, schema, path, depth) ==
  ObjectRepaired(Unwrapped(ListAsObject(s, v, schema, path, depth), path), schema, path, depth)

-----------------------------------------------------------------------------
(* A value.                                                                *)

Kinds(root, schema) ==
  CASE Has(schema, "type")  -> [how |-> "one", name |-> schema.type]
    [] Has(schema, "types") -> [how |-> "many", name |-> ""]
    [] OTHER -> CASE is_object_schema(root, schema) -> [how |-> "one", name |-> "object"]
                  [] ~is_object_schema(root, schema) /\ is_array_schema(root, schema) ->
                       [how |-> "one", name |-> "array"]
                  [] OTHER -> [how |-> "none", name |-> ""]

ByKind(s, v, schema, kinds, path, depth) ==
  Confined(CASE kinds.how = "one"  -> repair_by_type(s, v, kinds.name, schema, path, depth)
             [] kinds.how = "many" -> repair_type_union(s, v, schema, path, depth)
             [] OTHER -> Ok(s, normalize_missing_values(v)), schema, path)

BySchema(s, v, schema, path, depth) ==
  CASE schema = EmptySchema -> Ok(s, normalize_missing_values(v))
    [] schema # EmptySchema /\ v = Missing -> fill_missing(s, schema, path, depth)
    [] OTHER ->
         IF Has(schema, "allOf")
         THEN IF schema.allOf = <<>> THEN Ok(s, normalize_missing_values(v))
              ELSE ThroughAll(Ok(s, v), schema.allOf, path, depth)
         ELSE IF Has(schema, "oneOf") \/ Has(schema, "anyOf")
         THEN repair_union(s, v, IF Has(schema, "oneOf") THEN schema.oneOf ELSE schema.anyOf, path, depth)
         ELSE ByKind(s, v, schema, Kinds(s.root, schema), path, depth)

repair_value(s, v, schema, path, depth) ==
  LET q == deadline_expired(s)
      c == resolve_chain(q.root, schema)
  IN  CASE q.late -> Err(q, "deadline")
        [] ~q.late /\ depth > MAX_SCHEMA_DEPTH -> Err(q, "reject")
        [] OTHER -> CASE c.kind = "true"  -> Ok(q, normalize_missing_values(v))
                      [] c.kind = "false" -> Err(q, "reject")
                      [] c.kind = "error" -> Err(q, "definition")
                      [] OTHER -> BySchema(q, v, c.schema, path, depth)
===============================================================================
