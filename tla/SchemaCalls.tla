------------------------------ MODULE SchemaCalls ------------------------------
(***************************************************************************)
(* repair_json with a schema, for a text that is JSON (src/src/            *)
(* json_repair/mod.rs): the names are normalized, a valid value is         *)
(* returned as it is, and any other is repaired in place and returned when *)
(* it validates then; what does not goes to the repair parser, whose       *)
(* schema-guided reading is not modelled but for the value it fills a      *)
(* member with that the text has none for.                                 *)
(***************************************************************************)
EXTENDS SchemaRepair
LOCAL INSTANCE SequencesExt

CONSTANT SchemaCases   \* sets of families, [values, schemas, salvages, locales, lefts]

VARIABLES
  case,     \* what was asked
  rep,      \* the repairer: its clock and its log
  value,    \* the value as it now is
  phase     \* what comes next; at the end how the call was answered

schema_vars == <<case, rep, value, phase>>

-----------------------------------------------------------------------------
(* Normalizing names: in place and without errors; once the clock was seen *)
(* to have run out, the value stays as it is.                              *)

RECURSIVE normalize_keys(_, _, _, _, _), NormalizeAll(_, _, _, _)

\* The names that fold to one property, which is not there and which the value fits.
RECURSIVE Renames(_, _, _, _, _)
Renames(s, members, schema, renames, k) ==
  LET member == members[k]
      q      == deadline_expired(s)
      hits   == fold_hits(schema, member[1])
      known  == HasProperty(schema, member[1]) \/ match_pattern_properties(schema, member[1]) # <<>>
      taken  == Holding(members, hits[1][1]) \/ \E i \in 1..Len(renames) : renames[i][2] = hits[1][1]
      fits   == is_valid(q, member[2], hits[1][2])
      single == ~known /\ Len(hits) = 1
  IN  CASE k > Len(members) -> [s |-> s, renames |-> renames, done |-> TRUE]
        [] k <= Len(members) /\ q.late -> [s |-> q, renames |-> <<>>, done |-> FALSE]
        [] OTHER -> Renames(IF single THEN fits.s ELSE q, members, schema,
                            IF single /\ ~taken /\ fits.yes THEN Append(renames, <<member[1], hits[1][1]>>)
                            ELSE renames, k + 1)

RECURSIVE ApplyRenames(_, _, _)
ApplyRenames(r, renames, path) ==
  LET from == Head(renames)[1]
      to   == Head(renames)[2]
      q    == Moved(r.s, "remap_key", Append(path, Key(from)), Append(path, Key(to)))
  IN  IF renames = <<>> THEN r ELSE ApplyRenames(Ok(q, Renamed(r.v, from, to)), Tail(renames), path)

\* The schema of a member that is no property, NoSchema when there is none.
ExtraSchema(schema, key) ==
  LET matched == match_pattern_properties(schema, key)
      extra   == Field(schema, "additionalProperties", NoSchema)
  IN  IF matched # <<>> THEN matched[1][2]
      ELSE IF Has(extra, "bool") \/ Has(extra, "junk") THEN NoSchema ELSE extra

NormalizeMember(r, k, sub, path, depth) ==
  LET in == normalize_keys(r.s, r.v[k][2], sub, Append(path, Key(r.v[k][1])), depth + 1)
  IN  IF sub = NoSchema THEN r ELSE Ok(in.s, [r.v EXCEPT ![k] = <<@[1], in.v>>])

\* The properties in the schema's order, then the members that are none; before each
\* member of the second round the clock is polled.
RECURSIVE NormalizeProperties(_, _, _, _, _), NormalizeExtras(_, _, _, _, _)
NormalizeProperties(r, schema, n, path, depth) ==
  LET p == Properties(schema)[n]
  IN  IF n > Len(Properties(schema)) THEN NormalizeExtras(r, schema, 1, path, depth)
      ELSE NormalizeProperties(IF Holding(r.v, p[1])
                               THEN NormalizeMember(r, PlaceOf(r.v, p[1]), p[2], path, depth) ELSE r,
                               schema, n + 1, path, depth)

NormalizeExtras(r, schema, k, path, depth) ==
  LET key == r.v[k][1]
      q   == Ok(deadline_expired(r.s), r.v)
  IN  IF k > Len(r.v) THEN r
      ELSE IF q.s.late THEN q
      ELSE NormalizeExtras(IF HasProperty(schema, key) THEN q
                           ELSE NormalizeMember(q, k, ExtraSchema(schema, key), path, depth),
                           schema, k + 1, path, depth)

\* Mutant: the members are normalized before they have their names.
WithinThenRenamed(s, members, schema, path, depth) ==
  LET found == Renames(s, members, schema, <<>>, 1)
      inner == NormalizeProperties(Ok(found.s, members), schema, 1, path, depth)
      r     == ApplyRenames(inner, found.renames, path)
  IN  IF found.done THEN Ok(r.s, [obj |-> r.v]) ELSE Ok(found.s, [obj |-> members])

NormalizeObject(s, members, schema, path, depth) ==
  LET found   == Renames(s, members, schema, <<>>, 1)
      renamed == ApplyRenames(Ok(found.s, members), found.renames, path)
      r       == NormalizeProperties(renamed, schema, 1, path, depth)
  IN  IF found.done THEN Ok(r.s, [obj |-> r.v]) ELSE Ok(found.s, [obj |-> members])

RECURSIVE NormalizeItems(_, _, _, _, _)
NormalizeItems(r, schema, k, path, depth) ==
  LET guided == Has(schema, "items") \/ (Has(schema, "tuple") /\ k <= Len(schema.tuple))
      in     == normalize_keys(r.s, r.v[k], ItemSchema(schema, k).of, Append(path, Item(k)), depth + 1)
  IN  IF k > Len(r.v) \/ ~guided THEN r
      ELSE NormalizeItems(Ok(in.s, [r.v EXCEPT ![k] = in.v]), schema, k + 1, path, depth)

Within(r, schema, path, depth) ==
  LET items == NormalizeItems(Ok(r.s, r.v.arr), schema, 1, path, depth)
  IN  CASE IsObject(r.v) -> NormalizeObject(r.s, r.v.obj, schema, path, depth)
        [] IsArray(r.v)  -> Ok(items.s, [arr |-> items.v])
        [] OTHER -> r

NormalizeAll(r, subs, path, depth) ==
  IF subs = <<>> THEN r
  ELSE NormalizeAll(normalize_keys(r.s, r.v, Head(subs), path, depth + 1), Tail(subs), path, depth)

normalize_keys(s, v, schema, path, depth) ==
  LET q == deadline_expired(s)
      c == resolve_chain(q.root, schema)
  IN  IF depth > MAX_SCHEMA_DEPTH THEN Ok(s, v)
      ELSE IF q.late \/ c.kind # "schema" THEN Ok(q, v)
      ELSE Within(NormalizeAll(Ok(q, v), Field(c.schema, "allOf", <<>>), path, depth),
                  c.schema, path, depth)

-----------------------------------------------------------------------------
(* What a valid value may have been meant to say: the names like a         *)
(* property's are logged, and nothing is changed.                          *)

RECURSIVE suggest_scan(_, _, _, _, _), ScanMembers(_, _, _, _, _, _), ScanItems(_, _, _, _, _, _)

OfLadder(ladder, at) ==
  IF ~Good(ladder) \/ ladder.v.how = "nothing" THEN ladder ELSE Ok(Logged(ladder.s, "suggest", at), ladder.v)

ScanMember(s, member, members, schema, path, depth) ==
  LET at    == Append(path, Key(member[1]))
      known == HasProperty(schema, member[1]) \/ match_pattern_properties(schema, member[1]) # <<>>
      sub   == IF HasProperty(schema, member[1]) THEN property(schema, member[1]) ELSE ExtraSchema(schema, member[1])
  IN  IF known THEN Ok(suggest_scan(s, member[2], sub, at, depth + 1), NoValue)
      ELSE OfLadder(key_ladder(s, member, members, schema, path, depth), at)

\* An error of the ladder ends the scan.
ScanMembers(r, members, k, schema, path, depth) ==
  IF ~Good(r) \/ k > Len(members) THEN r.s
  ELSE ScanMembers(ScanMember(r.s, members[k], members, schema, path, depth), members, k + 1,
                   schema, path, depth)

ScanItems(s, items, k, schema, path, depth) ==
  LET guided == Has(schema, "items") \/ (Has(schema, "tuple") /\ k <= Len(schema.tuple))
  IN  IF k > Len(items) \/ ~guided THEN s
      ELSE ScanItems(suggest_scan(s, items[k], ItemSchema(schema, k).of, Append(path, Item(k)), depth + 1),
                     items, k + 1, schema, path, depth)

RECURSIVE ScanAll(_, _, _, _, _)
ScanAll(s, v, subs, path, depth) ==
  IF subs = <<>> THEN s ELSE ScanAll(suggest_scan(s, v, Head(subs), path, depth + 1), v, Tail(subs), path, depth)

suggest_scan(s, v, schema, path, depth) ==
  LET q == deadline_expired(s)
      c == resolve_chain(q.root, schema)
      r == ScanAll(q, v, Field(c.schema, "allOf", <<>>), path, depth)
  IN  IF depth > MAX_SCHEMA_DEPTH THEN s
      ELSE IF q.late \/ c.kind # "schema" THEN q
      ELSE CASE IsObject(v) -> ScanMembers(Ok(r, NoValue), v.obj, 1, c.schema, path, depth)
             [] IsArray(v)  -> ScanItems(r, v.arr, 1, c.schema, path, depth)
             [] OTHER -> r

-----------------------------------------------------------------------------
(* The call.                                                               *)

NormalizeKeys ==
  /\ phase = "loaded"
  /\ \E r \in {normalize_keys(rep, value, case.schema, <<>>, 0)} : rep' = r.s /\ value' = r.v
  /\ phase' = "normalized"
  /\ UNCHANGED case

\* is_valid(rep, value) decides between the two.
ReturnValid ==
  /\ phase = "normalized"
  /\ \E valid \in {is_valid(rep, value, case.schema)} :
       valid.yes /\ rep' = suggest_scan(valid.s, value, case.schema, <<>>, 0)
  /\ phase' = "valid"
  /\ UNCHANGED <<case, value>>

Became(r, done, failed) ==
  /\ rep' = r.s
  /\ phase' = IF Good(r) THEN done ELSE failed
  /\ value' = IF Good(r) THEN r.v ELSE value

RepairValue ==
  /\ phase = "normalized"
  /\ \E valid \in {is_valid(rep, value, case.schema)} :
       /\ ~valid.yes
       /\ \E r \in {repair_value(valid.s, value, case.schema, <<>>, 0)} : Became(r, "repaired", "failed")
  /\ UNCHANGED case

AcceptRepair ==
  /\ phase = "repaired"
  /\ \E valid \in {is_valid(rep, value, case.schema)} :
       rep' = valid.s /\ phase' = IF valid.yes THEN "aligned" ELSE "failed"
  /\ UNCHANGED <<case, value>>

\* The clock is read before the text goes to the repair parser.
FallThrough ==
  /\ phase = "failed"
  /\ phase' = IF rep.left = 0 THEN "refused" ELSE "reparse"
  /\ UNCHANGED <<case, rep, value>>

\* The repair parser meets a name without a value and asks for one.
FillMember ==
  /\ phase = "member"
  /\ \E r \in {repair_value(rep, Missing, case.schema, <<>>, 0)} : Became(r, "filled", "unfilled")
  /\ UNCHANGED case

\* The texts of a value that salvaging may give to the repair parser.
RECURSIVE TextsOf(_)
TextsOf(v) ==
  CASE IsText(v)   -> {v.str} \cup {part.str : part \in ToSet(comma_parts(v.str))}
    [] IsArray(v)  -> UNION {TextsOf(v.arr[i]) : i \in 1..Len(v.arr)}
    [] IsObject(v) -> UNION {TextsOf(v.obj[i][2]) : i \in 1..Len(v.obj)}
    [] OTHER       -> {}

\* What the repair parser makes of a text, NoValue when it fails, and how often it
\* looks at the clock.
ENOUGH == 1000
Nesting(r) == [v |-> IF r.p.err = "" THEN r.v ELSE NoValue, polls |-> ENOUGH - r.p.polls]

SchemaInit ==
  /\ \E f \in SchemaCases :
       \E v \in f.values, schema \in f.schemas, salvage \in f.salvages, locale \in f.locales, left \in f.lefts :
         case = [v |-> v, schema |-> schema, salvage |-> salvage, locale |-> locale, left |-> left]
  /\ LET texts == IF case.salvage THEN TextsOf(case.v) ELSE {}
     IN  rep = NewRepairer(case.schema, case.salvage, case.locale, case.left,
                           [text \in texts |-> Nesting(repair(text, TRUE, FALSE, ENOUGH))])
  /\ value = case.v
  /\ phase = IF case.v = Missing THEN "member" ELSE "loaded"

SchemaNext ==
  NormalizeKeys \/ ReturnValid \/ RepairValue \/ AcceptRepair \/ FallThrough \/ FillMember

SchemaSpec == SchemaInit /\ [][SchemaNext]_schema_vars

-----------------------------------------------------------------------------
(* Properties.                                                             *)

Aligned == phase \in {"valid", "aligned"}

\* What the call answers without a deadline, NoValue when it goes to the parser.
Accepted(r, schema) == IF Good(r) /\ is_valid(r.s, r.v, schema).yes THEN r.v ELSE NoValue

AnswerOf(loaded, schema) ==
  IF is_valid(loaded.s, loaded.v, schema).yes THEN loaded.v
  ELSE Accepted(repair_value(loaded.s, loaded.v, schema, <<>>, 0), schema)

Unhurried(v, schema, salvage, locale) ==
  AnswerOf(normalize_keys(NewRepairer(schema, salvage, locale, -1, rep.nested), v, schema, <<>>, 0), schema)

InTime == value = Unhurried(case.v, case.schema, case.salvage, case.locale)

RECURSIVE HasText(_), Spots(_, _)
HasText(v) ==
  \/ IsText(v)
  \/ IsArray(v)  /\ \E i \in 1..Len(v.arr) : HasText(v.arr[i])
  \/ IsObject(v) /\ \E i \in 1..Len(v.obj) : HasText(v.obj[i][2])

\* Wherever the clock runs out, the call is refused or gives the value it gives
\* without a deadline: names normalized in part, branches of a union or readings of a
\* number passed over for want of time never show in an answer (docs/api.md:2252).
\* Salvaging strings is the exception: an item whose repair ran out of time is dropped
\* as one that does not repair.
DeadlineRefusesAlignment == Aligned /\ ~(case.salvage /\ HasText(case.v)) => InTime

\* The scalars of a value, and its empty containers, with their paths.
Spots(v, path) ==
  CASE IsArray(v) /\ v.arr # <<>> ->
         UNION {Spots(v.arr[i], Append(path, Item(i))) : i \in 1..Len(v.arr)}
    [] IsObject(v) /\ v.obj # <<>> ->
         UNION {Spots(v.obj[i][2], Append(path, Key(v.obj[i][1]))) : i \in 1..Len(v.obj)}
    [] OTHER -> {[path |-> path, v |-> v]}

RECURSIVE Unions(_)
Unions(schema) ==
  \/ DOMAIN schema \cap {"anyOf", "oneOf", "types", "ref"} # {}
  \/ \E f \in DOMAIN schema \cap {"items", "additionalProperties", "additionalItems"} : Unions(schema[f])
  \/ \E f \in DOMAIN schema \cap {"tuple", "allOf"} : \E i \in 1..Len(schema[f]) : Unions(schema[f][i])
  \/ \E f \in DOMAIN schema \cap {"properties", "patternProperties"} :
       \E i \in 1..Len(schema[f]) : Unions(schema[f][i][2])

\* An entry is about what is at its path, and at the one it leads to, and about a
\* container that it empties or fills; a dropped item moves the items behind it.
About(entry, spot) ==
  LET path  == spot.path
      above == Len(entry.path) - 1
  IN  \/ IsPrefix(entry.path, path) \/ IsPrefix(entry.to, path)
      \/ spot.v \in {[arr |-> <<>>], [obj |-> <<>>]} /\ IsPrefix(path, entry.path)
      \/ /\ entry.action = "drop_item" /\ Len(path) > above
         /\ SubSeq(path, 1, above) = SubSeq(entry.path, 1, above)

\* Every scalar of the answer that the text does not have at the same path, and every
\* one of the text that the answer lost, is accounted for by an entry of the log.
AllAccountedFor ==
  LET before == Spots(case.v, <<>>)
      after  == Spots(value, <<>>)
  IN  \A spot \in (before \ after) \cup (after \ before) :
        \E n \in 1..Len(rep.log) : About(rep.log[n], spot)

\* The log accounts for every change (docs/api.md:2233), unless a union made it.
EveryChangeIsLogged == Aligned /\ ~Unions(case.schema) => AllAccountedFor

\* What the branch of a union did that wins is in the log
\* (json_schema_impl.rs:1328).
WinnersAreLogged == Aligned => AllAccountedFor

\* A number in a text is what one of the two conventions reads.  When they read two
\* that the schema both takes, and it is not for the point of a plain number, the log
\* says which convention was assumed (docs/api.md:2545).
DisclosedAmong(known) ==
  LET commas == {i \in 1..Len(case.v.str) : case.v.str[i] \in {",", "wide,"}}
  IN  /\ value \in known
      /\ Cardinality(known) = 2 /\ commas # {} => \E n \in 1..Len(rep.log) : rep.log[n].action = "suggest"

AmbiguityIsDisclosed ==
  Aligned /\ case.locale = Auto /\ IsText(case.v) /\ ~Unions(case.schema) =>
    DisclosedAmong({Unhurried(case.v, case.schema, case.salvage, spec) : spec \in {DOT_COMMA, EU_MIRROR}}
                     \ {NoValue})

\* An answer is a fixed point.
AnswersAreFixed ==
  Aligned => Unhurried(value, case.schema, case.salvage, case.locale) = value
===============================================================================
