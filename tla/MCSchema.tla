-------------------------------- MODULE MCSchema --------------------------------
(***************************************************************************)
(* Small values and schemas for the alignment.  A family is a set of       *)
(* values, and the schemas that have something to say about them.          *)
(***************************************************************************)
EXTENDS SchemaCalls, SequencesExt, TLC

T(chars) == Text(chars)
N(d)     == Whole(<<d>>)
A(items) == [arr |-> items]
O(pairs) == [obj |-> pairs]
Type(t)  == [type |-> t]

a == <<"a">>
b == <<"b">>
ab == <<"a", "_", "b">>
AB == <<"a", "-", "b">>
abs == <<"a", "b">>

Family(values, schemas, salvages, tags, lefts) ==
  [values |-> values, schemas |-> schemas, salvages |-> salvages,
   locales |-> {locale_spec_from_tag[tag] : tag \in tags}, lefts |-> lefts]

JoinAll(parts) == FoldLeft(LAMBDA out, s : out \o s, <<>>, parts)

Tokens(tokens, n) == {T(JoinAll(w)) : w \in UNION {[1..k -> tokens] : k \in 1..n}}

\* Texts of digits, groups, separators and noise.
Numerals ==
  Tokens({<<"1">>, <<"2", "3", "8">>, <<",">>, <<".">>, <<"-">>, <<" ">>, <<"%">>, <<"x">>}, 3)
  \cup Tokens({<<"1", ",", "2", "3", "8">>, <<".", "2", "3", "8">>, <<",", "2", "3", "8">>, <<"-">>,
               <<"_">>, <<"wide1">>, <<"wide,">>, <<"rsquo">>}, 2)

NumberSchemas ==
  {Type("integer"), Type("number"), [type |-> "number", maximum |-> Whole(<<"2", "0">>)],
   [types |-> <<"null", "number">>]}

Scalars == {T(<<"y", "e", "s">>), T(<<"N">>), T(<<"1">>), T(<<"a">>), T(<<>>), N("1"), N("2"),
            Frac(<<"1", ".", "0">>), Frac(<<"1", ".", "2">>), Bool(TRUE), Null, A(<<>>), O(<<>>)}

ScalarSchemas ==
  {Type(t) : t \in {"string", "integer", "number", "boolean", "null", "object", "array", "bogus"}}
  \cup {[bool |-> x] : x \in BOOLEAN} \cup {[junk |-> "list"], EmptySchema}
  \cup {[type |-> "string", enum |-> <<T(a), T(<<"y", "e">>)>>], [enum |-> <<N("1"), T(a)>>],
        [type |-> "integer", const |-> N("1")], [const |-> Bool(TRUE)],
        [anyOf |-> <<Type("integer"), Type("boolean")>>], [oneOf |-> <<Type("null"), Type("string")>>],
        [types |-> <<"boolean", "integer">>], [types |-> <<"bogus", "string">>],
        [allOf |-> <<Type("string"), Type("integer")>>], [allOf |-> <<>>],
        [ref |-> "x", defs |-> [x |-> Type("boolean")]], [ref |-> "y", defs |-> [x |-> Type("boolean")]],
        [anyOf |-> <<[ref |-> "x"], Type("array")>>, defs |-> [x |-> [type |-> "integer", enum |-> <<N("2")>>]]]}

\* No name twice.
Objects(names, values) ==
  {o \in {O(s) : s \in UNION {[1..k -> names \X values] : k \in 0..2}} :
     Len(o.obj) = 2 => o.obj[1][1] # o.obj[2][1]}

Props(pairs, more) == [properties |-> pairs] @@ more

ObjectSchemas ==
  {Props(<<<<ab, Type("integer")>>, <<b, [type |-> "string", default |-> T(a)]>>>>, more) :
     more \in {EmptySchema, [required |-> <<ab>>], [required |-> <<ab, b>>],
               [additionalProperties |-> [bool |-> FALSE]], [additionalProperties |-> Type("boolean")],
               [patternProperties |-> <<<<[start |-> a, supported |-> TRUE], Type("string")>>>>],
               [patternProperties |-> <<<<[start |-> a, supported |-> FALSE], Type("string")>>>>],
               [minProperties |-> 2]}}
  \cup {Props(<<<<ab, Type("integer")>>, <<AB, Type("string")>>>>, EmptySchema),
        Props(<<<<ab, Props(<<<<ab, Type("string")>>>>, EmptySchema)>>>>, EmptySchema),
        Props(<<<<b, Props(<<<<ab, Type("array")>>>>, [required |-> <<ab>>])>>>>, EmptySchema),
        [allOf |-> <<Props(<<<<ab, Type("integer")>>>>, EmptySchema), Type("object")>>],
        [additionalProperties |-> Props(<<<<ab, Type("integer")>>>>, EmptySchema)],
        Props(<<<<ab, [anyOf |-> <<Type("integer"), Type("string")>>]>>>>, [required |-> <<ab>>])}

ObjectValues == Objects({ab, AB, abs, b}, {N("1"), T(<<"1">>), T(a), O(<<<<AB, T(<<"1">>)>>>>)})

Items ==
  {A(s) : s \in UNION {[1..k -> {N("1"), T(<<"1">>), T(a), A(<<>>), Null}] : k \in 0..3}}
  \cup {T(<<"1", ",", "a">>), T(<<"1", ",", " ", "2">>), T(<<"[", "1", ",">>), T(<<"[", "1", "]">>), N("1"),
        A(<<O(<<<<AB, N("1")>>>>)>>), T(<<"{", "\"", "a", "\"", ":", "1">>)}

ArraySchemas ==
  {[type |-> "array", items |-> Type("integer")], [type |-> "array", items |-> Type("string")],
   [items |-> [bool |-> TRUE], minItems |-> 2], [type |-> "array", items |-> Type("integer"), minItems |-> 2],
   [tuple |-> <<Type("integer"), Type("string")>>], [type |-> "array", items |-> Type("boolean")],
   [tuple |-> <<Type("integer")>>, additionalItems |-> [bool |-> FALSE]],
   [tuple |-> <<Type("integer")>>, additionalItems |-> Type("string")],
   Props(<<<<a, Type("integer")>>, <<b, Type("string")>>>>, [required |-> <<b>>]),
   Props(<<<<ab, Type("integer")>>>>, [required |-> <<ab>>]), Type("array"),
   [type |-> "array", items |-> [anyOf |-> <<Type("integer"), Type("null")>>]]}

Fillable ==
  ScalarSchemas \cup {[type |-> "array", minItems |-> 1], [type |-> "object", minProperties |-> 1],
                      [default |-> N("2")], [enum |-> <<>>], [type |-> "integer", enum |-> <<N("2")>>],
                      [types |-> <<"array", "string">>, minItems |-> 1]}

\* A schema that refers to itself, over arrays within arrays: the depth is limited.
Nest(v) == A(<<v>>)
Deep ==
  Scalars \cup {Nest(v) : v \in Scalars} \cup {Nest(Nest(v)) : v \in Scalars}
  \cup {Nest(Nest(Nest(v))) : v \in Scalars} \cup {Nest(Nest(Nest(Nest(v)))) : v \in Scalars}
Recursive ==
  {[ref |-> "x", defs |-> [x |-> [type |-> "array", items |-> [ref |-> "x"]]]],
   [ref |-> "x", defs |-> [x |-> [anyOf |-> <<Type("boolean"), [type |-> "array", items |-> [ref |-> "x"]]>>]]]}

NoLimit == {-1}
Limits  == 0..5

MCSchemaCases ==
  {Family(Numerals, NumberSchemas, {FALSE}, {"auto", "en-US", "de-DE", "de-CH", "fr-FR"}, NoLimit),
   Family(Scalars, ScalarSchemas, BOOLEAN, {"auto"}, NoLimit \cup Limits),
   Family(ObjectValues, ObjectSchemas, BOOLEAN, {"auto"}, NoLimit),
   Family(ObjectValues, ObjectSchemas, {FALSE}, {"auto"}, Limits),
   Family(Items, ArraySchemas, BOOLEAN, {"auto"}, NoLimit \cup Limits),
   Family(Deep, Recursive, BOOLEAN, {"auto"}, NoLimit \cup Limits),
   Family({Missing}, Fillable, BOOLEAN, {"auto"}, {-1, 1})}

\* A number that may be missing.
MCUnionCases ==
  {Family(Numerals, {[types |-> <<"number", "null">>]}, {FALSE}, {"auto"}, NoLimit)}

MCCodes == [c \in {34} |-> "\""]

MCScores == (<<AB, ab>> :> 90) @@ (<<abs, ab>> :> 85) @@ (<<<<"a">>, <<"y", "e">>>> :> 65)
            @@ (<<<<"y", "e", "s">>, <<"y", "e">>>> :> 92) @@ (<<b, ab>> :> 62)
            @@ (<<abs, AB>> :> 83) @@ (<<a, ab>> :> 78)
===============================================================================
