------------------------------- MODULE JsonText -------------------------------
(***************************************************************************)
(* Reference definition: which token sequences are one JSON document.  It  *)
(* is independent of the repairer: a pushdown reader with one state per    *)
(* position of the grammar.  It reads both the machine's input (plain      *)
(* characters) and its output (whose separators and scalars are single     *)
(* tokens), so the two can be compared.                                    *)
(***************************************************************************)
EXTENDS Integers, Sequences

Blank  == {" ", "\n", "\t"}
Digit  == {"0", "1", "2", "3", "4", "5", "6", "7", "8", "9"}
Scalar == {"num", "lit"}
Comma  == {",", ", "}
Colon  == {":", ": "}

\* `seen` is the document so far, canonically spelt; `num` says that the
\* last token was a digit, so that one more digit belongs to that number.
Blankslate == [ok |-> TRUE, stack |-> <<>>, expect |-> "value", str |-> FALSE,
               num |-> FALSE, seen |-> <<>>]

Inner(r)      == IF r.stack = <<>> THEN "top" ELSE r.stack[Len(r.stack)]
Saw(r, toks)  == [r EXCEPT !.seen = @ \o toks, !.num = FALSE]
Done(r, toks) == [Saw(r, toks) EXCEPT !.expect = "after"]
Nest(r, c)    == [Saw(r, <<c>>) EXCEPT
                    !.stack = Append(@, IF c = "{" THEN "obj" ELSE "arr"),
                    !.expect = IF c = "{" THEN "first_key" ELSE "first_value"]
Unnest(r, c)  == [Done(r, <<c>>) EXCEPT !.stack = SubSeq(@, 1, Len(@) - 1)]
Wrong(r)      == [r EXCEPT !.ok = FALSE]

ValueNext(r) == r.expect \in {"value", "first_value"}

Inside(r, c) ==
  IF c \in {"\n", "\t"} THEN Wrong(r)          \* a raw control character
  ELSE IF c # "\"" THEN Saw(r, <<c>>)
  ELSE LET closed == [Done(r, <<c>>) EXCEPT !.str = FALSE]
       IN  IF r.expect = "key" THEN [closed EXCEPT !.expect = "colon"] ELSE closed

Read(r, c) ==
  CASE ~r.ok  -> r
    [] r.ok /\ r.str -> Inside(r, c)
    [] r.ok /\ ~r.str /\ c \in Blank -> [r EXCEPT !.num = FALSE]
    [] r.ok /\ ~r.str /\ c \in Digit /\ r.num -> r
    [] r.ok /\ ~r.str /\ c \in Digit /\ ~r.num /\ ValueNext(r) ->
         [Done(r, <<"num">>) EXCEPT !.num = TRUE]
    [] r.ok /\ ~r.str /\ c \in Scalar /\ ValueNext(r) -> Done(r, <<c>>)
    [] r.ok /\ ~r.str /\ c \in {"{", "["} /\ ValueNext(r) -> Nest(r, c)
    [] r.ok /\ ~r.str /\ c = "\"" /\ ValueNext(r) -> [Saw(r, <<c>>) EXCEPT !.str = TRUE]
    [] r.ok /\ ~r.str /\ c = "\"" /\ r.expect \in {"key", "first_key"} ->
         [Saw(r, <<c>>) EXCEPT !.str = TRUE, !.expect = "key"]
    [] r.ok /\ ~r.str /\ c \in Colon /\ r.expect = "colon" ->
         [Saw(r, <<": ">>) EXCEPT !.expect = "value"]
    [] r.ok /\ ~r.str /\ c \in Comma /\ r.expect = "after" /\ Inner(r) # "top" ->
         [Saw(r, <<", ">>) EXCEPT !.expect = IF Inner(r) = "obj" THEN "key" ELSE "value"]
    [] r.ok /\ ~r.str /\ c = "}" /\ Inner(r) = "obj" /\ r.expect \in {"after", "first_key"} ->
         Unnest(r, c)
    [] r.ok /\ ~r.str /\ c = "]" /\ Inner(r) = "arr" /\ r.expect \in {"after", "first_value"} ->
         Unnest(r, c)
    [] OTHER -> Wrong(r)

Reading(t) ==
  LET read[n \in 0..Len(t)] == IF n = 0 THEN Blankslate ELSE Read(read[n - 1], t[n])
  IN  read[Len(t)]

Complete(r)  == r.ok /\ ~r.str /\ r.expect = "after" /\ r.stack = <<>>
IsJson(t)    == Complete(Reading(t))

=============================================================================
