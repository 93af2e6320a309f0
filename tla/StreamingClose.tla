---------------------------- MODULE StreamingClose ----------------------------
(***************************************************************************)
(* The close-time render of tors.JsonRepairer (render_closed,              *)
(* src/src/json_repair/streaming.rs): what snapshot() answers at any point *)
(* and what end() makes final.  It is pure: it works on a copy `t` of the  *)
(* output and a copy `info` of the frames, carried together in a work      *)
(* record, and never moves the machine.                                    *)
(***************************************************************************)
EXTENDS StreamingRepairer

Work(s) ==
  [t |-> s.out, info |-> s.frames, floor |-> Len(s.out) + 1000,
   open |-> Len(s.frames), stray |-> FALSE]

Put(w, toks) == [w EXCEPT !.t = @ \o toks]
Cut(w, at)   == [w EXCEPT !.t = SubSeq(@, 1, at)]

\* info[n] loses one member (and one tuple element).
Uncount(f, elems) ==
  [f EXCEPT !.count = Pred(@), !.start = None, !.elems = IF elems THEN Pred(@) ELSE @]

-----------------------------------------------------------------------------
(* The undecided top-level paren, the dangling member, the pending token.  *)

Starts(w, p) == Len(w) >= Len(p) /\ SubSeq(w, 1, Len(p)) = p

close_gate(s, w) ==
  IF s.paren_gate.kind = "FirstChar"
     /\ \E l \in Literals : Starts(Lower(s.paren_gate.buf), l)
  THEN Put(w, keyword_or_str(s.paren_gate.buf)) ELSE w

\* Mutant: an open key string is not seen as dangling.
key_string_open_unseen(s) == FALSE

key_string_open(s) ==
  s.pending.kind = "none" /\ s.pos = "Key" /\ s.string.open /\ s.string.is_key

dangling(s) ==
  \/ s.pending.kind \in {"Word", "Num"} /\ s.pending.key
  \/ s.pending.kind = "none" /\ s.pos = "Colon"
  \/ key_string_open(s)

drops_dangling(s, w) ==
  /\ dangling(s) /\ s.frames # <<>> /\ TopOf(s).start # None
  /\ TopOf(s).start <= Len(w.t)

close_dangling(s, w) == IF drops_dangling(s, w) THEN Cut(w, TopOf(s).start) ELSE w

\* A pending number: its run, then the word its rolled-back letter starts.
close_number(s, w) ==
  LET run   == Rolled(s.pending.text)
      item  == s.frames # <<>> /\ ~InObject(s)
      stray == is_stray_ellipsis(s, run)
      word  == IF item /\ run # <<>> /\ run # s.pending.text
                  /\ s.pending.text[Len(s.pending.text)] \in Letters
               THEN StrTok(<<s.pending.text[Len(s.pending.text)]>>) ELSE <<>>
      n     == Len(s.frames)
  IN  CASE stray -> Put(w, word)
        [] ~stray /\ run = <<>> /\ item -> w
        [] ~stray /\ word # <<>> ->
             [Put(w, render_number_value(run) \o <<SepTok>> \o word) EXCEPT
                !.info[n].count = @ + 1, !.info[n].elems = @ + 1]
        [] OTHER -> Put(w, render_number_value(run))

close_pending(s, w) ==
  LET p == s.pending
  IN  CASE p.kind = "Num" /\ ~p.key -> close_number(s, w)
        [] p.kind = "Word" /\ ~p.key ->
             Put(w, literal_or_str(IF p.born THEN DropUntil(Trim(p.text), Alnum)
                                   ELSE Trim(p.text)))
        [] p.kind \in {"TopNum", "TopWord"} -> Put(w, loads_scalar(p.text))
        [] p.kind = "TopStr" /\ p.done /\ p.buf # <<"\"", "\"">> /\ p.delim = "\"" ->
             Put(w, p.buf)
        [] OTHER -> w

-----------------------------------------------------------------------------
(* The open value: the member heal, the quote, the newline-tail strip.     *)

\* Mutant: a value is always believed to be on its way.
value_in_flight_always(s) == TRUE

value_in_flight(s) == s.pending.kind # "none" \/ s.string.open

strip_trailing_newline_tail(t, lower, open_ended) ==
  LET quote == Len(t) > lower /\ t[Len(t)] = "\""
      i     == IF quote THEN Len(t) - 1 ELSE Len(t)
      tail  == {" ", "\\t", "\\n"}
      solid == {k \in (lower + 1)..i : t[k] \notin tail}
      keep  == IF solid = {} THEN lower ELSE LastOf(solid)
  IN  IF i > lower /\ keep < i /\ (open_ended \/ t[i] = "\\n")
      THEN SubSeq(t, 1, keep) \o (IF quote THEN <<"\"">> ELSE <<>>)
      ELSE t

close_value(s, w) ==
  LET w1 == IF s.pos = "MemberValue" /\ ~value_in_flight(s) /\ s.frames # <<>>
            THEN Put(w, <<"\"", "\"">>) ELSE w
      w2 == IF s.string.open /\ ~key_string_open(s) THEN Put(w1, <<"\"">>) ELSE w1
      w3 == IF s.frames # <<>> /\ s.last_string_start # None
            THEN [w2 EXCEPT !.t = strip_trailing_newline_tail(@, s.last_string_start + 1,
                                                              s.string.open)]
            ELSE w2
  IN  [w3 EXCEPT !.stray =
         /\ s.string.open /\ s.frames # <<>> /\ ~InObject(s) /\ TopOf(s).start # None
         /\ s.last_string_start <= Len(w3.t)
         /\ SubSeq(w3.t, s.last_string_start + 1, Len(w3.t)) = Quoted(Ellipsis)
         /\ s.string_raw_tail = "."]

-----------------------------------------------------------------------------
(* The deferred strictly-empty elements drain, newest first.               *)

Shift(info, from, by) ==
  [i \in DOMAIN info |->
     [info[i] EXCEPT !.start = IF @ # None /\ @ >= from THEN @ - by ELSE @,
                     !.brace = IF @ >= from THEN @ - by ELSE @]]

drain_mark(w, m) ==
  IF m.end > Len(w.t) \/ m.start >= m.end THEN w ELSE
  LET k     == m.frame + 1
      own   == [i \in DOMAIN w.info |->
                  IF i # k THEN w.info[i] ELSE
                  [w.info[i] EXCEPT !.count = Pred(@), !.elems = Pred(@),
                     !.start = IF @ >= m.start /\ @ < m.end THEN None ELSE @]]
      info1 == Shift(own, m.end, m.end - m.start)
      t1    == SubSeq(w.t, 1, m.start) \o SubSeq(w.t, m.end + 1, Len(w.t))
      sep   == m.was_first /\ m.start < Len(t1) /\ t1[m.start + 1] = SepTok
  IN  [w EXCEPT
         !.t    = IF sep THEN SubSeq(t1, 1, m.start) \o SubSeq(t1, m.start + 2, Len(t1)) ELSE t1,
         !.info = IF sep THEN Shift(info1, m.start + 1, 1) ELSE info1]

drain_marks(s, w) ==
  LET p     == s.empty_pending
      marks == IF p.armed
               THEN Append(s.empty_marks,
                           [start |-> p.start, end |-> p.end, was_first |-> p.was_first,
                            frame |-> p.frame, dropped |-> "drop"])
               ELSE s.empty_marks
      after[n \in 0..Len(marks)] ==
        IF n = 0 THEN w ELSE drain_mark(after[n - 1], marks[Len(marks) - n + 1])
  IN  after[Len(marks)]

-----------------------------------------------------------------------------
(* The empty-container cascade, one step of the walk; then the closers.    *)

Retract(w, at) ==
  IF at # None /\ at <= Len(w.t)
  THEN [Cut(w, at) EXCEPT !.floor = LessOf(@, at)] ELSE w

\* <<work, go on>>
cascade_step(s, w) ==
  LET i == w.open
      f == w.info[i]
      content == Unseparated(SubSeq(w.t, f.start + 1, Len(w.t)))
      separator_pending == s.pos = "Value" /\ ~value_in_flight(s)
  IN  CASE f.count = 0 /\ (i = 1 \/ w.info[i - 1].kind = "Obj") -> <<w, FALSE>>
        [] f.count = 0 /\ i > 1 /\ w.info[i - 1].kind # "Obj" ->
             <<[Retract(w, w.info[i - 1].start) EXCEPT
                  !.info[i - 1] = Uncount(@, TRUE), !.open = i - 1], TRUE>>
        [] f.count > 0 /\ (f.kind = "Obj" \/ f.start = None \/ f.start > Len(w.t)) ->
             <<w, FALSE>>
        [] OTHER ->
             IF /\ ~separator_pending
                /\ \/ content = <<>> \/ StrictlyEmpty(content)
                   \/ w.stray /\ content = Quoted(Ellipsis)
             THEN <<[Retract(w, f.start) EXCEPT !.info[i] = Uncount(@, TRUE)], TRUE>>
             ELSE <<w, FALSE>>

\* Each step drops a frame or empties one: two steps a frame at most.
cascade(s, w) ==
  LET walk[n \in 0..(2 * Len(s.frames) + 1)] ==
        IF n = 0 THEN <<w, w.open > 0>>
        ELSE LET r == walk[n - 1]
             IN  IF r[2] /\ r[1].open > 0 THEN cascade_step(s, r[1]) ELSE r
  IN  walk[2 * Len(s.frames) + 1][1]

Without(t, pos) == SubSeq(t, 1, pos) \o SubSeq(t, pos + 2, Len(t))
Holding(t, pos, tok) == pos < Len(t) /\ t[pos + 1] = tok

close_frame(w, f) ==
  LET t == w.t IN
  CASE f.kind = "Obj" ->
         IF BodyFallback(f, 0)
         THEN (IF f.brace < w.floor /\ Holding(t, f.brace, "{") THEN Without(t, f.brace) ELSE t)
                \o <<"[", "]">>
         ELSE Append(t, "}")
    [] f.kind = "Arr" -> Append(t, "]")
    [] f.kind = "Paren" ->
         IF f.comma \/ f.elems # 1 \/ ~Holding(t, f.brace, "[") THEN Append(t, "]")
         ELSE Without(t, f.brace)

close_frames(w) ==
  LET after[n \in 0..w.open] ==
        IF n = 0 THEN w
        ELSE [after[n - 1] EXCEPT !.t = close_frame(after[n - 1], w.info[w.open - n + 1])]
  IN  after[w.open].t

render_closed(s) ==
  LET w0 == close_dangling(s, close_gate(s, Work(s)))
      w1 == close_value(s, close_pending(s, w0))
      n  == Len(s.frames)
      w2 == IF drops_dangling(s, close_gate(s, Work(s)))
            THEN [w1 EXCEPT !.info[n] = Uncount(@, FALSE)] ELSE w1
  IN  close_frames(cascade(s, drain_marks(s, w2)))

\* The fields end() clears behind the final text.
Finalized(s) ==
  LET t == render_closed(s)
  IN  [s EXCEPT !.out = t, !.emitted = Len(t), !.frames = <<>>,
         !.string = [open |-> FALSE], !.pending = NoPending,
         !.comment = [kind |-> "none"], !.empty_pending = [armed |-> FALSE],
         !.paren_gate = [kind |-> "none"], !.garbage_run = FALSE]

=============================================================================
