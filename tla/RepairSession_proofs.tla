------------------------- MODULE RepairSession_proofs -------------------------
(***************************************************************************)
(* Proofs about tors.JsonRepairer (RepairSession over StreamingRepairer    *)
(* and StreamingClose), for every text, every way it is cut into pushes    *)
(* and every nesting cap: the machine stays well typed, the deltas are the *)
(* text as long as no repair reaches behind them, the offsets a machine    *)
(* keeps (brackets, members in flight, marks of empty elements) go on      *)
(* saying what stands at them, and a push has few entries ahead of it.     *)
(***************************************************************************)
EXTENDS RepairSession, TLAPS, WellFoundedInduction

-----------------------------------------------------------------------------
(* The shapes of the struct.                                               *)

\* What the emitter writes beside the characters it reads.  All of it is in
\* STRING; the provers know no member of that set, so they are given these.
Written ==
  {"\"", "\\\"", "\\n", "\\t", "num", "lit", "{", "}", "[", "]", SepTok, ColonTok,
   "e", "n", "i", "\n", ":", "*"}
Token == STRING \cup Written
Text  == Seq(Token)

Positions == {"Value", "MemberValue", "Key", "Colon", "AfterValue"}

Kinds == {"Obj", "Arr", "Paren"}
Frame ==
  [kind : Kinds, brace : Nat, chars : 0..2, nonspace : 0..2,
   begun : BOOLEAN, colon : BOOLEAN, count : Nat, start : Nat \cup {None},
   elems : Nat, comma : BOOLEAN, groupish : BOOLEAN]

NumSet  == [kind : {"Num"}, text : Text, key : BOOLEAN]
WordSet == [kind : {"Word"}, text : Text, key : BOOLEAN, born : BOOLEAN]
TopSet  == [kind : {"TopNum", "TopWord"}, text : Text, done : BOOLEAN]
StrSet  == [kind : {"TopStr"}, buf : Text, delim : Token, done : BOOLEAN]
Pending == {NoPending} \cup NumSet \cup WordSet \cup TopSet \cup StrSet

Comment ==
  [kind : {"none", "Slash", "Line"}] \cup [kind : {"Hash"}, stops : SUBSET Token]
    \cup [kind : {"Block"}, prev : Token]

OpenString == [open : {TRUE}, delim : Token, is_key : BOOLEAN]
StringSet  == {[open |-> FALSE]} \cup OpenString

Gate == [kind : {"none", "TailCheck"}] \cup [kind : {"FirstChar"}, buf : Text]

Mark ==
  [start : Nat, end : Int, was_first : BOOLEAN, frame : Nat, dropped : {"open", "drop", "keep"}]
ArmedSet ==
  [armed : {TRUE}, start : Nat, end : Int, was_first : BOOLEAN, frame : Nat,
   parent_paren : BOOLEAN, never_defers : BOOLEAN, ws_seen : BOOLEAN]
EmptyPending == {[armed |-> FALSE]} \cup ArmedSet

Machine ==
  [out : Text, frames : Seq(Frame), pos : Positions, string : StringSet,
   pending : Pending, comment : Comment, top_clean : BOOLEAN, top_done : BOOLEAN,
   last_string_start : Nat \cup {None}, string_raw_tail : Token \cup {""},
   prev_char_ws : BOOLEAN, empty_marks : Seq(Mark), empty_pending : EmptyPending,
   last_key_empty : BOOLEAN, garbage_run : BOOLEAN, paren_gate : Gate,
   emitted : Nat, error : BOOLEAN, replay : Text]

\* A machine whose delta cursor is in its text and whose stack is under the cap.
Sound(s) == s \in Machine /\ s.emitted <= Len(s.out) /\ Len(s.frames) <= MAX_NESTING

\* What t still shows as handed over is what s has handed over.
Keeps(s, t) ==
  /\ Sound(t) /\ t.emitted <= s.emitted
  /\ \A i \in 1..t.emitted : t.out[i] = s.out[i]

\* The fields of a machine.
LEMMA Fields ==
  ASSUME NEW s \in Machine
  PROVE  /\ s.out \in Text /\ s.frames \in Seq(Frame) /\ s.pos \in Positions
         /\ s.string \in StringSet /\ s.pending \in Pending /\ s.comment \in Comment
         /\ s.top_clean \in BOOLEAN /\ s.top_done \in BOOLEAN
         /\ s.last_string_start \in Nat \cup {None}
         /\ s.string_raw_tail \in Token \cup {""} /\ s.prev_char_ws \in BOOLEAN
         /\ s.empty_marks \in Seq(Mark) /\ s.empty_pending \in EmptyPending
         /\ s.last_key_empty \in BOOLEAN /\ s.garbage_run \in BOOLEAN
         /\ s.paren_gate \in Gate /\ s.emitted \in Nat /\ s.error \in BOOLEAN
         /\ s.replay \in Text
BY DEF Machine

\* The texts are sequences.
LEMMA TextIs ==
  ASSUME NEW t \in Text
  PROVE  /\ Len(t) \in Nat /\ DOMAIN t = 1..Len(t) /\ \A i \in 1..Len(t) : t[i] \in Token
BY DEF Text

\* What a sound machine counts.
LEMMA Counts ==
  ASSUME NEW s, Sound(s)
  PROVE  /\ s \in Machine /\ Len(s.out) \in Nat /\ s.emitted \in 0..Len(s.out)
         /\ Len(s.frames) \in Nat /\ Len(s.frames) <= MAX_NESTING
         /\ s.out \in Text /\ s.frames \in Seq(Frame)
<1>1. s \in Machine /\ s.emitted <= Len(s.out) /\ Len(s.frames) <= MAX_NESTING
  BY DEF Sound
<1>2. s.out \in Text /\ s.frames \in Seq(Frame) /\ s.emitted \in Nat
  BY <1>1, Fields
<1>3. Len(s.out) \in Nat
  BY <1>2, TextIs
<1>4. Len(s.frames) \in Nat
  BY <1>2
<1> QED BY <1>1, <1>2, <1>3, <1>4

\* What keeps is sound.
LEMMA KeptIsSound ==
  ASSUME NEW s, NEW t, Keeps(s, t)
  PROVE  Sound(t)
BY DEF Keeps

\* Nothing changes.
LEMMA KeepsItself ==
  ASSUME NEW s, Sound(s)
  PROVE  Keeps(s, s)
<1>1. s.emitted <= s.emitted
  BY Counts
<1> QED BY <1>1 DEF Keeps

\* One change after another.
LEMMA KeepsOn ==
  ASSUME NEW s, NEW t, NEW u, Sound(s), Keeps(s, t), Keeps(t, u)
  PROVE  Keeps(s, u)
<1>1. Sound(t) /\ Sound(u)
  BY KeptIsSound
<1>2. s.emitted \in Nat /\ t.emitted \in Nat /\ u.emitted \in Nat
  BY <1>1, Counts
<1>3. u.emitted <= t.emitted /\ t.emitted <= s.emitted
  BY DEF Keeps
<1>4. ASSUME NEW i \in 1..u.emitted PROVE u.out[i] = s.out[i]
  <2>1. i \in 1..t.emitted
    BY <1>2, <1>3
  <2>2. u.out[i] = t.out[i]
    BY DEF Keeps
  <2>3. t.out[i] = s.out[i]
    BY <2>1 DEF Keeps
  <2> QED BY <2>2, <2>3
<1>5. u.emitted <= s.emitted
  BY <1>2, <1>3
<1> QED BY <1>1, <1>4, <1>5 DEF Keeps

\* A change that leaves the text, the cursor and the height of the stack alone.
LEMMA Quietly ==
  ASSUME NEW s, Sound(s), NEW t, t \in Machine, t.out = s.out, t.emitted = s.emitted,
         Len(t.frames) <= MAX_NESTING
  PROVE  Keeps(s, t)
<1>1. t.emitted <= Len(t.out) /\ t.emitted <= s.emitted
  BY Counts
<1>2. Sound(t)
  BY <1>1 DEF Sound
<1> QED BY <1>1, <1>2 DEF Keeps

\* The tokens the emitter writes.
LEMMA Tokens ==
  /\ Written \subseteq Token /\ STRING \subseteq Token
  /\ \A c \in Token : Escaped(c) \in Token
  /\ \A c \in Token : <<c>> \in Text
  /\ <<"\"">> \in Text /\ <<"\"", "\"">> \in Text /\ <<SepTok>> \in Text
  /\ <<ColonTok>> \in Text /\ <<"]">> \in Text /\ <<"}">> \in Text /\ <<"[">> \in Text
  /\ <<"{">> \in Text /\ <<"[", "]">> \in Text /\ <<"num">> \in Text /\ <<"lit">> \in Text
  /\ <<>> \in Text /\ {"e", "n", "i", "\""} \subseteq Token
<1>1. Written \subseteq Token /\ STRING \subseteq Token
  BY DEF Token
<1>2. \A c \in Token : Escaped(c) \in Token
  BY DEF Token, Written, Escaped
<1>3. \A c \in Token : <<c>> \in Text
  BY DEF Text
<1>4. \A c, d \in Token : <<c, d>> \in Text
  BY DEF Text
<1>5. {"\"", "[", "]", "{", "}", "num", "lit", SepTok, ColonTok, "e", "n", "i"} \subseteq Token
  BY DEF Token, Written
<1>6. <<>> \in Text
  BY DEF Text
<1> QED BY <1>1, <1>2, <1>3, <1>4, <1>5, <1>6

\* Texts joined and cut.
LEMMA Joins ==
  ASSUME NEW t \in Text
  PROVE  /\ \A u \in Text : t \o u \in Text /\ Len(t \o u) = Len(t) + Len(u)
         /\ \A u \in Text : \A i \in 1..Len(t) : (t \o u)[i] = t[i]
         /\ \A c \in Token : Append(t, c) \in Text
         /\ \A a \in Nat \ {0}, b \in Int : b <= Len(t) => SubSeq(t, a, b) \in Text
         /\ \A b \in Nat : b <= Len(t) =>
              /\ SubSeq(t, 1, b) \in Text /\ Len(SubSeq(t, 1, b)) = b
              /\ \A i \in 1..b : SubSeq(t, 1, b)[i] = t[i]
<1>1. \A u \in Text : t \o u \in Text /\ Len(t \o u) = Len(t) + Len(u)
  BY DEF Text
<1>2. \A u \in Text : \A i \in 1..Len(t) : (t \o u)[i] = t[i]
  BY DEF Text
<1>3. \A c \in Token : Append(t, c) \in Text
  BY DEF Text
<1>4. \A a \in Nat \ {0}, b \in Int : b <= Len(t) => SubSeq(t, a, b) \in Text
  BY DEF Text
<1>5. ASSUME NEW b \in Nat, b <= Len(t)
      PROVE  /\ SubSeq(t, 1, b) \in Text /\ Len(SubSeq(t, 1, b)) = b
             /\ \A i \in 1..b : SubSeq(t, 1, b)[i] = t[i]
  BY <1>5 DEF Text
<1> QED BY <1>1, <1>2, <1>3, <1>4, <1>5
-----------------------------------------------------------------------------
(* The text: what is written, cut and drained.                             *)

\* The first n tokens of two texts are the same.
SameFront(t, u, n) == \A i \in 1..n : t[i] = u[i]

\* A new text that keeps what is in front of the cursor, wherever that is pulled to.
LEMMA NewText ==
  ASSUME NEW s, Sound(s), NEW out \in Text, NEW emitted \in Nat,
         emitted <= Len(out), emitted <= s.emitted, SameFront(out, s.out, emitted)
  PROVE  LET t == [s EXCEPT !.out = out, !.emitted = emitted]
         IN  Keeps(s, t) /\ t.out = out /\ t.frames = s.frames
<1> DEFINE t == [s EXCEPT !.out = out, !.emitted = emitted]
<1>1. s \in Machine /\ Len(s.frames) <= MAX_NESTING
  BY Counts
<1>2. t \in Machine /\ t.out = out /\ t.emitted = emitted /\ t.frames = s.frames
  BY <1>1 DEF Machine
<1> HIDE DEF t
<1>3. Sound(t)
  BY <1>1, <1>2 DEF Sound
<1>4. \A i \in 1..t.emitted : t.out[i] = s.out[i]
  BY <1>2 DEF SameFront
<1>5. Keeps(s, t)
  BY <1>2, <1>3, <1>4 DEF Keeps
<1> QED BY <1>2, <1>5 DEF t

\* What is emitted comes behind the text.
LEMMA EmitKeeps ==
  ASSUME NEW s, Sound(s), NEW toks \in Text
  PROVE  /\ Keeps(s, Emit(s, toks)) /\ Emit(s, toks).frames = s.frames
         /\ Emit(s, toks).out = s.out \o toks
         /\ Len(Emit(s, toks).out) = Len(s.out) + Len(toks)
<1> DEFINE out == s.out \o toks
<1>1. /\ s \in Machine /\ s.emitted \in 0..Len(s.out) /\ Len(s.frames) <= MAX_NESTING
      /\ s.out \in Text /\ Len(s.out) \in Nat /\ Len(toks) \in Nat
  BY Counts, TextIs
<1>2. out \in Text /\ Len(out) = Len(s.out) + Len(toks)
  BY <1>1, Joins
<1>3. \A i \in 1..Len(s.out) : out[i] = s.out[i]
  BY <1>1, Joins
<1>4. Emit(s, toks) = [s EXCEPT !.out = out]
  BY DEF Emit
<1> HIDE DEF out
<1> DEFINE t == [s EXCEPT !.out = out]
<1>5. /\ t \in Machine /\ t.out = out /\ t.emitted = s.emitted /\ t.frames = s.frames
  BY <1>1, <1>2 DEF Machine
<1>6. t.emitted <= Len(t.out) /\ t.emitted <= s.emitted
  BY <1>1, <1>2, <1>5
<1>7. \A i \in 1..t.emitted : t.out[i] = s.out[i]
  BY <1>1, <1>3, <1>5
<1>8. Keeps(s, t)
  BY <1>1, <1>5, <1>6, <1>7 DEF Keeps, Sound
<1> QED BY <1>2, <1>4, <1>5, <1>8 DEF out

\* A truncation pulls the cursor back with the text.
LEMMA TruncateKeeps ==
  ASSUME NEW s, Sound(s), NEW start \in Nat
  PROVE  Keeps(s, Truncate(s, start)) /\ Truncate(s, start).frames = s.frames
<1>1. CASE start <= Len(s.out)
  <2> DEFINE out == SubSeq(s.out, 1, start)
             emitted == LessOf(s.emitted, start)
  <2>1. /\ s \in Machine /\ s.emitted \in 0..Len(s.out) /\ s.out \in Text
        /\ Len(s.out) \in Nat
    BY Counts
  <2>2. /\ out \in Text /\ Len(out) = start /\ \A i \in 1..start : out[i] = s.out[i]
    BY <1>1, <2>1, Joins
  <2>3. emitted \in Nat /\ emitted <= start /\ emitted <= s.emitted
    BY <2>1 DEF LessOf
  <2>4. Truncate(s, start) = [s EXCEPT !.out = out, !.emitted = emitted]
    BY <1>1 DEF Truncate
  <2> HIDE DEF out, emitted
  <2>5. emitted <= Len(out) /\ SameFront(out, s.out, emitted)
    BY <2>2, <2>3 DEF SameFront
  <2> DEFINE t == [s EXCEPT !.out = out, !.emitted = emitted]
  <2>6. Keeps(s, t) /\ t.frames = s.frames
    BY <2>2, <2>3, <2>5, NewText
  <2> HIDE DEF t
  <2>7. Truncate(s, start) = t
    BY <2>4 DEF t
  <2> QED BY <2>6, <2>7
<1>2. CASE ~(start <= Len(s.out))
  <2>1. Truncate(s, start) = s
    BY <1>2 DEF Truncate
  <2> QED BY <2>1, KeepsItself
<1> QED BY <1>1, <1>2

\* The marks behind a drained token move with the text.
LEMMA ShiftKeeps ==
  ASSUME NEW s, Sound(s), NEW pos \in Nat
  PROVE  /\ Keeps(s, shift_deferred_spans(s, pos))
         /\ shift_deferred_spans(s, pos).frames = s.frames
         /\ shift_deferred_spans(s, pos).out = s.out
<1> DEFINE Left(x) == IF x.start > pos THEN [x EXCEPT !.start = @ - 1, !.end = @ - 1] ELSE x
           marks   == [i \in DOMAIN s.empty_marks |-> Left(s.empty_marks[i])]
           pending == IF s.empty_pending.armed THEN Left(s.empty_pending) ELSE s.empty_pending
           t       == [s EXCEPT !.empty_marks = marks, !.empty_pending = pending]
<1>1. /\ s \in Machine /\ Len(s.frames) <= MAX_NESTING
      /\ s.empty_marks \in Seq(Mark) /\ s.empty_pending \in EmptyPending
  BY Counts, Fields
<1>2. ASSUME NEW k \in Mark PROVE Left(k) \in Mark
  <2>1. k.start \in Nat /\ k.end \in Int
    BY DEF Mark
  <2>2. CASE k.start > pos
    <3>1. k.start - 1 \in Nat /\ k.end - 1 \in Int
      BY <2>1, <2>2
    <3> QED BY <2>2, <3>1 DEF Mark
  <2> QED BY <2>2
<1>3. ASSUME NEW p \in ArmedSet PROVE Left(p) \in ArmedSet
  <2>1. p.start \in Nat /\ p.end \in Int
    BY DEF ArmedSet
  <2>2. CASE p.start > pos
    <3>1. p.start - 1 \in Nat /\ p.end - 1 \in Int
      BY <2>1, <2>2
    <3> QED BY <2>2, <3>1 DEF ArmedSet
  <2> QED BY <2>2
<1>4. marks \in Seq(Mark)
  <2>1. DOMAIN s.empty_marks = 1..Len(s.empty_marks) /\ Len(s.empty_marks) \in Nat
    BY <1>1
  <2>2. \A i \in DOMAIN s.empty_marks : s.empty_marks[i] \in Mark
    BY <1>1, <2>1
  <2> HIDE DEF Left
  <2>3. marks \in [1..Len(s.empty_marks) -> Mark]
    BY <1>2, <2>1, <2>2
  <2> HIDE DEF marks
  <2> QED BY <2>1, <2>3
<1>5. pending \in EmptyPending
  <2>1. s.empty_pending.armed => s.empty_pending \in ArmedSet
    BY <1>1 DEF EmptyPending
  <2> HIDE DEF Left
  <2>2. CASE s.empty_pending.armed
    BY <1>3, <2>1, <2>2 DEF EmptyPending, pending
  <2>3. CASE ~s.empty_pending.armed
    BY <1>1, <2>3 DEF pending
  <2> QED BY <2>2, <2>3
<1>6. shift_deferred_spans(s, pos) = t
  BY DEF shift_deferred_spans
<1> HIDE DEF marks, pending
<1>7. t \in Machine /\ t.out = s.out /\ t.emitted = s.emitted /\ t.frames = s.frames
  BY <1>1, <1>4, <1>5 DEF Machine
<1> QED BY <1>1, <1>6, <1>7, Quietly

\* A drain pulls the cursor back in front of the token it takes.
LEMMA DrainKeeps ==
  ASSUME NEW s, Sound(s), NEW pos \in Nat, NEW tok
  PROVE  Keeps(s, DrainOne(s, pos, tok)) /\ DrainOne(s, pos, tok).frames = s.frames
<1>1. CASE pos < Len(s.out) /\ s.out[pos + 1] = tok
  <2> DEFINE front   == SubSeq(s.out, 1, pos)
             back    == SubSeq(s.out, pos + 2, Len(s.out))
             out     == front \o back
             emitted == LessOf(s.emitted, pos)
             t       == [s EXCEPT !.out = out, !.emitted = emitted]
  <2>1. /\ s \in Machine /\ s.emitted \in 0..Len(s.out) /\ s.out \in Text
        /\ Len(s.out) \in Nat
    BY Counts
  <2>2. /\ front \in Text /\ Len(front) = pos /\ \A i \in 1..pos : front[i] = s.out[i]
    BY <1>1, <2>1, Joins
  <2>3. back \in Text
    BY <2>1, Joins
  <2>4. Len(back) \in Nat
    BY <2>3, TextIs
  <2> HIDE DEF front, back
  <2>5. /\ out \in Text /\ Len(out) = pos + Len(back)
        /\ \A i \in 1..pos : out[i] = front[i]
    BY <2>2, <2>3, Joins
  <2>6. emitted \in Nat /\ emitted <= pos /\ emitted <= s.emitted
    BY <2>1 DEF LessOf
  <2>7. emitted <= Len(out)
    BY <2>4, <2>5, <2>6
  <2>8. SameFront(out, s.out, emitted)
    BY <2>2, <2>5, <2>6 DEF SameFront
  <2>9. DrainOne(s, pos, tok) = shift_deferred_spans(t, pos)
    BY <1>1 DEF DrainOne, front, back
  <2> HIDE DEF out, emitted
  <2>10. Keeps(s, t) /\ t.frames = s.frames
    BY <2>5, <2>6, <2>7, <2>8, NewText
  <2> HIDE DEF t
  <2>11. /\ Keeps(t, shift_deferred_spans(t, pos))
         /\ shift_deferred_spans(t, pos).frames = t.frames
    BY <2>10, KeptIsSound, ShiftKeeps
  <2> QED BY <2>9, <2>10, <2>11, KeepsOn
<1>2. CASE ~(pos < Len(s.out) /\ s.out[pos + 1] = tok)
  <2>1. DrainOne(s, pos, tok) = s
    BY <1>2 DEF DrainOne
  <2> QED BY <2>1, KeepsItself
<1> QED BY <1>1, <1>2

-----------------------------------------------------------------------------
(* The stack: its top, and the members that begin and retract there.       *)

\* A stack that is not empty has a top.
LEMMA TopIs ==
  ASSUME NEW s, Sound(s), s.frames # <<>>
  PROVE  Len(s.frames) \in Nat \ {0} /\ TopOf(s) \in Frame
<1>1. s.frames \in Seq(Frame)
  BY Counts
<1>2. Len(s.frames) \in Nat \ {0}
  BY <1>1
<1>3. s.frames[Len(s.frames)] \in Frame
  BY <1>1, <1>2
<1> QED BY <1>2, <1>3 DEF TopOf

\* The fields of a frame.
LEMMA FrameFields ==
  ASSUME NEW f \in Frame
  PROVE  /\ f.kind \in Kinds /\ f.brace \in Nat /\ f.chars \in 0..2 /\ f.nonspace \in 0..2
         /\ f.begun \in BOOLEAN /\ f.colon \in BOOLEAN /\ f.count \in Nat
         /\ f.start \in Nat \cup {None} /\ f.elems \in Nat /\ f.comma \in BOOLEAN
         /\ f.groupish \in BOOLEAN
BY DEF Frame

\* Another frame in the place of the top.
LEMMA SetTopKeeps ==
  ASSUME NEW s, Sound(s), s.frames # <<>>, NEW f \in Frame
  PROVE  /\ Keeps(s, SetTop(s, f)) /\ SetTop(s, f).frames # <<>>
         /\ Len(SetTop(s, f).frames) = Len(s.frames)
         /\ SetTop(s, f).out = s.out
<1> DEFINE frames == [s.frames EXCEPT ![Len(s.frames)] = f]
<1>1. s \in Machine /\ s.frames \in Seq(Frame) /\ Len(s.frames) <= MAX_NESTING
  BY Counts
<1>2. Len(s.frames) \in Nat \ {0}
  BY TopIs
<1>3. frames \in Seq(Frame) /\ Len(frames) = Len(s.frames)
  BY <1>1, <1>2
<1>4. SetTop(s, f) = [s EXCEPT !.frames = frames]
  BY DEF SetTop
<1> HIDE DEF frames
<1> DEFINE t == [s EXCEPT !.frames = frames]
<1>5. /\ t \in Machine /\ t.out = s.out /\ t.emitted = s.emitted /\ t.frames = frames
  BY <1>1, <1>3 DEF Machine
<1> HIDE DEF t
<1>6. SetTop(s, f) = t
  BY <1>4 DEF t
<1>7. Keeps(s, t)
  BY <1>1, <1>3, <1>5, Quietly
<1>8. frames # <<>>
  BY <1>2, <1>3
<1> QED BY <1>3, <1>5, <1>6, <1>7, <1>8

\* Counting down stops at zero.
LEMMA PredIs == \A n \in Nat : Pred(n) \in Nat
BY DEF Pred

\* A member begins, behind a separator if it is not the first.
LEMMA BeginKeeps ==
  ASSUME NEW s, Sound(s)
  PROVE  Keeps(s, begin_common(s)) /\ Len(begin_common(s).frames) = Len(s.frames)
<1>1. CASE s.frames = <<>>
  <2>1. begin_common(s) = s
    BY <1>1 DEF begin_common
  <2> QED BY <2>1, KeepsItself
<1>2. CASE s.frames # <<>>
  <2> DEFINE f == TopOf(s)
             t == IF f.count > 0 THEN Emit(s, <<SepTok>>) ELSE s
             g == [f EXCEPT !.begun = TRUE, !.start = Len(s.out), !.count = @ + 1, !.elems = @ + 1]
  <2>1. f \in Frame
    BY <1>2, TopIs
  <2>2. Len(s.out) \in Nat /\ f.count + 1 \in Nat /\ f.elems + 1 \in Nat
    BY <2>1, FrameFields, Counts
  <2>3. g \in Frame
    BY <2>1, <2>2 DEF Frame
  <2>4. Keeps(s, t) /\ t.frames = s.frames
    <3>1. Keeps(s, Emit(s, <<SepTok>>)) /\ Emit(s, <<SepTok>>).frames = s.frames
      BY EmitKeeps, Tokens
    <3> QED BY <3>1, KeepsItself
  <2>5. begin_common(s) = SetTop(t, g)
    BY <1>2 DEF begin_common
  <2> HIDE DEF f, t, g
  <2>6. Sound(t) /\ t.frames # <<>>
    BY <1>2, <2>4, KeptIsSound
  <2>7. Keeps(t, SetTop(t, g)) /\ Len(SetTop(t, g).frames) = Len(t.frames)
    BY <2>3, <2>6, SetTopKeeps
  <2> QED BY <2>4, <2>5, <2>7, KeepsOn
<1> QED BY <1>1, <1>2

\* The rendering of a member retracts, and its slot is given back.
LEMMA DropMemberKeeps ==
  ASSUME NEW s, Sound(s), s.frames # <<>>, NEW start \in Nat
  PROVE  /\ Keeps(s, DropMember(s, start)) /\ DropMember(s, start).frames # <<>>
         /\ Len(DropMember(s, start).frames) = Len(s.frames)
<1> DEFINE t == Truncate(s, start)
           f == TopOf(s)
           g == [f EXCEPT !.start = None, !.count = Pred(@)]
<1>1. f \in Frame
  BY TopIs
<1>2. Pred(f.count) \in Nat
  BY <1>1, FrameFields, PredIs
<1>3. g \in Frame
  BY <1>1, <1>2 DEF Frame
<1>4. Keeps(s, t) /\ t.frames = s.frames
  BY TruncateKeeps
<1>5. DropMember(s, start) = SetTop(t, g)
  BY DEF DropMember
<1> HIDE DEF t, f, g
<1>6. Sound(t) /\ t.frames # <<>>
  BY <1>4, KeptIsSound
<1>7. /\ Keeps(t, SetTop(t, g)) /\ Len(SetTop(t, g).frames) = Len(t.frames)
      /\ SetTop(t, g).frames # <<>>
  BY <1>3, <1>6, SetTopKeeps
<1> QED BY <1>4, <1>5, <1>7, KeepsOn

\* Its element is not counted either.
LEMMA UncountedKeeps ==
  ASSUME NEW s, Sound(s), s.frames # <<>>, NEW start \in Nat
  PROVE  LET t == DropMember(s, start) IN
         Keeps(s, SetTop(t, [TopOf(t) EXCEPT !.elems = Pred(@)]))
<1> DEFINE t == DropMember(s, start)
           f == TopOf(t)
           g == [f EXCEPT !.elems = Pred(@)]
<1>1. Keeps(s, t) /\ t.frames # <<>>
  BY DropMemberKeeps
<1> HIDE DEF t
<1>2. Sound(t)
  BY <1>1, KeptIsSound
<1>3. f \in Frame
  BY <1>1, <1>2, TopIs
<1>4. Pred(f.elems) \in Nat
  BY <1>3, FrameFields, PredIs
<1>5. g \in Frame
  BY <1>3, <1>4 DEF Frame
<1> HIDE DEF g
<1>6. Keeps(t, SetTop(t, g))
  BY <1>1, <1>2, <1>5, SetTopKeeps
<1>7. Keeps(s, SetTop(t, g))
  BY <1>1, <1>6, KeepsOn
<1> QED BY <1>7 DEF t, g

\* The position moves.
LEMMA PosKeeps ==
  ASSUME NEW s, Sound(s), NEW pos \in Positions
  PROVE  Keeps(s, [s EXCEPT !.pos = pos])
<1> DEFINE t == [s EXCEPT !.pos = pos]
<1>1. s \in Machine /\ Len(s.frames) <= MAX_NESTING
  BY Counts
<1>2. t \in Machine /\ t.out = s.out /\ t.emitted = s.emitted /\ t.frames = s.frames
  BY <1>1 DEF Machine
<1> HIDE DEF t
<1>3. Keeps(s, t)
  BY <1>1, <1>2, Quietly
<1> QED BY <1>3 DEF t

\* The three retractions.
LEMMA RetractsKeep ==
  ASSUME NEW s, Sound(s)
  PROVE  /\ Keeps(s, retract_in_flight_member(s))
         /\ Keeps(s, drop_dangling_member(s))
         /\ \A start \in Nat : Keeps(s, drop_marked_member(s, start))
<1>1. Keeps(s, s)
  BY KeepsItself
<1>2. \A start \in Nat : Keeps(s, drop_marked_member(s, start))
  BY <1>1, UncountedKeeps DEF drop_marked_member
<1>3. CASE s.frames = <<>> \/ TopOf(s).start = None
  BY <1>1, <1>2, <1>3 DEF retract_in_flight_member, drop_dangling_member
<1>4. CASE s.frames # <<>> /\ TopOf(s).start # None
  <2> DEFINE start == TopOf(s).start
             t     == DropMember(s, start)
  <2>1. start \in Nat
    BY <1>4, TopIs, FrameFields
  <2>2. Keeps(s, retract_in_flight_member(s))
    BY <1>4, <2>1, UncountedKeeps DEF retract_in_flight_member
  <2>3. Keeps(s, t)
    BY <1>4, <2>1, DropMemberKeeps
  <2> HIDE DEF t
  <2>4. "Key" \in Positions
    BY DEF Positions
  <2>5. Keeps(t, [t EXCEPT !.pos = "Key"])
    BY <2>3, <2>4, KeptIsSound, PosKeeps
  <2>6. Keeps(s, [t EXCEPT !.pos = "Key"])
    BY <2>3, <2>5, KeepsOn
  <2>7. drop_dangling_member(s) = [t EXCEPT !.pos = "Key"]
    BY <1>4 DEF drop_dangling_member, t
  <2> QED BY <1>2, <2>2, <2>6, <2>7
<1> QED BY <1>3, <1>4

\* What a frame notes of its body.
LEMMA NotesKeep ==
  ASSUME NEW s, Sound(s)
  PROVE  Keeps(s, note_comma(s)) /\ Keeps(s, mark_body_colon(s))
<1>1. CASE s.frames = <<>>
  BY <1>1, KeepsItself DEF note_comma, mark_body_colon
<1>2. CASE s.frames # <<>>
  <2>1. TopOf(s) \in Frame
    BY <1>2, TopIs
  <2>2. /\ [TopOf(s) EXCEPT !.comma = TRUE] \in Frame
        /\ [TopOf(s) EXCEPT !.colon = TRUE] \in Frame
    BY <2>1 DEF Frame
  <2> QED BY <1>2, <2>2, SetTopKeeps DEF note_comma, mark_body_colon
<1> QED BY <1>1, <1>2

-----------------------------------------------------------------------------
(* Recursive functions: that one exists, and what its values keep.         *)

\* A nonempty set of naturals has a least member.
LEMMA HasLeast ==
  ASSUME NEW S \in SUBSET Nat, S # {}
  PROVE  \E x \in S : \A y \in S : x <= y
<1> DEFINE R == OpToRel(<, Nat)
<1>1. IsWellFoundedOn(R, Nat)
  BY NatLessThanWellFounded
<1>2. \A y, x \in Nat : y < x => <<y, x>> \in R
  BY DEF OpToRel
<1> HIDE DEF R
<1>3. PICK x \in S : \A y \in S : ~(<<y, x>> \in R)
  BY <1>1, WFMin
<1>4. ASSUME NEW y \in S PROVE x <= y
  <2>1. x \in Nat /\ y \in Nat
    OBVIOUS
  <2>2. ~(y < x)
    BY <1>2, <1>3, <2>1, Zenon
  <2> QED BY <2>1, <2>2
<1> QED BY <1>4

\* What the first value has and every next one takes over, all values have.
LEMMA Stays ==
  ASSUME NEW N \in Nat, NEW X, NEW h, h[0] \in X,
         \A n \in 1..N : h[n - 1] \in X => h[n] \in X
  PROVE  \A n \in 0..N : h[n] \in X
<1> DEFINE Bad == {n \in 0..N : h[n] \notin X}
<1>1. SUFFICES ASSUME Bad # {} PROVE FALSE
  OBVIOUS
<1>2. PICK x \in Bad : \A y \in Bad : x <= y
  <2>1. Bad \in SUBSET Nat
    OBVIOUS
  <2> HIDE DEF Bad
  <2> QED BY <1>1, <2>1, HasLeast
<1>3. x \in 1..N
  BY <1>2
<1>4. x - 1 \in 0..N /\ x - 1 \notin Bad
  BY <1>2, <1>3
<1> QED BY <1>2, <1>3, <1>4

\* f starts with a and takes the steps g.
Runs(f, N, X, a, g) ==
  f \in [0..N -> X] /\ f[0] = a /\ \A n \in 1..N : f[n - 1] \in X /\ f[n] = g[n][f[n - 1]]

\* A function can be given by its first value and the steps to the next ones.
LEMMA Recursion ==
  ASSUME NEW N \in Nat, NEW X, NEW a \in X, NEW g \in [1..N -> [X -> X]]
  PROVE  \E f : Runs(f, N, X, a, g)
<1> DEFINE Q(k) == \E f \in [0..k -> X] : f[0] = a /\ \A n \in 1..k : f[n] = g[n][f[n - 1]]
           Bad  == {k \in 0..N : ~Q(k)}
<1>1. Bad = {}
  <2>1. SUFFICES ASSUME Bad # {} PROVE FALSE
    OBVIOUS
  <2>2. PICK x \in Bad : \A y \in Bad : x <= y
    <3>1. Bad \in SUBSET Nat
      OBVIOUS
    <3> HIDE DEF Bad
    <3> QED BY <2>1, <3>1, HasLeast
  <2>3. Q(0)
    <3> DEFINE f == [n \in 0..0 |-> a]
    <3>1. f \in [0..0 -> X] /\ f[0] = a /\ \A n \in 1..0 : f[n] = g[n][f[n - 1]]
      OBVIOUS
    <3> QED BY <3>1
  <2>4. x \in 1..N /\ x - 1 \in 0..N /\ x - 1 \notin Bad
    <3> HIDE DEF Q
    <3> QED BY <2>2, <2>3
  <2>5. PICK f \in [0..(x - 1) -> X] :
          f[0] = a /\ \A n \in 1..(x - 1) : f[n] = g[n][f[n - 1]]
    BY <2>4
  <2> DEFINE h == [n \in 0..x |-> IF n = x THEN g[x][f[x - 1]] ELSE f[n]]
  <2>6. g[x][f[x - 1]] \in X
    BY <2>4, <2>5
  <2>7. h \in [0..x -> X]
    BY <2>4, <2>5, <2>6
  <2>8. h[0] = a
    BY <2>4, <2>5
  <2>9. \A n \in 1..x : h[n] = g[n][h[n - 1]]
    BY <2>4, <2>5
  <2> HIDE DEF h
  <2>10. Q(x)
    BY <2>7, <2>8, <2>9
  <2> QED BY <2>2, <2>10
<1>2. Q(N)
  <2> HIDE DEF Q
  <2> QED BY <1>1
<1> QED BY <1>2 DEF Runs

\* What is left of a sequence is a sequence of the same things.
LEMMA ExceptIs ==
  ASSUME NEW T, NEW t \in Seq(T), NEW S
  PROVE  Except(t, S) \in Seq(T)
<1> DEFINE N == Len(t)
           X == Seq(T)
           a == <<>>
           Then(n, x) == IF t[n] \in S THEN x ELSE Append(x, t[n])
           P(h) == h = [n \in 0..N |-> IF n = 0 THEN a ELSE Then(n, h[n - 1])]
           g == [n \in 1..N |-> [x \in X |-> Then(n, x)]]
<1>1. N \in Nat /\ a \in X
  OBVIOUS
<1>2. \A n \in 1..N, x \in X : Then(n, x) \in X
  OBVIOUS
<1>3. Except(t, S) = (CHOOSE h : P(h))[N]
  BY DEF Except
<1> HIDE DEF N, X, a, Then
<1>4. g \in [1..N -> [X -> X]]
  BY <1>2
<1>5. PICK f \in [0..N -> X] :
        f[0] = a /\ \A n \in 1..N : f[n - 1] \in X /\ f[n] = g[n][f[n - 1]]
  <2> HIDE DEF g
  <2>1. \E f : Runs(f, N, X, a, g)
    BY <1>1, <1>4, Recursion
  <2> QED BY <2>1 DEF Runs
<1>6. P(f)
  <2>1. \A n \in 1..N : f[n] = Then(n, f[n - 1])
    BY <1>1, <1>5
  <2>2. \A n \in 0..N : f[n] = IF n = 0 THEN a ELSE Then(n, f[n - 1])
    BY <1>1, <1>5, <2>1
  <2>3. f = [n \in 0..N |-> f[n]]
    OBVIOUS
  <2> QED BY <2>2, <2>3
<1> DEFINE kept == CHOOSE h : P(h)
<1> HIDE DEF P
<1>7. P(kept)
  BY <1>6
<1> HIDE DEF kept
<1>8. kept = [n \in 0..N |-> IF n = 0 THEN a ELSE Then(n, kept[n - 1])]
  BY <1>7 DEF P
<1>9. kept[0] = a /\ \A n \in 1..N : kept[n] = Then(n, kept[n - 1])
  BY <1>1, <1>8
<1>10. \A n \in 0..N : kept[n] \in X
  BY <1>1, <1>2, <1>9, Stays
<1> QED BY <1>1, <1>3, <1>10 DEF kept, X

-----------------------------------------------------------------------------
(* Opening and closing.                                                    *)

\* The deferred decision about an empty element.
LEMMA ArmKeeps ==
  ASSUME NEW s, Sound(s), NEW elem_paren \in BOOLEAN
  PROVE  Keeps(s, arm_empty_pending(s, elem_paren))
<1> DEFINE p == TopOf(s)
           never == \/ elem_paren
                    \/ \E i \in 1..Len(s.frames) : s.frames[i].kind = "Paren"
           armed == [armed |-> TRUE, start |-> p.start, end |-> Len(s.out),
                     was_first |-> p.count = 1, frame |-> Len(s.frames) - 1,
                     parent_paren |-> p.kind = "Paren", never_defers |-> never, ws_seen |-> FALSE]
           t == [s EXCEPT !.empty_pending = armed]
<1>1. CASE arm_empty_pending(s, elem_paren) = s
  BY <1>1, KeepsItself
<1>2. CASE arm_empty_pending(s, elem_paren) # s
  <2>1. s.frames # <<>> /\ p.start # None /\ arm_empty_pending(s, elem_paren) = t
    BY <1>2 DEF arm_empty_pending
  <2>2. p \in Frame /\ Len(s.frames) \in Nat \ {0}
    BY <2>1, TopIs
  <2>3. p.start \in Nat
    BY <2>1, <2>2, FrameFields
  <2>4. Len(s.out) \in Int /\ Len(s.frames) - 1 \in Nat
    BY <2>2, Counts
  <2>5. never \in BOOLEAN
    OBVIOUS
  <2> HIDE DEF p, never
  <2>6. armed \in EmptyPending
    BY <2>3, <2>4, <2>5 DEF EmptyPending, ArmedSet
  <2>7. s \in Machine /\ Len(s.frames) <= MAX_NESTING
    BY Counts
  <2> HIDE DEF armed
  <2>8. t \in Machine /\ t.out = s.out /\ t.emitted = s.emitted /\ t.frames = s.frames
    BY <2>6, <2>7 DEF Machine
  <2> HIDE DEF t
  <2>9. Keeps(s, t)
    BY <2>7, <2>8, Quietly
  <2> QED BY <2>1, <2>9
<1> QED BY <1>1, <1>2

\* A parenthesized group closes: it keeps its bracket, or is its one element.
LEMMA PopParenKeeps ==
  ASSUME NEW s, Sound(s), NEW f \in Frame
  PROVE  /\ Keeps(s, PopParen(s, f).m) /\ PopParen(s, f).m.frames = s.frames
         /\ PopParen(s, f).groupish \in BOOLEAN
<1> DEFINE t == Emit(s, <<"]">>)
           u == DrainOne(s, f.brace, "[")
           kept == [m |-> t, groupish |-> SubSeq(t.out, f.brace + 1, Len(t.out)) = <<"[", "]">>]
           unwrapped == [m |-> u, groupish |-> \/ f.groupish
                                               \/ Len(u.out) <= f.brace
                                               \/ u.out[f.brace + 1] \notin {"[", "{"}]
<1>1. Keeps(s, t) /\ t.frames = s.frames
  BY EmitKeeps, Tokens
<1>2. Keeps(s, u) /\ u.frames = s.frames
  BY FrameFields, DrainKeeps
<1> HIDE DEF t, u
<1>3. /\ kept.m = t /\ unwrapped.m = u
      /\ kept.groupish \in BOOLEAN /\ unwrapped.groupish \in BOOLEAN
  OBVIOUS
<1>4. PopParen(s, f) \in {kept, unwrapped}
  BY DEF PopParen, t, u
<1> QED BY <1>1, <1>2, <1>3, <1>4

\* An object closes: with its brace, or as the empty list it falls back to.
LEMMA PopObjectKeeps ==
  ASSUME NEW s, Sound(s), NEW f \in Frame
  PROVE  Keeps(s, PopObject(s, f)) /\ PopObject(s, f).frames = s.frames
<1> DEFINE t == DrainOne(s, f.brace, "{")
<1>1. Keeps(s, t) /\ t.frames = s.frames
  BY FrameFields, DrainKeeps
<1> HIDE DEF t
<1>2. Keeps(t, Emit(t, <<"[", "]">>)) /\ Emit(t, <<"[", "]">>).frames = t.frames
  BY <1>1, KeptIsSound, EmitKeeps, Tokens
<1>3. Keeps(s, Emit(t, <<"[", "]">>)) /\ Emit(t, <<"[", "]">>).frames = s.frames
  BY <1>1, <1>2, KeepsOn
<1>4. Keeps(s, Emit(s, <<"}">>)) /\ Emit(s, <<"}">>).frames = s.frames
  BY EmitKeeps, Tokens
<1>5. PopObject(s, f) \in {Emit(t, <<"[", "]">>), Emit(s, <<"}">>)}
  BY DEF PopObject, t
<1> QED BY <1>3, <1>4, <1>5

\* Its own deferred elements are decided by an array that closes.
LEMMA VerdictsAre ==
  ASSUME NEW marks \in Seq(Mark), NEW depth, NEW trailing
  PROVE  [i \in DOMAIN marks |-> Verdict(marks[i], depth, trailing)] \in Seq(Mark)
<1>1. ASSUME NEW a \in Mark PROVE Verdict(a, depth, trailing) \in Mark
  BY DEF Verdict, Mark
<1>2. DOMAIN marks = 1..Len(marks) /\ Len(marks) \in Nat
  OBVIOUS
<1> DEFINE after == [i \in DOMAIN marks |-> Verdict(marks[i], depth, trailing)]
<1>3. after \in [1..Len(marks) -> Mark]
  BY <1>1, <1>2
<1> HIDE DEF after
<1>4. after \in Seq(Mark)
  BY <1>2, <1>3
<1> QED BY <1>4 DEF after

\* A machine that differs in neither its text, its cursor nor its frames.
Like(s) == {t \in Machine : t.out = s.out /\ t.emitted = s.emitted /\ t.frames = s.frames}

\* It keeps what was handed over.
LEMMA LikeKeeps ==
  ASSUME NEW s, Sound(s), NEW t \in Like(s)
  PROVE  Keeps(s, t) /\ t.frames = s.frames /\ t.out = s.out
<1>1. /\ t \in Machine /\ t.out = s.out /\ t.emitted = s.emitted /\ t.frames = s.frames
  BY DEF Like
<1>2. Len(s.frames) <= MAX_NESTING
  BY Counts
<1> QED BY <1>1, <1>2, Quietly

\* Every other field may change.
LEMMA FieldsMove ==
  ASSUME NEW s, s \in Machine
  PROVE  /\ s \in Like(s)
         /\ \A x \in Positions : [s EXCEPT !.pos = x] \in Like(s)
         /\ \A x \in StringSet : [s EXCEPT !.string = x] \in Like(s)
         /\ \A x \in Pending : [s EXCEPT !.pending = x] \in Like(s)
         /\ \A x \in Comment : [s EXCEPT !.comment = x] \in Like(s)
         /\ \A x \in BOOLEAN : /\ [s EXCEPT !.top_clean = x] \in Like(s)
                               /\ [s EXCEPT !.top_done = x] \in Like(s)
                               /\ [s EXCEPT !.prev_char_ws = x] \in Like(s)
                               /\ [s EXCEPT !.last_key_empty = x] \in Like(s)
                               /\ [s EXCEPT !.garbage_run = x] \in Like(s)
                               /\ [s EXCEPT !.error = x] \in Like(s)
         /\ \A x \in Nat \cup {None} : [s EXCEPT !.last_string_start = x] \in Like(s)
         /\ \A x \in Token : [s EXCEPT !.string_raw_tail = x] \in Like(s)
         /\ \A x \in Seq(Mark) : [s EXCEPT !.empty_marks = x] \in Like(s)
         /\ \A x \in EmptyPending : [s EXCEPT !.empty_pending = x] \in Like(s)
         /\ \A x \in Gate : [s EXCEPT !.paren_gate = x] \in Like(s)
         /\ \A x \in Text : [s EXCEPT !.replay = x] \in Like(s)
<1>1. s \in Like(s)
  BY DEF Like
<1>2. /\ \A x \in Positions : [s EXCEPT !.pos = x] \in Like(s)
      /\ \A x \in StringSet : [s EXCEPT !.string = x] \in Like(s)
  BY DEF Machine, Like
<1>3. /\ \A x \in Pending : [s EXCEPT !.pending = x] \in Like(s)
      /\ \A x \in Comment : [s EXCEPT !.comment = x] \in Like(s)
  BY DEF Machine, Like
<1>4. \A x \in BOOLEAN : /\ [s EXCEPT !.top_clean = x] \in Like(s)
                         /\ [s EXCEPT !.top_done = x] \in Like(s)
                         /\ [s EXCEPT !.prev_char_ws = x] \in Like(s)
  BY DEF Machine, Like
<1>5. \A x \in BOOLEAN : /\ [s EXCEPT !.last_key_empty = x] \in Like(s)
                         /\ [s EXCEPT !.garbage_run = x] \in Like(s)
                         /\ [s EXCEPT !.error = x] \in Like(s)
  BY DEF Machine, Like
<1>6. /\ \A x \in Nat \cup {None} : [s EXCEPT !.last_string_start = x] \in Like(s)
      /\ \A x \in Token : [s EXCEPT !.string_raw_tail = x] \in Like(s)
  BY DEF Machine, Like
<1>7. /\ \A x \in Seq(Mark) : [s EXCEPT !.empty_marks = x] \in Like(s)
      /\ \A x \in EmptyPending : [s EXCEPT !.empty_pending = x] \in Like(s)
  BY DEF Machine, Like
<1>8. /\ \A x \in Gate : [s EXCEPT !.paren_gate = x] \in Like(s)
      /\ \A x \in Text : [s EXCEPT !.replay = x] \in Like(s)
  BY DEF Machine, Like
<1> QED BY <1>1, <1>2, <1>3, <1>4, <1>5, <1>6, <1>7, <1>8

\* What the field values the code writes are made of.
LEMMA Values ==
  /\ {"Value", "MemberValue", "Key", "Colon", "AfterValue"} \subseteq Positions
  /\ [open |-> FALSE] \in StringSet /\ [armed |-> FALSE] \in EmptyPending
  /\ NoPending \in Pending
  /\ [kind |-> "none"] \in Gate /\ [kind |-> "TailCheck"] \in Gate
  /\ \A b \in Text : [kind |-> "FirstChar", buf |-> b] \in Gate
  /\ [kind |-> "none"] \in Comment /\ [kind |-> "Slash"] \in Comment
  /\ [kind |-> "Line"] \in Comment
  /\ \A c \in Token : [kind |-> "Block", prev |-> c] \in Comment
  /\ \A x \in SUBSET Token : [kind |-> "Hash", stops |-> x] \in Comment
  /\ \A t \in Text, b \in BOOLEAN : NumPending(t, b) \in Pending
  /\ \A t \in Text, b, d \in BOOLEAN : WordPending(t, b, d) \in Pending
<1>1. /\ {"Value", "MemberValue", "Key", "Colon", "AfterValue"} \subseteq Positions
      /\ [open |-> FALSE] \in StringSet /\ [armed |-> FALSE] \in EmptyPending
      /\ NoPending \in Pending
  BY DEF Positions, StringSet, EmptyPending, Pending
<1>2. /\ [kind |-> "none"] \in Gate /\ [kind |-> "TailCheck"] \in Gate
      /\ \A b \in Text : [kind |-> "FirstChar", buf |-> b] \in Gate
  BY DEF Gate
<1>3. /\ [kind |-> "none"] \in Comment /\ [kind |-> "Slash"] \in Comment
      /\ [kind |-> "Line"] \in Comment
      /\ \A c \in Token : [kind |-> "Block", prev |-> c] \in Comment
      /\ \A x \in SUBSET Token : [kind |-> "Hash", stops |-> x] \in Comment
  BY DEF Comment
<1>4. /\ \A t \in Text, b \in BOOLEAN : NumPending(t, b) \in Pending
      /\ \A t \in Text, b, d \in BOOLEAN : WordPending(t, b, d) \in Pending
  BY DEF Pending, NumPending, WordPending, NumSet, WordSet
<1> QED BY <1>1, <1>2, <1>3, <1>4

\* The innermost frame closes.
LEMMA PopKeeps ==
  ASSUME NEW s, Sound(s)
  PROVE  Keeps(s, pop_frame(s))
<1>1. CASE s.frames = <<>>
  BY <1>1, KeepsItself DEF pop_frame
<1>2. CASE s.frames # <<>>
  <2> DEFINE f        == TopOf(s)
             depth    == Len(s.frames) - 1
             trailing == s.pos = "Value" /\ f.count > 0
             front    == SubSeq(s.frames, 1, depth)
             decided  == [i \in DOMAIN s.empty_marks |-> Verdict(s.empty_marks[i], depth, trailing)]
             t1 == [s EXCEPT !.frames = front, !.empty_marks = decided]
             p1 == PopParen(t1, f)
             p2 == [m |-> PopObject(t1, f), groupish |-> FALSE]
             p3 == [m |-> Emit(t1, <<"]">>), groupish |-> FALSE]
             pp == IF f.kind = "Paren" THEN PopParen(t1, f)
                   ELSE [m |-> IF f.kind = "Obj" THEN PopObject(t1, f) ELSE Emit(t1, <<"]">>),
                         groupish |-> FALSE]
             t2 == IF pp.groupish /\ depth > 0
                   THEN SetTop(pp.m, [TopOf(pp.m) EXCEPT !.groupish = TRUE]) ELSE pp.m
             pending == IF depth = 0 \/ (t2.empty_pending.armed /\ t2.empty_pending.frame >= depth)
                        THEN [armed |-> FALSE] ELSE t2.empty_pending
             t3 == [t2 EXCEPT !.pos = "AfterValue", !.top_done = depth = 0, !.empty_pending = pending]
             left == Except(t3.empty_marks, {k \in Members(t3.empty_marks) : k.dropped = "keep"})
             gate == IF pp.groupish THEN [kind |-> "TailCheck"] ELSE t3.paren_gate
             t4 == IF depth > 0 THEN t3 ELSE [t3 EXCEPT !.empty_marks = left, !.paren_gate = gate]
  <2>1. /\ s \in Machine /\ s.frames \in Seq(Frame) /\ Len(s.frames) <= MAX_NESTING
        /\ f \in Frame /\ Len(s.frames) \in Nat \ {0}
    BY <1>2, Counts, TopIs
  <2>2. MAX_NESTING \in Nat /\ depth \in Nat
    BY <2>1, NestingAssumption
  <2>3. front \in Seq(Frame) /\ Len(front) = depth
    BY <2>1, <2>2
  <2> HIDE DEF front
  <2>4. decided \in Seq(Mark)
    BY <2>1, Fields, VerdictsAre
  <2>5. pop_frame(s) = arm_empty_pending(t4, f.kind = "Paren")
    BY <1>2 DEF pop_frame, front
  <2>6. Keeps(s, t1) /\ t1.frames = front
    <3> HIDE DEF front, decided, depth, f
    <3>1. t1 \in Machine /\ t1.out = s.out /\ t1.emitted = s.emitted /\ t1.frames = front
      BY <2>1, <2>3, <2>4 DEF Machine
    <3>2. Len(t1.frames) <= MAX_NESTING
      BY <2>1, <2>2, <2>3, <3>1 DEF depth
    <3> HIDE DEF t1
    <3> QED BY <3>1, <3>2, Quietly
  <2> HIDE DEF t1
  <2>7. Keeps(t1, pp.m) /\ pp.m.frames = t1.frames /\ pp.groupish \in BOOLEAN
    <3>1. Sound(t1)
      BY <2>6, KeptIsSound
    <3> HIDE DEF f
    <3>2. Keeps(t1, p1.m) /\ p1.m.frames = t1.frames /\ p1.groupish \in BOOLEAN
      BY <2>1, <3>1, PopParenKeeps
    <3>3. Keeps(t1, PopObject(t1, f)) /\ PopObject(t1, f).frames = t1.frames
      BY <2>1, <3>1, PopObjectKeeps
    <3>4. Keeps(t1, p2.m) /\ p2.m.frames = t1.frames /\ p2.groupish \in BOOLEAN
      BY <3>3
    <3>5. Keeps(t1, Emit(t1, <<"]">>)) /\ Emit(t1, <<"]">>).frames = t1.frames
      BY <3>1, EmitKeeps, Tokens
    <3>6. Keeps(t1, p3.m) /\ p3.m.frames = t1.frames /\ p3.groupish \in BOOLEAN
      BY <3>5
    <3>7. pp \in {p1, p2, p3}
      OBVIOUS
    <3> HIDE DEF pp, p1, p2, p3
    <3> QED BY <3>2, <3>4, <3>6, <3>7
  <2> HIDE DEF pp
  <2>8. Keeps(s, pp.m) /\ Sound(pp.m) /\ pp.m.frames = front
    BY <2>6, <2>7, KeepsOn, KeptIsSound
  <2>9. Keeps(pp.m, t2)
    <3>1. CASE pp.groupish /\ depth > 0
      <4>1. front # <<>>
        <5> HIDE DEF depth
        <5> QED BY <2>2, <2>3, <3>1
      <4>2. TopOf(pp.m) \in Frame
        BY <2>8, <4>1, TopIs
      <4>3. [TopOf(pp.m) EXCEPT !.groupish = TRUE] \in Frame
        BY <4>2 DEF Frame
      <4> QED BY <2>8, <3>1, <4>1, <4>3, SetTopKeeps
    <3>2. CASE ~(pp.groupish /\ depth > 0)
      BY <2>8, <3>2, KeepsItself
    <3> QED BY <3>1, <3>2
  <2> HIDE DEF t2
  <2>10. Keeps(s, t2) /\ Sound(t2)
    BY <2>8, <2>9, KeepsOn, KeptIsSound
  <2>11. t2 \in Machine /\ t2.empty_pending \in EmptyPending
    BY <2>10, Counts, Fields
  <2>12. pending \in EmptyPending
    BY <2>11, Values
  <2> HIDE DEF pending
  <2>13. t3 \in Like(t2)
    <3>1. (depth = 0) \in BOOLEAN /\ "AfterValue" \in Positions
      BY Values
    <3> HIDE DEF depth
    <3> QED BY <2>11, <2>12, <3>1 DEF Like, Machine
  <2> HIDE DEF t3
  <2>14. Keeps(t2, t3)
    BY <2>10, <2>13, LikeKeeps
  <2>15. Sound(t3)
    BY <2>14, KeptIsSound
  <2>16. t3 \in Machine /\ t3.empty_marks \in Seq(Mark) /\ t3.paren_gate \in Gate
    BY <2>15, Counts, Fields
  <2>17. left \in Seq(Mark) /\ gate \in Gate
    BY <2>16, ExceptIs, Values
  <2> HIDE DEF left, gate
  <2>18. Keeps(t3, t4)
    <3>1. [t3 EXCEPT !.empty_marks = left, !.paren_gate = gate] \in Like(t3)
      BY <2>16, <2>17 DEF Like, Machine
    <3>2. t3 \in Like(t3)
      BY <2>16 DEF Like
    <3>3. t4 \in Like(t3)
      BY <3>1, <3>2
    <3> HIDE DEF t4
    <3> QED BY <2>15, <3>3, LikeKeeps
  <2> HIDE DEF t4
  <2>19. Keeps(s, t4) /\ Sound(t4)
    BY <2>10, <2>14, <2>18, KeepsOn, KeptIsSound
  <2> DEFINE paren == f.kind = "Paren"
  <2>20. paren \in BOOLEAN
    OBVIOUS
  <2> HIDE DEF paren
  <2>21. Keeps(t4, arm_empty_pending(t4, paren))
    BY <2>19, <2>20, ArmKeeps
  <2>22. Keeps(s, arm_empty_pending(t4, paren))
    BY <2>19, <2>21, KeepsOn
  <2> QED BY <2>5, <2>22 DEF paren
<1> QED BY <1>1, <1>2

\* What a frame's pop takes over, closing down to a level does, whatever the level.
LEMMA PopToStays ==
  ASSUME NEW s, NEW X, s \in X, Len(s.frames) \in Nat, \A x \in X : pop_frame(x) \in X,
         NEW idx \in 1..Len(s.frames)
  PROVE  PopTo(s, idx) \in X
<1> DEFINE N == Len(s.frames)
           a == s
           Then(x) == pop_frame(x)
           P(h) == h = [n \in 0..N |-> IF n = 0 THEN a ELSE Then(h[n - 1])]
           g == [n \in 1..N |-> [x \in X |-> Then(x)]]
<1>1. N \in Nat /\ a \in X /\ \A x \in X : Then(x) \in X
  OBVIOUS
<1>2. PopTo(s, idx) = (CHOOSE h : P(h))[N - idx + 1]
  BY DEF PopTo
<1>3. N - idx + 1 \in 0..N
  BY <1>1
<1> HIDE DEF N, a, Then
<1>4. g \in [1..N -> [X -> X]]
  BY <1>1
<1>5. PICK f \in [0..N -> X] :
        f[0] = a /\ \A n \in 1..N : f[n - 1] \in X /\ f[n] = g[n][f[n - 1]]
  <2> HIDE DEF g
  <2>1. \E f : Runs(f, N, X, a, g)
    BY <1>1, <1>4, Recursion
  <2> QED BY <2>1 DEF Runs
<1>6. P(f)
  <2>1. \A n \in 1..N : f[n] = Then(f[n - 1])
    BY <1>1, <1>5
  <2>2. \A n \in 0..N : f[n] = IF n = 0 THEN a ELSE Then(f[n - 1])
    BY <1>1, <1>5, <2>1
  <2>3. f = [n \in 0..N |-> f[n]]
    OBVIOUS
  <2> QED BY <2>2, <2>3
<1> DEFINE after == CHOOSE h : P(h)
<1> HIDE DEF P
<1>7. P(after)
  BY <1>6
<1> HIDE DEF after
<1>8. after = [n \in 0..N |-> IF n = 0 THEN a ELSE Then(after[n - 1])]
  BY <1>7 DEF P
<1>9. after[0] = a /\ \A n \in 1..N : after[n] = Then(after[n - 1])
  BY <1>1, <1>8
<1>10. \A n \in 1..N : after[n - 1] \in X => after[n] \in X
  BY <1>1, <1>9
<1>11. \A n \in 0..N : after[n] \in X
  BY <1>1, <1>9, <1>10, Stays
<1> QED BY <1>2, <1>3, <1>11 DEF after

\* A set of positions has a least and a greatest one, which CHOOSE finds.
LEMMA Extremes ==
  ASSUME NEW n \in Nat, NEW S \in SUBSET (1..n), S # {}
  PROVE  /\ FirstOf(S) \in S /\ LastOf(S) \in S
         /\ (CHOOSE i \in S : \A j \in S : j <= i) \in S
<1>1. \E x \in S : \A y \in S : x <= y
  <2>1. S \in SUBSET Nat
    OBVIOUS
  <2> QED BY <2>1, HasLeast
<1>2. FirstOf(S) \in S
  BY <1>1 DEF FirstOf
<1>3. \E x \in S : \A y \in S : y <= x
  <2> DEFINE D == {n - i : i \in S}
  <2>1. D \in SUBSET Nat /\ D # {}
    <3>1. \A i \in S : n - i \in Nat
      OBVIOUS
    <3> QED BY <3>1
  <2>2. PICK d \in D : \A e \in D : d <= e
    <3> HIDE DEF D
    <3> QED BY <2>1, HasLeast
  <2>3. PICK x \in S : d = n - x
    BY <2>2
  <2>4. \A y \in S : n - x <= n - y
    BY <2>2, <2>3
  <2>5. \A y \in S : y <= x
    BY <2>4
  <2> QED BY <2>5
<1>4. LastOf(S) \in S /\ (CHOOSE i \in S : \A j \in S : j <= i) \in S
  BY <1>3 DEF LastOf
<1> QED BY <1>2, <1>4

\* A closer closes what it matches, frame by frame.
LEMMA CloseStays ==
  ASSUME NEW s, NEW X, s \in X, Len(s.frames) \in Nat, \A x \in X : pop_frame(x) \in X, NEW c
  PROVE  close_up(s, c) \in X
<1> DEFINE open == {i \in 1..Len(s.frames) : Matches(s.frames[i].kind, c)}
           idx  == CHOOSE i \in open : \A j \in open : j <= i
<1>1. pop_frame(s) \in X
  OBVIOUS
<1>2. CASE open = {}
  BY <1>1, <1>2 DEF close_up
<1>3. CASE open # {}
  <2>1. open \in SUBSET (1..Len(s.frames))
    OBVIOUS
  <2>2. close_up(s, c) \in {s, pop_frame(s), PopTo(s, idx)}
    BY DEF close_up
  <2> HIDE DEF open
  <2>3. idx \in open
    BY <1>3, <2>1, Extremes
  <2> HIDE DEF idx
  <2>4. PopTo(s, idx) \in X
    BY <2>1, <2>3, PopToStays
  <2> QED BY <1>1, <2>2, <2>4
<1> QED BY <1>2, <1>3

\* A closer keeps.
LEMMA CloseKeeps ==
  ASSUME NEW s, Sound(s), NEW c
  PROVE  Keeps(s, close_up(s, c))
<1> DEFINE X == {t \in Machine : Keeps(s, t)}
<1>1. s \in X /\ Len(s.frames) \in Nat
  BY Counts, KeepsItself
<1>2. \A x \in X : pop_frame(x) \in X
  <2> TAKE x \in X
  <2>1. Keeps(s, x) /\ Sound(x)
    BY KeptIsSound
  <2>2. Keeps(s, pop_frame(x))
    BY <2>1, PopKeeps, KeepsOn
  <2>3. pop_frame(x) \in Machine
    BY <2>2 DEF Keeps, Sound
  <2> QED BY <2>2, <2>3
<1>3. \A t \in X : Keeps(s, t)
  OBVIOUS
<1> HIDE DEF X
<1> QED BY <1>1, <1>2, <1>3, CloseStays

\* What keeps still keeps when only other fields move.
LEMMA ThenLike ==
  ASSUME NEW s, Sound(s), NEW t, Keeps(s, t), NEW u \in Like(t)
  PROVE  Keeps(s, u) /\ u.frames = t.frames
<1>1. Sound(t)
  BY KeptIsSound
<1>2. Keeps(t, u) /\ u.frames = t.frames
  BY <1>1, LikeKeeps
<1> QED BY <1>2, KeepsOn

\* Its position, its pending token or its re-entry moves.
LEMMA ThenOne ==
  ASSUME NEW s, Sound(s), NEW t, Keeps(s, t)
  PROVE  /\ \A x \in Positions : Keeps(s, [t EXCEPT !.pos = x])
         /\ \A x \in Pending : Keeps(s, WithPending(t, x))
         /\ \A x \in Text : Keeps(s, Replay(t, x))
<1>1. t \in Machine
  BY DEF Keeps, Sound
<1>2. /\ \A x \in Positions : [t EXCEPT !.pos = x] \in Like(t)
      /\ \A x \in Pending : [t EXCEPT !.pending = x] \in Like(t)
      /\ \A x \in Text : [t EXCEPT !.replay = x] \in Like(t)
  BY <1>1, FieldsMove
<1>3. \A u \in Like(t) : Keeps(s, u)
  BY ThenLike
<1> QED BY <1>2, <1>3 DEF WithPending, Replay

\* A string opens behind the text.
LEMMA OpenStringKeeps ==
  ASSUME NEW s, Sound(s), NEW c \in Token, NEW is_key \in BOOLEAN
  PROVE  Keeps(s, open_string(s, c, is_key))
<1> DEFINE t == Emit(s, <<"\"">>)
           string == [open |-> TRUE, delim |-> c, is_key |-> is_key]
           pos == IF is_key THEN "Key" ELSE t.pos
           at == Len(s.out)
           u == [t EXCEPT !.last_string_start = at, !.string_raw_tail = "",
                          !.pos = pos, !.string = string]
<1>1. Keeps(s, t)
  BY EmitKeeps, Tokens
<1>2. open_string(s, c, is_key) = u
  BY DEF open_string
<1> HIDE DEF t
<1>3. t \in Machine
  BY <1>1 DEF Keeps, Sound
<1>4. string \in StringSet /\ pos \in Positions /\ at \in Nat
  BY <1>3, Counts, Fields, Values DEF StringSet, OpenString
<1> HIDE DEF string, pos, at
<1>5. u \in Like(t)
  BY <1>3, <1>4 DEF Machine, Like
<1> HIDE DEF u
<1> QED BY <1>1, <1>2, <1>5, ThenLike

\* A container opens behind the text, unless the cap is reached.
LEMMA OpenContainerKeeps ==
  ASSUME NEW s, Sound(s), NEW kind \in Kinds
  PROVE  Keeps(s, open_container(s, kind))
<1>1. /\ s \in Machine /\ Len(s.frames) \in Nat /\ Len(s.frames) <= MAX_NESTING
      /\ s.frames \in Seq(Frame) /\ Len(s.out) \in Nat /\ MAX_NESTING \in Nat
  BY Counts, NestingAssumption
<1>2. CASE Len(s.frames) >= MAX_NESTING
  <2>1. [s EXCEPT !.error = TRUE] \in Like(s)
    BY <1>1, FieldsMove
  <2>2. open_container(s, kind) = [s EXCEPT !.error = TRUE]
    BY <1>2 DEF open_container
  <2> QED BY <2>1, <2>2, LikeKeeps
<1>3. CASE ~(Len(s.frames) >= MAX_NESTING)
  <2> DEFINE bracket == IF kind = "Obj" THEN "{" ELSE "["
             t == Emit(s, <<bracket>>)
             pos == IF kind = "Obj" THEN "Key" ELSE "Value"
             f == FrameOf(kind, Len(s.out))
             frames == Append(t.frames, f)
             u == [t EXCEPT !.pos = pos, !.frames = frames]
  <2>1. bracket \in Token
    BY Tokens DEF Token, Written
  <2> HIDE DEF bracket
  <2>2. Keeps(s, t) /\ t.frames = s.frames
    BY <2>1, EmitKeeps, Tokens
  <2>3. open_container(s, kind) = u
    BY <1>3 DEF open_container, bracket
  <2> HIDE DEF t
  <2>4. f \in Frame
    BY <1>1 DEF FrameOf, Frame, None
  <2> HIDE DEF f
  <2>5. frames \in Seq(Frame) /\ Len(frames) <= MAX_NESTING
    BY <1>1, <1>3, <2>2, <2>4
  <2>6. pos \in Positions
    BY Values
  <2> HIDE DEF frames, pos
  <2>7. t \in Machine /\ Sound(t)
    BY <2>2 DEF Keeps, Sound
  <2>8. u \in Machine /\ u.out = t.out /\ u.emitted = t.emitted /\ u.frames = frames
    BY <2>5, <2>6, <2>7 DEF Machine
  <2> HIDE DEF u
  <2>9. Keeps(t, u)
    BY <2>5, <2>7, <2>8, Quietly
  <2> QED BY <2>2, <2>3, <2>9, KeepsOn
<1> QED BY <1>2, <1>3

-----------------------------------------------------------------------------
(* Scalars: what is rendered is text.                                      *)

\* Pieces of a text are texts.
LEMMA Pieces ==
  ASSUME NEW t \in Text
  PROVE  /\ \A S : DropUntil(t, S) \in Text
         /\ Trim(t) \in Text /\ NoUnderscore(t) \in Text /\ Rolled(t) \in Text
         /\ Quoted(t) \in Text /\ StrTok(t) \in Text /\ Lower(t) \in Text
<1>1. DOMAIN t = 1..Len(t) /\ Len(t) \in Nat
  BY TextIs
<1>2. ASSUME NEW S PROVE DropUntil(t, S) \in Text
  <2> DEFINE kept == {i \in DOMAIN t : t[i] \in S}
  <2>1. CASE kept = {}
    BY <2>1, Tokens DEF DropUntil
  <2>2. CASE kept # {}
    <3>1. kept \in SUBSET (1..Len(t))
      BY <1>1
    <3>2. DropUntil(t, S) = SubSeq(t, FirstOf(kept), Len(t))
      BY <2>2 DEF DropUntil
    <3> HIDE DEF kept
    <3>3. FirstOf(kept) \in 1..Len(t)
      BY <1>1, <2>2, <3>1, Extremes
    <3> QED BY <1>1, <3>2, <3>3, Joins
  <2> QED BY <2>1, <2>2
<1>3. Trim(t) \in Text
  <2> DEFINE kept == {i \in DOMAIN t : t[i] \notin Whitespace}
  <2>1. CASE kept = {}
    BY <2>1, Tokens DEF Trim
  <2>2. CASE kept # {}
    <3>1. kept \in SUBSET (1..Len(t))
      BY <1>1
    <3>2. Trim(t) = SubSeq(t, FirstOf(kept), LastOf(kept))
      BY <2>2 DEF Trim
    <3> HIDE DEF kept
    <3>3. FirstOf(kept) \in 1..Len(t) /\ LastOf(kept) \in 1..Len(t)
      BY <1>1, <2>2, <3>1, Extremes
    <3> QED BY <1>1, <3>2, <3>3, Joins
  <2> QED BY <2>1, <2>2
<1>4. NoUnderscore(t) \in Text
  BY ExceptIs DEF NoUnderscore, Text
<1>5. Rolled(t) \in Text
  <2>1. CASE t = <<>>
    BY <2>1 DEF Rolled
  <2>2. CASE t # <<>>
    <3>1. Len(t) - 1 \in Nat /\ Len(t) - 1 <= Len(t)
      BY <2>2 DEF Text
    <3>2. SubSeq(t, 1, Len(t) - 1) \in Text
      BY <3>1, Joins
    <3> QED BY <3>2 DEF Rolled
  <2> QED BY <2>1, <2>2
<1>6. ASSUME NEW u \in Text PROVE Quoted(u) \in Text
  <2>1. <<"\"">> \in Text
    BY Tokens
  <2>2. <<"\"">> \o u \in Text
    BY <2>1, Joins
  <2>3. (<<"\"">> \o u) \o <<"\"">> \in Text
    BY <2>1, <2>2, Joins
  <2> QED BY <2>3 DEF Quoted
<1>7. StrTok(t) \in Text
  <2> DEFINE u == [i \in DOMAIN t |-> Escaped(t[i])]
  <2>1. u \in [1..Len(t) -> Token]
    BY <1>1, TextIs, Tokens
  <2> HIDE DEF u
  <2>2. u \in Text
    BY <1>1, <2>1 DEF Text
  <2>3. Quoted(u) \in Text
    BY <1>6, <2>2
  <2> QED BY <2>3 DEF StrTok, u
<1>8. Lower(t) \in Text
  <2> DEFINE low(c) == CASE c = "E" -> "e" [] c = "N" -> "n" [] c = "I" -> "i" [] OTHER -> c
             u == [i \in DOMAIN t |-> low(t[i])]
  <2>1. {"e", "n", "i"} \subseteq Token
    BY Tokens
  <2>1a. ASSUME NEW c \in Token PROVE low(c) \in Token
    <3>1. low(c) \in {"e", "n", "i", c}
      OBVIOUS
    <3> HIDE DEF low
    <3> QED BY <2>1, <3>1
  <2>2. Lower(t) = u
    BY DEF Lower
  <2> HIDE DEF low
  <2>3. u \in [1..Len(t) -> Token]
    BY <1>1, <2>1a, TextIs
  <2> HIDE DEF u
  <2>4. u \in Text
    BY <1>1, <2>3 DEF Text
  <2> QED BY <2>2, <2>4
<1> QED BY <1>2, <1>3, <1>4, <1>5, <1>6, <1>7, <1>8

\* Values are rendered as texts.
LEMMA Renderings ==
  ASSUME NEW t \in Text
  PROVE  /\ render_number_value(t) \in Text /\ literal_or_str(t) \in Text
         /\ keyword_or_str(t) \in Text /\ loads_scalar(t) \in Text
         /\ \A b \in BOOLEAN : render_word(t, b) \in Text
<1>1. <<"num">> \in Text /\ <<"lit">> \in Text /\ <<>> \in Text
  BY Tokens
<1>2. \A u \in Text : StrTok(u) \in Text
  BY Pieces
<1>3. render_number_value(t) \in Text
  BY <1>1, <1>2, Pieces DEF render_number_value
<1>4. \A u \in Text : literal_or_str(u) \in Text
  BY <1>1, <1>2 DEF literal_or_str
<1>5. \A u \in Text : keyword_or_str(u) \in Text
  BY <1>1, <1>4 DEF keyword_or_str
<1>6. loads_scalar(t) \in Text
  BY <1>1 DEF loads_scalar
<1>7. DropUntil(t, Alnum) \in Text
  BY Pieces
<1>8. \A b \in BOOLEAN : render_word(t, b) \in Text
  BY <1>4, <1>5, <1>7 DEF render_word
<1> QED BY <1>3, <1>4, <1>5, <1>6, <1>8

\* A number run ends as a key, a value or nothing.
LEMMA FinishKeeps ==
  ASSUME NEW s, Sound(s), NEW text \in Text, NEW key \in BOOLEAN
  PROVE  Keeps(s, finish_number(s, text, key))
<1> DEFINE name == DropUntil(NoUnderscore(text), Alnum)
           t1 == Emit(s, StrTok(name))
           t2 == Emit(s, render_number_value(text))
           u1 == [t1 EXCEPT !.last_key_empty = FALSE, !.pos = "Colon"]
           u2 == [retract_in_flight_member(s) EXCEPT !.pos = "AfterValue"]
           u3 == [t2 EXCEPT !.pos = "AfterValue"]
<1>1. StrTok(name) \in Text /\ render_number_value(text) \in Text
  BY Pieces, Renderings
<1>2. finish_number(s, text, key) \in {drop_dangling_member(s), u1, u2, u3}
  BY DEF finish_number
<1> HIDE DEF name
<1>3. Keeps(s, t1) /\ Keeps(s, t2)
  BY <1>1, EmitKeeps
<1>4. Keeps(s, retract_in_flight_member(s)) /\ Keeps(s, drop_dangling_member(s))
  BY RetractsKeep
<1> HIDE DEF t1, t2
<1>5. u1 \in Like(t1)
  <2>1. t1 \in Machine
    BY <1>3 DEF Keeps, Sound
  <2> QED BY <2>1, Values DEF Machine, Like
<1>6. Keeps(s, u1)
  BY <1>3, <1>5, ThenLike
<1>7. Keeps(s, u2) /\ Keeps(s, u3)
  BY <1>3, <1>4, ThenOne, Values
<1> QED BY <1>2, <1>4, <1>6, <1>7

-----------------------------------------------------------------------------
(* Structure: comments, and the positions inside a frame.                  *)

\* A comment opens, whatever it turns out to be.
LEMMA OpenCommentKeeps ==
  ASSUME NEW s, Sound(s), NEW c
  PROVE  Keeps(s, OpenComment(s, c))
<1> DEFINE stops == {"\n"}
             \cup (IF \E i \in DOMAIN s.frames : s.frames[i].kind = "Arr" THEN {"]"} ELSE {})
             \cup (IF s.pos = "Value" /\ InObject(s) THEN {"}"} ELSE {})
             \cup (IF s.pos \in {"Key", "Colon"} THEN {":"} ELSE {})
           comment == IF c = "#" THEN [kind |-> "Hash", stops |-> stops] ELSE [kind |-> "Slash"]
<1>1. {"\n", "]", "}", ":"} \subseteq Token
  BY DEF Token, Written
<1>2. stops \subseteq {"\n", "]", "}", ":"}
  OBVIOUS
<1>3. stops \in SUBSET Token
  BY <1>1, <1>2
<1>4. OpenComment(s, c) = [s EXCEPT !.comment = comment]
  BY DEF OpenComment, hash_comment
<1> HIDE DEF stops
<1>5. comment \in Comment
  BY <1>3, Values
<1> HIDE DEF comment
<1>6. s \in Machine
  BY Counts
<1>7. [s EXCEPT !.comment = comment] \in Like(s)
  BY <1>5, <1>6, FieldsMove
<1> QED BY <1>4, <1>7, LikeKeeps

\* A comment takes a character, or ends and hands it back.
LEMMA CommentKeeps ==
  ASSUME NEW s, Sound(s), s.comment.kind # "none", NEW c \in Token
  PROVE  Keeps(s, feed_comment(s, c))
<1> DEFINE Ended == [s EXCEPT !.comment = [kind |-> "none"]]
           Other(x) == [s EXCEPT !.comment = x]
<1>1. s \in Machine /\ s.comment \in Comment
  BY Counts, Fields
<1>2. Keeps(s, s) /\ \A x \in Comment : Keeps(s, [s EXCEPT !.comment = x])
  BY <1>1, FieldsMove, LikeKeeps, KeepsItself
<1>3. Keeps(s, Ended)
  BY <1>2, Values
<1>4. <<c>> \in Text
  BY Tokens
<1>5. Keeps(s, Replay(Ended, <<c>>))
  <2> HIDE DEF Ended
  <2> QED BY <1>3, <1>4, ThenOne
<1>6. s.comment.kind \in {"Slash", "Line", "Hash", "Block"}
  BY <1>1 DEF Comment
<1>7. CASE s.comment.kind = "Hash"
  <2>1. feed_comment(s, c) \in {s, Replay(Ended, <<c>>)}
    BY <1>7 DEF feed_comment
  <2> QED BY <1>2, <1>5, <2>1
<1>8. CASE s.comment.kind = "Line"
  <2>1. feed_comment(s, c) \in {s, Ended}
    BY <1>8 DEF feed_comment
  <2> QED BY <1>2, <1>3, <2>1
<1>9. CASE s.comment.kind = "Block"
  <2> DEFINE x == [s.comment EXCEPT !.prev = c]
  <2>1. feed_comment(s, c) \in {Ended, [s EXCEPT !.comment = x]}
    BY <1>9 DEF feed_comment
  <2>2. s.comment \in [kind : {"Block"}, prev : Token]
    BY <1>1, <1>9 DEF Comment
  <2>3. x \in Comment
    BY <2>2 DEF Comment
  <2> HIDE DEF x
  <2> QED BY <1>2, <1>3, <2>1, <2>3
<1>10. CASE s.comment.kind = "Slash"
  <2> DEFINE x == [kind |-> "Line"]
             y == [kind |-> "Block", prev |-> "*"]
  <2>1. feed_comment(s, c) \in {Ended, [s EXCEPT !.comment = x], [s EXCEPT !.comment = y]}
    BY <1>10 DEF feed_comment
  <2>2. "*" \in Token
    BY DEF Token, Written
  <2>3. x \in Comment /\ y \in Comment
    BY <2>2, Values
  <2> HIDE DEF x, y
  <2> QED BY <1>2, <1>3, <2>1, <2>3
<1> QED BY <1>6, <1>7, <1>8, <1>9, <1>10

\* A value begins.
LEMMA ValueBeginsKeeps ==
  ASSUME NEW s, Sound(s), NEW c \in Token
  PROVE  Keeps(s, feed_structure_value(s, c))
<1>1. Keeps(s, s)
  BY KeepsItself
<1>2. \A kind \in Kinds : Keeps(s, open_container(s, kind))
  BY OpenContainerKeeps
<1>3. {"Obj", "Arr", "Paren"} \subseteq Kinds
  BY DEF Kinds
<1>4. Keeps(s, open_string(s, c, FALSE))
  BY OpenStringKeeps
<1>5. <<c>> \in Text
  BY Tokens
<1>6. NumPending(<<c>>, FALSE) \in Pending /\ WordPending(<<c>>, FALSE, FALSE) \in Pending
  BY <1>5, Values
<1>7. /\ Keeps(s, WithPending(s, NumPending(<<c>>, FALSE)))
      /\ Keeps(s, WithPending(s, WordPending(<<c>>, FALSE, FALSE)))
  BY <1>1, <1>6, ThenOne
<1>8. feed_structure_value(s, c) \in
        {open_container(s, "Obj"), open_container(s, "Arr"), open_container(s, "Paren"),
         open_string(s, c, FALSE), WithPending(s, NumPending(<<c>>, FALSE)),
         WithPending(s, WordPending(<<c>>, FALSE, FALSE)), s}
  BY DEF feed_structure_value
<1>9. /\ Keeps(s, open_container(s, "Obj")) /\ Keeps(s, open_container(s, "Arr"))
      /\ Keeps(s, open_container(s, "Paren"))
  BY <1>2, <1>3
<1> QED BY <1>1, <1>4, <1>7, <1>8, <1>9

\* A member begins, and its key or value with it.
LEMMA MemberBeginsKeeps ==
  ASSUME NEW s, Sound(s), NEW c \in Token
  PROVE  /\ Keeps(s, feed_structure_value(begin_common(s), c))
         /\ Keeps(s, open_string(begin_common(s), c, TRUE))
         /\ Keeps(s, WithPending(begin_common(s), WordPending(<<c>>, TRUE, FALSE)))
         /\ Keeps(s, WithPending(begin_common(s), NumPending(<<c>>, TRUE)))
<1> DEFINE t == begin_common(s)
<1>1. Keeps(s, t)
  BY BeginKeeps
<1> HIDE DEF t
<1>2. Sound(t)
  BY <1>1, KeptIsSound
<1>3. Keeps(t, feed_structure_value(t, c)) /\ Keeps(t, open_string(t, c, TRUE))
  BY <1>2, ValueBeginsKeeps, OpenStringKeeps
<1>4. Keeps(s, feed_structure_value(t, c)) /\ Keeps(s, open_string(t, c, TRUE))
  BY <1>1, <1>3, KeepsOn
<1>5. <<c>> \in Text
  BY Tokens
<1>6. NumPending(<<c>>, TRUE) \in Pending /\ WordPending(<<c>>, TRUE, FALSE) \in Pending
  BY <1>5, Values
<1>7. /\ Keeps(s, WithPending(t, WordPending(<<c>>, TRUE, FALSE)))
      /\ Keeps(s, WithPending(t, NumPending(<<c>>, TRUE)))
  BY <1>1, <1>6, ThenOne
<1> QED BY <1>4, <1>7 DEF t

\* Where a key is awaited.
LEMMA KeyPosKeeps ==
  ASSUME NEW s, Sound(s), NEW c \in Token
  PROVE  Keeps(s, KeyPos(s, c))
<1>1. Keeps(s, s) /\ Keeps(s, close_up(s, c)) /\ Keeps(s, mark_body_colon(s))
  BY KeepsItself, CloseKeeps, NotesKeep
<1>2. KeyPos(s, c) \in
        {close_up(s, c), mark_body_colon(s), open_string(begin_common(s), c, TRUE),
         WithPending(begin_common(s), WordPending(<<c>>, TRUE, FALSE)),
         WithPending(begin_common(s), NumPending(<<c>>, TRUE)), s}
  BY DEF KeyPos
<1> QED BY <1>1, <1>2, MemberBeginsKeeps

\* Where a colon is awaited.
LEMMA ColonPosKeeps ==
  ASSUME NEW s, Sound(s), NEW c \in Token
  PROVE  Keeps(s, ColonPos(s, c))
<1> DEFINE t == Emit(s, <<ColonTok>>)
           AtColon == [t EXCEPT !.pos = "MemberValue"]
<1>1. Keeps(s, s) /\ Keeps(s, drop_dangling_member(s))
  BY KeepsItself, RetractsKeep
<1>2. Keeps(s, t)
  BY EmitKeeps, Tokens
<1>3. ColonPos(s, c) \in
        {AtColon, Replay(drop_dangling_member(s), <<c>>), Replay(AtColon, <<c>>), s}
  BY DEF ColonPos
<1> HIDE DEF t
<1>4. Keeps(s, AtColon)
  BY <1>2, ThenOne, Values
<1> HIDE DEF AtColon
<1>5. <<c>> \in Text
  BY Tokens
<1>6. Keeps(s, Replay(drop_dangling_member(s), <<c>>)) /\ Keeps(s, Replay(AtColon, <<c>>))
  BY <1>1, <1>4, <1>5, ThenOne
<1> QED BY <1>1, <1>3, <1>4, <1>6

\* Where a value is awaited.
LEMMA ValuePosKeeps ==
  ASSUME NEW s0, Sound(s0), NEW c \in Token
  PROVE  Keeps(s0, ValuePos(s0, c))
<1> DEFINE healed == s0.pos = "MemberValue" /\ c \in Closers \cup {","}
           s == IF healed THEN [Emit(s0, <<"\"", "\"">>) EXCEPT !.pos = "AfterValue"] ELSE s0
           noted == [note_comma(s) EXCEPT !.garbage_run = TRUE]
<1>1. Keeps(s0, s)
  <2>1. Keeps(s0, Emit(s0, <<"\"", "\"">>))
    BY EmitKeeps, Tokens
  <2>2. Keeps(s0, [Emit(s0, <<"\"", "\"">>) EXCEPT !.pos = "AfterValue"])
    BY <2>1, ThenOne, Values
  <2> QED BY <2>2, KeepsItself
<1>2. ValuePos(s0, c) \in
        {close_up(s, c), noted, note_comma(s), feed_structure_value(s, c),
         feed_structure_value(begin_common(s), c), s}
  BY DEF ValuePos
<1> HIDE DEF s
<1>3. Sound(s)
  BY <1>1, KeptIsSound
<1>4. Keeps(s, s) /\ Keeps(s, close_up(s, c)) /\ Keeps(s, note_comma(s))
  BY <1>3, KeepsItself, CloseKeeps, NotesKeep
<1>5. /\ Keeps(s, feed_structure_value(s, c))
      /\ Keeps(s, feed_structure_value(begin_common(s), c))
  BY <1>3, ValueBeginsKeeps, MemberBeginsKeeps
<1>6. Keeps(s, noted)
  <2>1. note_comma(s) \in Machine
    BY <1>4 DEF Keeps, Sound
  <2>2. noted \in Like(note_comma(s))
    BY <2>1, FieldsMove
  <2> HIDE DEF noted
  <2> QED BY <1>3, <1>4, <2>2, ThenLike
<1> HIDE DEF noted
<1>7. Keeps(s, ValuePos(s0, c))
  BY <1>2, <1>4, <1>5, <1>6
<1> QED BY <1>1, <1>7, KeepsOn

\* Behind a value.
LEMMA AfterValuePosKeeps ==
  ASSUME NEW s, Sound(s), NEW c \in Token
  PROVE  Keeps(s, AfterValuePos(s, c))
<1> DEFINE pos == IF InObject(s) THEN "Key" ELSE "Value"
           t == [note_comma(s) EXCEPT !.pos = pos]
<1>1. Keeps(s, s) /\ Keeps(s, close_up(s, c)) /\ Keeps(s, note_comma(s))
  BY KeepsItself, CloseKeeps, NotesKeep
<1>2. pos \in Positions
  BY Values
<1>3. AfterValuePos(s, c) \in
        {t, close_up(s, c), open_string(begin_common(s), c, TRUE),
         WithPending(begin_common(s), WordPending(<<c>>, TRUE, FALSE)),
         WithPending(begin_common(s), NumPending(<<c>>, TRUE)),
         feed_structure_value(begin_common(s), c), s}
  BY DEF AfterValuePos
<1> HIDE DEF pos
<1>4. Keeps(s, t)
  BY <1>1, <1>2, ThenOne
<1> HIDE DEF t
<1> QED BY <1>1, <1>3, <1>4, MemberBeginsKeeps

\* A character inside a container.
LEMMA StructureKeeps ==
  ASSUME NEW s, Sound(s), NEW c \in Token
  PROVE  Keeps(s, feed_structure(s, c))
<1>1. feed_structure(s, c) \in
        {s, OpenComment(s, c), KeyPos(s, c), ColonPos(s, c), AfterValuePos(s, c), ValuePos(s, c)}
  BY DEF feed_structure
<1>2. /\ Keeps(s, s) /\ Keeps(s, OpenComment(s, c)) /\ Keeps(s, KeyPos(s, c))
      /\ Keeps(s, ColonPos(s, c)) /\ Keeps(s, AfterValuePos(s, c)) /\ Keeps(s, ValuePos(s, c))
  BY KeepsItself, OpenCommentKeeps, KeyPosKeeps, ColonPosKeeps, AfterValuePosKeeps, ValuePosKeeps
<1> QED BY <1>1, <1>2

-----------------------------------------------------------------------------
(* The top level and the pending tokens.                                   *)

\* Prose: the text is no longer clean, and a bracket is read again.
LEMMA ProseKeeps ==
  ASSUME NEW s, Sound(s), NEW t, Keeps(s, t), NEW c \in Token
  PROVE  Keeps(s, [t EXCEPT !.top_clean = FALSE]) /\ Keeps(s, Prose(t, c))
<1> DEFINE u == [t EXCEPT !.top_clean = FALSE]
<1>1. t \in Machine
  BY DEF Keeps, Sound
<1>2. u \in Like(t)
  BY <1>1, FieldsMove
<1>3. Prose(t, c) \in {u, Replay(u, <<c>>)}
  BY DEF Prose
<1> HIDE DEF u
<1>4. Keeps(s, u)
  BY <1>2, ThenLike
<1>5. <<c>> \in Text
  BY Tokens
<1>6. Keeps(s, Replay(u, <<c>>))
  BY <1>4, <1>5, ThenOne
<1>7. Keeps(s, u) /\ Keeps(s, Prose(t, c))
  BY <1>3, <1>4, <1>6
<1> QED BY <1>7 DEF u

\* A character at the top level.
LEMMA TopKeeps ==
  ASSUME NEW s, Sound(s), NEW c \in Token
  PROVE  Keeps(s, feed_top(s, c))
<1> DEFINE gate == [kind |-> "FirstChar", buf |-> <<>>]
           str  == [kind |-> "TopStr", buf |-> <<"\"">>, delim |-> c, done |-> FALSE]
           num  == [kind |-> "TopNum", text |-> <<c>>, done |-> FALSE]
           word == [kind |-> "TopWord", text |-> <<c>>, done |-> FALSE]
<1>1. /\ Keeps(s, s) /\ Keeps(s, OpenComment(s, c)) /\ Keeps(s, feed_structure_value(s, c))
  BY KeepsItself, OpenCommentKeeps, ValueBeginsKeeps
<1>2. Keeps(s, [s EXCEPT !.top_clean = FALSE])
  BY <1>1, ProseKeeps
<1>3. <<c>> \in Text /\ <<"\"">> \in Text /\ <<>> \in Text
  BY Tokens
<1>4. str \in Pending /\ num \in Pending /\ word \in Pending
  BY <1>3 DEF Pending, StrSet, TopSet
<1>5. gate \in Gate
  BY <1>3, Values
<1>6. feed_top(s, c) \in
        {OpenComment(s, c), s, feed_structure_value(s, c), [s EXCEPT !.paren_gate = gate],
         WithPending(s, str), WithPending(s, num), WithPending(s, word),
         [s EXCEPT !.top_clean = FALSE]}
  BY DEF feed_top
<1> HIDE DEF gate, str, num, word
<1>7. Keeps(s, [s EXCEPT !.paren_gate = gate])
  <2>1. s \in Machine
    BY Counts
  <2>2. [s EXCEPT !.paren_gate = gate] \in Like(s)
    BY <1>5, <2>1, FieldsMove
  <2> QED BY <2>2, LikeKeeps
<1>8. Keeps(s, WithPending(s, str)) /\ Keeps(s, WithPending(s, num)) /\ Keeps(s, WithPending(s, word))
  BY <1>1, <1>4, ThenOne
<1> QED BY <1>1, <1>2, <1>6, <1>7, <1>8

\* The pending token by its kind.
LEMMA PendingKinds ==
  ASSUME NEW p \in Pending
  PROVE  /\ p.kind \in {"none", "Num", "Word", "TopNum", "TopWord", "TopStr"}
         /\ p.kind = "Num" => p \in NumSet
         /\ p.kind = "Word" => p \in WordSet
         /\ p.kind \in {"TopNum", "TopWord"} => p \in TopSet
         /\ p.kind = "TopStr" => p \in StrSet
<1>1. p = NoPending \/ p \in NumSet \/ p \in WordSet \/ p \in TopSet \/ p \in StrSet
  BY DEF Pending
<1>2. NoPending.kind = "none"
  BY DEF NoPending
<1>3. /\ p \in NumSet => p.kind = "Num"
      /\ p \in WordSet => p.kind = "Word"
      /\ p \in TopSet => p.kind \in {"TopNum", "TopWord"}
      /\ p \in StrSet => p.kind = "TopStr"
  BY DEF NumSet, WordSet, TopSet, StrSet
<1> QED BY <1>1, <1>2, <1>3

\* A character of a provisional scalar at the top level.
LEMMA TopPendingKeeps ==
  ASSUME NEW s, Sound(s), s.pending.kind \in {"TopNum", "TopWord", "TopStr"}, NEW c \in Token
  PROVE  Keeps(s, feed_top_pending(s, c))
<1> DEFINE p     == s.pending
           none  == [s EXCEPT !.pending = NoPending]
           lost  == Prose(none, c)
           ended == [p EXCEPT !.done = TRUE]
           Put1(x) == [s EXCEPT !.pending = x]
           grown == [p EXCEPT !.text = Append(@, c)]
           shut  == [p EXCEPT !.buf = Append(@, "\""), !.done = TRUE]
           more  == [p EXCEPT !.buf = Append(@, Escaped(c))]
           over  == [s EXCEPT !.top_clean = FALSE, !.pending = NoPending]
<1>1. s \in Machine /\ p \in Pending /\ Keeps(s, s)
  BY Counts, Fields, KeepsItself
<1>2. p \in TopSet \/ p \in StrSet
  BY <1>1, PendingKinds
<1>3. \A x \in Pending : Keeps(s, [s EXCEPT !.pending = x])
  BY <1>1, ThenOne DEF WithPending
<1>4. Keeps(s, none)
  BY <1>3, Values
<1>5. Keeps(s, lost)
  <2> HIDE DEF none
  <2> QED BY <1>4, ProseKeeps
<1>6. Keeps(s, over)
  <2>1. over \in Like(s)
    BY <1>1, Values DEF Machine, Like
  <2> HIDE DEF over
  <2> QED BY <2>1, LikeKeeps
<1>7. ended \in Pending
  BY <1>2 DEF Pending, TopSet, StrSet
<1>8. p \in TopSet => grown \in Pending
  <2> SUFFICES ASSUME p \in TopSet PROVE grown \in Pending
    OBVIOUS
  <2>1. p.text \in Text
    BY DEF TopSet
  <2>2. Append(p.text, c) \in Text
    BY <2>1, Joins
  <2>3. grown \in TopSet
    BY <2>2 DEF TopSet
  <2> QED BY <2>3 DEF Pending
<1>9. p \in StrSet => shut \in Pending /\ more \in Pending
  <2> SUFFICES ASSUME p \in StrSet PROVE shut \in Pending /\ more \in Pending
    OBVIOUS
  <2>1. p.buf \in Text
    BY DEF StrSet
  <2>2. "\"" \in Token /\ Escaped(c) \in Token
    BY Tokens
  <2>3. Append(p.buf, "\"") \in Text /\ Append(p.buf, Escaped(c)) \in Text
    BY <2>1, <2>2, Joins
  <2>4. shut \in StrSet /\ more \in StrSet
    BY <2>3 DEF StrSet
  <2> QED BY <2>4 DEF Pending
<1>10. TopRun(s, c) \in {over, Put1(grown)}
  BY DEF TopRun
<1>11. CASE p \in TopSet
  <2>1. p.kind \in {"TopNum", "TopWord"}
    BY <1>11 DEF TopSet
  <2>2. feed_top_pending(s, c) \in {Put1(ended), TopRun(s, c), lost}
    BY <2>1 DEF feed_top_pending
  <2>3. grown \in Pending
    BY <1>8, <1>11
  <2> HIDE DEF p, grown, ended, lost, over
  <2>4. Keeps(s, Put1(grown)) /\ Keeps(s, Put1(ended))
    BY <1>3, <1>7, <2>3
  <2> QED BY <1>5, <1>6, <1>10, <2>2, <2>4
<1>12. CASE p \in StrSet
  <2>1. p.kind = "TopStr"
    BY <1>12 DEF StrSet
  <2>2. feed_top_pending(s, c) \in {Put1(ended), Put1(shut), Put1(more), lost}
    BY <2>1 DEF feed_top_pending
  <2>3. shut \in Pending /\ more \in Pending
    BY <1>9, <1>12
  <2> HIDE DEF p, shut, more, ended, lost
  <2>4. Keeps(s, Put1(shut)) /\ Keeps(s, Put1(more)) /\ Keeps(s, Put1(ended))
    BY <1>3, <1>7, <2>3
  <2> QED BY <1>5, <2>2, <2>4
<1> QED BY <1>2, <1>11, <1>12

\* A character of a number run.
LEMMA NumberKeeps ==
  ASSUME NEW s, Sound(s), s.pending.kind = "Num", NEW c \in Token
  PROVE  Keeps(s, feed_number(s, c))
<1> DEFINE p    == s.pending
           more == Append(p.text, c)
           run  == IF p.key THEN p.text ELSE Rolled(p.text)
           back == SubSeq(p.text, Len(run) + 1, Len(p.text))
           idle == [s EXCEPT !.pending = NoPending]
           gone == [retract_in_flight_member(idle) EXCEPT !.pos = "AfterValue"]
           rest == IF run = <<>> THEN <<c>> ELSE Append(back, c)
<1>1. s \in Machine /\ p \in Pending /\ Keeps(s, s)
  BY Counts, Fields, KeepsItself
<1>2. p \in NumSet
  BY <1>1, PendingKinds
<1>3. p.text \in Text /\ p.key \in BOOLEAN
  BY <1>2 DEF NumSet
<1>4. Keeps(s, idle)
  BY <1>1, ThenOne, Values DEF WithPending
<1>5. more \in Text /\ run \in Text
  BY <1>3, Joins, Pieces
<1>6. rest \in Text
  <2> HIDE DEF run
  <2>1. Len(run) \in Nat /\ Len(p.text) \in Nat
    BY <1>3, <1>5, TextIs
  <2>2. back \in Text
    BY <1>3, <2>1, Joins
  <2> HIDE DEF back
  <2>3. Append(back, c) \in Text /\ <<c>> \in Text
    BY <2>2, Joins, Tokens
  <2> QED BY <2>3
<1>7. feed_number(s, c) \in
        {WithPending(s, NumPending(more, p.key)), WithPending(s, WordPending(p.text, TRUE, TRUE)),
         WithPending(s, WordPending(more, TRUE, TRUE)), WithPending(s, NumPending(more, FALSE)),
         WithPending(s, WordPending(more, FALSE, TRUE)), Replay(gone, <<c>>),
         Replay(finish_number(idle, run, p.key), rest)}
  BY DEF feed_number
<1> HIDE DEF p, more, run, rest, idle
<1>8. Sound(idle)
  BY <1>4, KeptIsSound
<1>9. Keeps(s, retract_in_flight_member(idle))
  BY <1>4, <1>8, RetractsKeep, KeepsOn
<1>10. Keeps(s, gone)
  BY <1>9, ThenOne, Values
<1> HIDE DEF gone
<1>11. Keeps(idle, finish_number(idle, run, p.key))
  BY <1>3, <1>5, <1>8, FinishKeeps
<1>12. Keeps(s, finish_number(idle, run, p.key))
  BY <1>4, <1>11, KeepsOn
<1>13. <<c>> \in Text
  BY Tokens
<1>14. Keeps(s, Replay(gone, <<c>>)) /\ Keeps(s, Replay(finish_number(idle, run, p.key), rest))
  BY <1>6, <1>10, <1>12, <1>13, ThenOne
<1>15. /\ NumPending(more, p.key) \in Pending /\ WordPending(p.text, TRUE, TRUE) \in Pending
       /\ WordPending(more, TRUE, TRUE) \in Pending /\ NumPending(more, FALSE) \in Pending
       /\ WordPending(more, FALSE, TRUE) \in Pending
  BY <1>3, <1>5, Values
<1>16. /\ Keeps(s, WithPending(s, NumPending(more, p.key)))
       /\ Keeps(s, WithPending(s, WordPending(p.text, TRUE, TRUE)))
       /\ Keeps(s, WithPending(s, WordPending(more, TRUE, TRUE)))
       /\ Keeps(s, WithPending(s, NumPending(more, FALSE)))
       /\ Keeps(s, WithPending(s, WordPending(more, FALSE, TRUE)))
  BY <1>1, <1>15, ThenOne
<1> QED BY <1>7, <1>14, <1>16

\* A key is written with its colon.
LEMMA CommitKeyKeeps ==
  ASSUME NEW s, Sound(s), NEW name \in Text
  PROVE  /\ Keeps(s, CommitKey(s, name))
         /\ Keeps(s, [CommitKey(s, name) EXCEPT !.last_key_empty = FALSE])
<1> DEFINE toks == StrTok(name) \o <<ColonTok>>
           t == Emit(s, toks)
           u == [t EXCEPT !.pos = "MemberValue", !.pending = NoPending]
           v == [u EXCEPT !.last_key_empty = FALSE]
<1>1. StrTok(name) \in Text /\ <<ColonTok>> \in Text
  BY Pieces, Tokens
<1>2. toks \in Text
  BY <1>1, Joins
<1>3. CommitKey(s, name) = u
  BY DEF CommitKey
<1> HIDE DEF toks
<1>4. Keeps(s, t)
  BY <1>2, EmitKeeps
<1> HIDE DEF t
<1>5. t \in Machine
  BY <1>4 DEF Keeps, Sound
<1>6. u \in Like(t)
  BY <1>5, Values DEF Machine, Like
<1> HIDE DEF u
<1>7. Keeps(s, u)
  BY <1>4, <1>6, ThenLike
<1>8. u \in Machine
  BY <1>7 DEF Keeps, Sound
<1>9. v \in Like(u)
  BY <1>8, FieldsMove
<1>10. Keeps(s, v)
  <2> HIDE DEF v
  <2> QED BY <1>7, <1>9, ThenLike
<1> QED BY <1>3, <1>7, <1>10

\* A character of an unquoted key.
LEMMA KeyWordKeeps ==
  ASSUME NEW s, Sound(s), s.pending.kind = "Word", NEW c \in Token
  PROVE  Keeps(s, key_word(s, c))
<1> DEFINE p    == s.pending
           idle == [s EXCEPT !.pending = NoPending]
           name == KeyName(p.text)
           more == [p EXCEPT !.text = Append(@, c)]
           keep == WithPending(s, more)
           drop == Replay(drop_dangling_member(idle), <<c>>)
           committed == [CommitKey(s, name) EXCEPT !.last_key_empty = FALSE]
<1>1. s \in Machine /\ p \in Pending /\ Keeps(s, s)
  BY Counts, Fields, KeepsItself
<1>2. p \in WordSet
  BY <1>1, PendingKinds
<1>3. p.text \in Text
  BY <1>2 DEF WordSet
<1>4. name \in Text /\ Append(p.text, c) \in Text
  BY <1>3, Pieces, Joins DEF KeyName
<1>5. more \in WordSet
  BY <1>2, <1>4 DEF WordSet
<1>6. more \in Pending
  BY <1>5 DEF Pending
<1>7. key_word(s, c) \in {drop, committed, CommitKey(s, name), keep}
  BY DEF key_word
<1>8. Keeps(s, idle)
  BY <1>1, ThenOne, Values DEF WithPending
<1> HIDE DEF idle, more, name
<1>9. Keeps(s, keep)
  BY <1>1, <1>6, ThenOne
<1>10. Keeps(s, drop)
  <2>1. Sound(idle)
    BY <1>8, KeptIsSound
  <2>2. Keeps(s, drop_dangling_member(idle))
    BY <1>8, <2>1, RetractsKeep, KeepsOn
  <2>3. <<c>> \in Text
    BY Tokens
  <2> QED BY <2>2, <2>3, ThenOne
<1>11. Keeps(s, committed) /\ Keeps(s, CommitKey(s, name))
  BY <1>4, CommitKeyKeeps
<1> QED BY <1>7, <1>9, <1>10, <1>11

\* A character of an unquoted value.
LEMMA ValueWordKeeps ==
  ASSUME NEW s, Sound(s), s.pending.kind = "Word", NEW c \in Token
  PROVE  Keeps(s, value_word(s, c))
<1> DEFINE p    == s.pending
           idle == [s EXCEPT !.pending = NoPending]
           w    == Trim(p.text)
           commas == GluedComma(p)
           i    == FirstOf(commas)
           head == render_word(Trim(SubSeq(p.text, 1, i - 1)), TRUE)
           rest == Trim(SubSeq(p.text, i + 1, Len(p.text)))
           t    == begin_common(Emit(idle, head))
           split == Replay(WithPending(t, WordPending(rest, TRUE, FALSE)), <<c>>)
           valued == [Emit(idle, render_word(w, p.born)) EXCEPT !.pos = "AfterValue"]
           literal == [Emit(idle, keyword_or_str(w)) EXCEPT !.pos = "AfterValue"]
           more == [p EXCEPT !.text = Append(@, c)]
<1>1. s \in Machine /\ p \in Pending /\ Keeps(s, s)
  BY Counts, Fields, KeepsItself
<1>2. p \in WordSet
  BY <1>1, PendingKinds
<1>3. p.text \in Text /\ p.born \in BOOLEAN
  BY <1>2 DEF WordSet
<1>4. w \in Text /\ Append(p.text, c) \in Text
  BY <1>3, Pieces, Joins
<1>5. more \in WordSet
  BY <1>2, <1>4 DEF WordSet
<1>6. more \in Pending
  BY <1>5 DEF Pending
<1>7. \/ value_word(s, c) = split /\ commas # {}
      \/ value_word(s, c) \in
           {Replay(valued, <<c>>), Replay(literal, <<c>>), WithPending(s, more)}
  BY DEF value_word
<1>8. Keeps(s, idle)
  BY <1>1, ThenOne, Values DEF WithPending
<1>9. <<c>> \in Text
  BY Tokens
<1>10. Sound(idle)
  <2> HIDE DEF idle
  <2> QED BY <1>8, KeptIsSound
<1>11. \A toks \in Text : Keeps(s, Emit(idle, toks))
  <2> HIDE DEF idle
  <2> TAKE toks \in Text
  <2>1. Keeps(idle, Emit(idle, toks))
    BY <1>10, EmitKeeps
  <2> QED BY <1>8, <2>1, KeepsOn
<1>12. render_word(w, p.born) \in Text /\ keyword_or_str(w) \in Text
  BY <1>3, <1>4, Renderings
<1> HIDE DEF idle
<1>13. Keeps(s, valued) /\ Keeps(s, literal)
  <2>1. Keeps(s, Emit(idle, render_word(w, p.born))) /\ Keeps(s, Emit(idle, keyword_or_str(w)))
    BY <1>11, <1>12
  <2> QED BY <2>1, ThenOne, Values
<1>14. CASE value_word(s, c) \in
              {Replay(valued, <<c>>), Replay(literal, <<c>>), WithPending(s, more)}
  <2> HIDE DEF valued, literal, more
  <2>1. /\ Keeps(s, Replay(valued, <<c>>)) /\ Keeps(s, Replay(literal, <<c>>))
        /\ Keeps(s, WithPending(s, more))
    BY <1>1, <1>6, <1>9, <1>13, ThenOne
  <2> QED BY <1>14, <2>1
<1>15. CASE value_word(s, c) = split /\ commas # {}
  <2>1. Len(p.text) \in Nat /\ DOMAIN p.text = 1..Len(p.text)
    BY <1>3, TextIs
  <2>2. commas \in SUBSET (1..Len(p.text))
    BY <2>1 DEF GluedComma
  <2> HIDE DEF commas
  <2>3. i \in 1..Len(p.text)
    BY <1>15, <2>1, <2>2, Extremes
  <2> HIDE DEF i, p
  <2>4. i - 1 \in Nat /\ i - 1 <= Len(p.text) /\ i + 1 \in Nat \ {0}
    BY <2>1, <2>3
  <2>5. SubSeq(p.text, 1, i - 1) \in Text /\ SubSeq(p.text, i + 1, Len(p.text)) \in Text
    BY <1>3, <2>1, <2>4, Joins
  <2>6. Trim(SubSeq(p.text, 1, i - 1)) \in Text /\ rest \in Text
    BY <2>5, Pieces
  <2>7. head \in Text
    BY <2>6, Renderings
  <2> HIDE DEF head, rest
  <2>8. Keeps(s, Emit(idle, head))
    BY <1>11, <2>7
  <2>9. Sound(Emit(idle, head))
    BY <2>8, KeptIsSound
  <2>10. Keeps(Emit(idle, head), t)
    BY <2>9, BeginKeeps
  <2>11. Keeps(s, t)
    BY <2>8, <2>10, KeepsOn
  <2> HIDE DEF t
  <2>12. WordPending(rest, TRUE, FALSE) \in Pending
    BY <2>6, Values
  <2>13. Keeps(s, WithPending(t, WordPending(rest, TRUE, FALSE)))
    BY <2>11, <2>12, ThenOne
  <2>14. Keeps(s, split)
    BY <1>9, <2>13, ThenOne
  <2> QED BY <1>15, <2>14
<1> QED BY <1>7, <1>14, <1>15

\* A character of whatever token is pending.
LEMMA PendingKeeps ==
  ASSUME NEW s, Sound(s), s.pending.kind # "none", NEW c \in Token
  PROVE  Keeps(s, feed_pending(s, c))
<1>1. s.pending \in Pending
  BY Counts, Fields
<1>2. s.pending.kind \in {"Num", "Word", "TopNum", "TopWord", "TopStr"}
  BY <1>1, PendingKinds
<1>3. CASE s.pending.kind = "Num"
  BY <1>3, NumberKeeps DEF feed_pending
<1>4. CASE s.pending.kind = "Word"
  BY <1>4, KeyWordKeeps, ValueWordKeeps DEF feed_pending
<1>5. CASE s.pending.kind \in {"TopNum", "TopWord", "TopStr"}
  BY <1>5, TopPendingKeeps DEF feed_pending
<1> QED BY <1>2, <1>3, <1>4, <1>5

-----------------------------------------------------------------------------
(* One entry of process.                                                   *)

\* A character of a string.
LEMMA StringKeeps ==
  ASSUME NEW s0, Sound(s0), NEW c \in Token
  PROVE  Keeps(s0, feed_string(s0, c))
<1> DEFINE s  == [s0 EXCEPT !.string_raw_tail = c]
           u  == [s EXCEPT !.string = [open |-> FALSE]]
           t  == Emit(u, <<"\"">>)
           empty == s.last_string_start = Len(t.out) - 1
           t1 == [t EXCEPT !.pos = "Colon", !.last_key_empty = empty]
           t2 == [t EXCEPT !.pos = "AfterValue"]
           t3 == IF s.string.is_key THEN t1 ELSE t2
<1>1. s0 \in Machine
  BY Counts
<1>2. s \in Like(s0)
  BY <1>1, FieldsMove
<1>3. feed_string(s0, c) \in {Emit(s, <<Escaped(c)>>), arm_empty_pending(t3, FALSE)}
  BY DEF feed_string
<1> HIDE DEF s
<1>4. Keeps(s0, s) /\ Sound(s) /\ s \in Machine
  BY <1>2, LikeKeeps, KeptIsSound DEF Like
<1>5. Keeps(s0, Emit(s, <<Escaped(c)>>))
  <2>1. <<Escaped(c)>> \in Text
    BY Tokens
  <2>2. Keeps(s, Emit(s, <<Escaped(c)>>))
    BY <1>4, <2>1, EmitKeeps
  <2> QED BY <1>4, <2>2, KeepsOn
<1>6. u \in Like(s)
  BY <1>4, FieldsMove, Values
<1> HIDE DEF u
<1>7. Keeps(s0, u) /\ Sound(u)
  BY <1>4, <1>6, ThenLike, KeptIsSound
<1>8. Keeps(u, t)
  BY <1>7, EmitKeeps, Tokens
<1>9. Keeps(s0, t)
  BY <1>7, <1>8, KeepsOn
<1>10. empty \in BOOLEAN
  OBVIOUS
<1> HIDE DEF t, empty
<1>11. t \in Machine
  BY <1>9 DEF Keeps, Sound
<1>12. t1 \in Like(t) /\ t2 \in Like(t)
  BY <1>10, <1>11, Values DEF Machine, Like
<1>13. t3 \in Like(t)
  BY <1>12
<1> HIDE DEF t3
<1>14. Keeps(s0, t3) /\ Sound(t3)
  BY <1>9, <1>13, ThenLike, KeptIsSound
<1>15. Keeps(t3, arm_empty_pending(t3, FALSE))
  BY <1>14, ArmKeeps
<1>16. Keeps(s0, arm_empty_pending(t3, FALSE))
  BY <1>14, <1>15, KeepsOn
<1> QED BY <1>3, <1>5, <1>16

\* The machine once a character is counted.
Counted(s, c) ==
  LET Count(f) == IF f.kind # "Obj" THEN f
                  ELSE [f EXCEPT !.chars = Capped(@),
                                 !.nonspace = IF c \in Whitespace THEN @ ELSE Capped(@)]
  IN  [s EXCEPT !.garbage_run = FALSE, !.frames = [i \in DOMAIN @ |-> Count(@[i])]]

\* Its frames are frames, in the same places.
CountsFrames(s, t, frames) ==
  /\ t = [s EXCEPT !.garbage_run = FALSE, !.frames = frames]
  /\ frames \in Seq(Frame) /\ Len(frames) = Len(s.frames)
  /\ \A i \in 1..Len(s.frames) :
       /\ frames[i].kind = s.frames[i].kind /\ frames[i].brace = s.frames[i].brace
       /\ frames[i].start = s.frames[i].start /\ frames[i].begun = s.frames[i].begun

LEMMA CountedIs ==
  ASSUME NEW s \in Machine, NEW c
  PROVE  \E frames : CountsFrames(s, Counted(s, c), frames)
<1> DEFINE Count(f) == IF f.kind # "Obj" THEN f
                       ELSE [f EXCEPT !.chars = Capped(@),
                                      !.nonspace = IF c \in Whitespace THEN @ ELSE Capped(@)]
           frames == [i \in DOMAIN s.frames |-> Count(s.frames[i])]
<1>1. s.frames \in Seq(Frame)
  BY Fields
<1>2. Counted(s, c) = [s EXCEPT !.garbage_run = FALSE, !.frames = frames]
  BY DEF Counted
<1>3. ASSUME NEW f \in Frame
      PROVE  /\ Count(f) \in Frame
             /\ Count(f).kind = f.kind /\ Count(f).brace = f.brace
             /\ Count(f).start = f.start /\ Count(f).begun = f.begun
  <2>1. f.chars \in 0..2 /\ f.nonspace \in 0..2
    BY FrameFields
  <2>2. Capped(f.chars) \in 0..2 /\ Capped(f.nonspace) \in 0..2
    BY <2>1 DEF Capped, LessOf
  <2> QED BY <2>1, <2>2 DEF Frame
<1>4. /\ frames \in Seq(Frame) /\ Len(frames) = Len(s.frames)
      /\ \A i \in 1..Len(s.frames) :
           /\ frames[i].kind = s.frames[i].kind /\ frames[i].brace = s.frames[i].brace
           /\ frames[i].start = s.frames[i].start /\ frames[i].begun = s.frames[i].begun
  <2>1. DOMAIN s.frames = 1..Len(s.frames) /\ Len(s.frames) \in Nat
    BY <1>1
  <2>2. \A i \in DOMAIN s.frames : s.frames[i] \in Frame
    BY <1>1, <2>1
  <2> HIDE DEF Count
  <2>3. frames \in [1..Len(s.frames) -> Frame]
    BY <1>3, <2>1, <2>2
  <2>4. \A i \in 1..Len(s.frames) : frames[i] = Count(s.frames[i])
    BY <2>1
  <2> HIDE DEF frames
  <2>5. frames \in Seq(Frame) /\ Len(frames) = Len(s.frames)
    BY <2>1, <2>3
  <2> QED BY <1>3, <2>1, <2>2, <2>4, <2>5
<1> HIDE DEF frames
<1>5. CountsFrames(s, Counted(s, c), frames)
  BY <1>2, <1>4 DEF CountsFrames
<1> QED BY <1>5

\* What a character inside the machine may come to, counted as s, or behind a run as over.
InnerOf(s0, s, over, t, c) ==
  \/ t = s0
  \/ s0.garbage_run /\ t = pop_frame(over)
  \/ s.comment.kind # "none" /\ t = feed_comment(s, c)
  \/ s.comment.kind = "none" /\ s.string.open /\ t = feed_string(s, c)
  \/ /\ s.comment.kind = "none" /\ ~s.string.open
     /\ \/ s.pending.kind # "none" /\ t = feed_pending(s, c)
        \/ s.pending.kind = "none" /\ s.frames = <<>> /\ t = feed_top(s, c)
        \/ s.pending.kind = "none" /\ s.frames # <<>> /\ t = feed_structure(s, c)

LEMMA InnerIs ==
  ASSUME NEW s0, NEW c
  PROVE  InnerOf(s0, Counted(s0, c), [s0 EXCEPT !.garbage_run = FALSE], process_inner(s0, c), c)
BY DEF process_inner, Counted, InnerOf

\* A character inside the machine: counted, then dispatched.
LEMMA InnerKeeps ==
  ASSUME NEW s0, Sound(s0), NEW c \in Token
  PROVE  Keeps(s0, process_inner(s0, c))
<1> DEFINE over == [s0 EXCEPT !.garbage_run = FALSE]
           s == Counted(s0, c)
<1>1. s0 \in Machine /\ Keeps(s0, s0) /\ s0.frames \in Seq(Frame) /\ Len(s0.frames) <= MAX_NESTING
  BY Counts, KeepsItself
<1>2. over \in Like(s0)
  BY <1>1, FieldsMove
<1>3. InnerOf(s0, s, over, process_inner(s0, c), c)
  BY InnerIs
<1>4. Keeps(s0, pop_frame(over))
  <2> HIDE DEF over
  <2>1. Keeps(s0, over) /\ Sound(over)
    BY <1>2, LikeKeeps, KeptIsSound
  <2>2. Keeps(over, pop_frame(over))
    BY <2>1, PopKeeps
  <2> QED BY <2>1, <2>2, KeepsOn
<1>5. PICK frames : CountsFrames(s0, s, frames)
  BY <1>1, CountedIs
<1> HIDE DEF s, over
<1>6. s \in Machine /\ s.out = s0.out /\ s.emitted = s0.emitted /\ s.frames = frames
  BY <1>1, <1>5 DEF Machine, CountsFrames
<1>7. Keeps(s0, s) /\ Sound(s)
  BY <1>1, <1>5, <1>6, Quietly, KeptIsSound DEF CountsFrames
<1>8. /\ s.comment.kind # "none" => Keeps(s, feed_comment(s, c))
      /\ Keeps(s, feed_string(s, c))
      /\ s.pending.kind # "none" => Keeps(s, feed_pending(s, c))
      /\ Keeps(s, feed_top(s, c)) /\ Keeps(s, feed_structure(s, c))
  BY <1>7, CommentKeeps, StringKeeps, PendingKeeps, TopKeeps, StructureKeeps
<1>9. CASE process_inner(s0, c) \in {pop_frame(over), s0}
  BY <1>1, <1>4, <1>9
<1>10. CASE Keeps(s, process_inner(s0, c))
  BY <1>7, <1>10, KeepsOn
<1>11. process_inner(s0, c) \in {pop_frame(over), s0} \/ Keeps(s, process_inner(s0, c))
  BY <1>3, <1>8 DEF InnerOf
<1> QED BY <1>9, <1>10, <1>11

\* Behind the dispatch the look-back settles.
LEMMA SettleKeeps ==
  ASSUME NEW s, Sound(s), NEW t, Keeps(s, t), NEW c
  PROVE  Keeps(s, Settle(t, c))
<1> DEFINE ws == c \in Whitespace
<1>1. t \in Machine
  BY DEF Keeps, Sound
<1>2. ws \in BOOLEAN
  OBVIOUS
<1>3. Settle(t, c) \in {t, [t EXCEPT !.prev_char_ws = ws]}
  BY DEF Settle
<1> HIDE DEF ws
<1>4. [t EXCEPT !.prev_char_ws = ws] \in Like(t)
  BY <1>1, <1>2, FieldsMove
<1>5. Keeps(s, [t EXCEPT !.prev_char_ws = ws])
  BY <1>4, ThenLike
<1> QED BY <1>3, <1>5

\* The first characters behind a top-level paren decide what it is.
LEMMA FirstCharKeeps ==
  ASSUME NEW s0, Sound(s0), s0.paren_gate.kind = "FirstChar", NEW c \in Token
  PROVE  Keeps(s0, paren_gate_first_char(s0, c))
<1> DEFINE s    == [s0 EXCEPT !.paren_gate = [kind |-> "none"]]
           buf  == Append(s0.paren_gate.buf, c)
           gate == [kind |-> "FirstChar", buf |-> buf]
           hold == [s EXCEPT !.paren_gate = gate]
           unclean == [s EXCEPT !.top_clean = FALSE]
           group   == open_container(s, "Paren")
<1>1. s0 \in Machine /\ s0.paren_gate \in Gate
  BY Counts, Fields
<1>2. s0.paren_gate.buf \in Text
  BY <1>1 DEF Gate
<1>3. buf \in Text /\ <<c>> \in Text
  BY <1>2, Joins, Tokens
<1>4. paren_gate_first_char(s0, c) \in
        {hold, Replay(group, buf), Replay(group, <<c>>), Replay(unclean, buf), Replay(unclean, <<c>>)}
  BY DEF paren_gate_first_char
<1>5. s \in Like(s0)
  BY <1>1, FieldsMove, Values
<1> HIDE DEF s, buf
<1>6. Keeps(s0, s) /\ Sound(s) /\ s \in Machine
  BY <1>5, LikeKeeps, KeptIsSound DEF Like
<1>7. gate \in Gate
  BY <1>3, Values
<1> HIDE DEF gate
<1>8. hold \in Like(s)
  BY <1>6, <1>7, FieldsMove
<1> HIDE DEF hold
<1>9. Keeps(s0, hold)
  BY <1>6, <1>8, ThenLike
<1>10. Keeps(s0, unclean)
  BY <1>6, ProseKeeps
<1>11. Keeps(s0, group)
  <2>1. "Paren" \in Kinds
    BY DEF Kinds
  <2>2. Keeps(s, group)
    BY <1>6, <2>1, OpenContainerKeeps
  <2> QED BY <1>6, <2>2, KeepsOn
<1> HIDE DEF unclean, group
<1>12. /\ Keeps(s0, Replay(group, buf)) /\ Keeps(s0, Replay(group, <<c>>))
       /\ Keeps(s0, Replay(unclean, buf)) /\ Keeps(s0, Replay(unclean, <<c>>))
  BY <1>3, <1>10, <1>11, ThenOne
<1> QED BY <1>4, <1>9, <1>12

\* The undecided top-level paren looks first.
LEMMA GateKeeps ==
  ASSUME NEW s, Sound(s), NEW c \in Token
  PROVE  Keeps(s, gate_or_inner(s, c))
<1> DEFINE none == [s EXCEPT !.paren_gate = [kind |-> "none"]]
           bare == [s EXCEPT !.paren_gate = [kind |-> "none"], !.out = <<>>, !.emitted = 0,
                             !.top_clean = FALSE]
<1>1. s \in Machine /\ Keeps(s, s) /\ Len(s.frames) <= MAX_NESTING
  BY Counts, KeepsItself
<1>2. \/ /\ s.paren_gate.kind = "FirstChar"
         /\ gate_or_inner(s, c) \in {s, paren_gate_first_char(s, c)}
      \/ gate_or_inner(s, c) \in {none, s, Replay(bare, <<c>>), Settle(process_inner(s, c), c)}
  BY DEF gate_or_inner
<1>3. Keeps(s, none)
  <2>1. none \in Like(s)
    BY <1>1, FieldsMove, Values
  <2> HIDE DEF none
  <2> QED BY <2>1, LikeKeeps
<1>4. Keeps(s, bare)
  <2>1. <<>> \in Text /\ Len(<<>>) = 0
    BY Tokens
  <2>2. /\ bare \in Machine /\ bare.emitted = 0 /\ bare.out = <<>> /\ bare.frames = s.frames
    BY <1>1, <2>1, Values DEF Machine
  <2> HIDE DEF bare
  <2>3. Sound(bare)
    BY <1>1, <2>1, <2>2 DEF Sound
  <2>4. bare.emitted <= s.emitted
    BY <2>2, Counts
  <2> QED BY <2>2, <2>3, <2>4 DEF Keeps
<1> HIDE DEF none, bare
<1>5. Keeps(s, Replay(bare, <<c>>))
  BY <1>4, ThenOne, Tokens
<1>6. Keeps(s, Settle(process_inner(s, c), c))
  <2>1. Keeps(s, process_inner(s, c))
    BY InnerKeeps
  <2> QED BY <2>1, SettleKeeps
<1> QED BY <1>1, <1>2, <1>3, <1>5, <1>6, FirstCharKeeps

\* A deferred empty element is dropped.
LEMMA SkipDropKeeps ==
  ASSUME NEW s, Sound(s), NEW start \in Nat
  PROVE  Keeps(s, SkipDrop(s, start))
<1> DEFINE t == Truncate(s, start)
<1>1. SkipDrop(s, start) \in {drop_marked_member(s, start), Emit(t, <<"]">>), s}
  BY DEF SkipDrop
<1>2. Keeps(s, t)
  BY TruncateKeeps
<1> HIDE DEF t
<1>3. Sound(t)
  BY <1>2, KeptIsSound
<1>4. Keeps(t, Emit(t, <<"]">>))
  BY <1>3, EmitKeeps, Tokens
<1>5. Keeps(s, Emit(t, <<"]">>))
  BY <1>2, <1>4, KeepsOn
<1> QED BY <1>1, <1>5, RetractsKeep, KeepsItself

\* Whatever the character: the machine stays sound, and what stays handed over
\* is what was handed over.
LEMMA ProcessKeeps ==
  ASSUME NEW s0, Sound(s0), NEW c \in Token
  PROVE  Keeps(s0, process(s0, c))
<1> DEFINE p == s0.empty_pending
           s == [s0 EXCEPT !.empty_pending = [armed |-> FALSE], !.replay = <<>>]
           mark == [start |-> p.start, end |-> p.end, was_first |-> p.was_first,
                    frame |-> p.frame, dropped |-> "open"]
           marks  == Append(s.empty_marks, mark)
           marked == [s EXCEPT !.empty_marks = marks]
           seen   == [p EXCEPT !.ws_seen = TRUE]
           again  == [s EXCEPT !.empty_pending = seen]
           start  == p.start
<1>1. s0 \in Machine /\ p \in EmptyPending
  BY Counts, Fields
<1>2. s \in Like(s0)
  BY <1>1, Values, Tokens DEF Machine, Like
<1>3. \/ process(s0, c) = gate_or_inner(s, c)
      \/ /\ p.armed
         /\ process(s0, c) \in {gate_or_inner(marked, c), gate_or_inner(again, c),
                                Replay(SkipDrop(s, start), <<c>>), Settle(SkipDrop(s, start), c)}
  BY DEF process
<1> HIDE DEF s
<1>4. Keeps(s0, s) /\ Sound(s) /\ s \in Machine
  BY <1>2, LikeKeeps, KeptIsSound DEF Like
<1>5. CASE process(s0, c) = gate_or_inner(s, c)
  <2>1. Keeps(s, gate_or_inner(s, c))
    BY <1>4, GateKeeps
  <2> QED BY <1>4, <1>5, <2>1, KeepsOn
<1>6. CASE /\ p.armed
           /\ process(s0, c) \in {gate_or_inner(marked, c), gate_or_inner(again, c),
                                  Replay(SkipDrop(s, start), <<c>>), Settle(SkipDrop(s, start), c)}
  <2>1. p \in ArmedSet
    BY <1>1, <1>6 DEF EmptyPending
  <2>2. mark \in Mark /\ seen \in EmptyPending /\ start \in Nat
    BY <2>1 DEF ArmedSet, Mark, EmptyPending
  <2> HIDE DEF mark, seen, start
  <2>3. marks \in Seq(Mark)
    <3>1. s.empty_marks \in Seq(Mark)
      BY <1>4, Fields
    <3> QED BY <2>2, <3>1
  <2> HIDE DEF marks
  <2>4. marked \in Like(s) /\ again \in Like(s)
    BY <1>4, <2>2, <2>3, FieldsMove
  <2> HIDE DEF marked, again
  <2>5. Keeps(s, marked) /\ Sound(marked) /\ Keeps(s, again) /\ Sound(again)
    BY <1>4, <2>4, LikeKeeps, KeptIsSound
  <2>6. Keeps(marked, gate_or_inner(marked, c)) /\ Keeps(again, gate_or_inner(again, c))
    BY <2>5, GateKeeps
  <2>7. Keeps(s, gate_or_inner(marked, c)) /\ Keeps(s, gate_or_inner(again, c))
    BY <1>4, <2>5, <2>6, KeepsOn
  <2>8. Keeps(s, SkipDrop(s, start))
    BY <1>4, <2>2, SkipDropKeeps
  <2>9. Keeps(s, Replay(SkipDrop(s, start), <<c>>)) /\ Keeps(s, Settle(SkipDrop(s, start), c))
    BY <1>4, <2>8, ThenOne, SettleKeeps, Tokens
  <2>10. Keeps(s, process(s0, c))
    BY <1>6, <2>7, <2>9
  <2> QED BY <1>4, <2>10, KeepsOn
<1> QED BY <1>3, <1>5, <1>6

-----------------------------------------------------------------------------
(* The close-time render: what it answers is text.                         *)

\* The work record of a machine's close.
WorkSet == [t : Text, info : Seq(Frame), floor : Nat, open : Nat, stray : BOOLEAN]
WorkOf(s) == {w \in WorkSet : Len(w.info) = Len(s.frames) /\ w.open <= Len(s.frames)}

\* The fields of a work record.
LEMMA WorkFields ==
  ASSUME NEW s, NEW w \in WorkOf(s)
  PROVE  /\ w \in WorkSet /\ w.t \in Text /\ w.info \in Seq(Frame) /\ w.floor \in Nat
         /\ w.open \in Nat /\ w.stray \in BOOLEAN
         /\ Len(w.info) = Len(s.frames) /\ w.open <= Len(s.frames) /\ Len(w.t) \in Nat
<1>1. w \in WorkSet /\ Len(w.info) = Len(s.frames) /\ w.open <= Len(s.frames)
  BY DEF WorkOf
<1>2. /\ w.t \in Text /\ w.info \in Seq(Frame) /\ w.floor \in Nat /\ w.open \in Nat
      /\ w.stray \in BOOLEAN
  BY <1>1 DEF WorkSet
<1> QED BY <1>1, <1>2, TextIs

\* Another text, other frames of the same number, another mark.
LEMMA WorkMoves ==
  ASSUME NEW s, NEW w \in WorkOf(s)
  PROVE  /\ \A t \in Text : [w EXCEPT !.t = t] \in WorkOf(s)
         /\ \A b \in BOOLEAN : [w EXCEPT !.stray = b] \in WorkOf(s)
         /\ \A info \in Seq(Frame) : Len(info) = Len(s.frames) =>
              [w EXCEPT !.info = info] \in WorkOf(s)
         /\ \A toks \in Text : Put(w, toks) \in WorkOf(s)
         /\ \A at \in Nat : at <= Len(w.t) => Cut(w, at) \in WorkOf(s)
<1>1. w \in WorkSet /\ Len(w.info) = Len(s.frames) /\ w.open <= Len(s.frames) /\ w.t \in Text
  BY WorkFields
<1>2. \A t \in Text : [w EXCEPT !.t = t] \in WorkOf(s)
  BY <1>1 DEF WorkOf, WorkSet
<1>3. \A b \in BOOLEAN : [w EXCEPT !.stray = b] \in WorkOf(s)
  BY <1>1 DEF WorkOf, WorkSet
<1>4. \A info \in Seq(Frame) : Len(info) = Len(s.frames) => [w EXCEPT !.info = info] \in WorkOf(s)
  BY <1>1 DEF WorkOf, WorkSet
<1>5. \A toks \in Text : Put(w, toks) \in WorkOf(s)
  <2> TAKE toks \in Text
  <2>1. w.t \o toks \in Text
    BY <1>1, Joins
  <2> QED BY <1>2, <2>1 DEF Put
<1>6. \A at \in Nat : at <= Len(w.t) => Cut(w, at) \in WorkOf(s)
  <2> SUFFICES ASSUME NEW at \in Nat, at <= Len(w.t) PROVE Cut(w, at) \in WorkOf(s)
    OBVIOUS
  <2>1. SubSeq(w.t, 1, at) \in Text
    BY <1>1, Joins
  <2> QED BY <1>2, <2>1 DEF Cut
<1> QED BY <1>2, <1>3, <1>4, <1>5, <1>6

\* A frame loses a member.
LEMMA UncountIs ==
  ASSUME NEW f \in Frame, NEW elems \in BOOLEAN
  PROVE  Uncount(f, elems) \in Frame
<1>1. f.count \in Nat /\ f.elems \in Nat
  BY FrameFields
<1>2. Pred(f.count) \in Nat /\ Pred(f.elems) \in Nat
  BY <1>1, PredIs
<1> QED BY <1>1, <1>2 DEF Uncount, Frame

\* One frame of the work's is another.
LEMMA FrameMoves ==
  ASSUME NEW s, Sound(s), NEW w \in WorkOf(s), NEW i \in 1..Len(s.frames), NEW f \in Frame
  PROVE  [w EXCEPT !.info[i] = f] \in WorkOf(s)
<1>1. w.info \in Seq(Frame) /\ Len(w.info) = Len(s.frames) /\ Len(s.frames) \in Nat
  BY WorkFields, Counts
<1> DEFINE info == [w.info EXCEPT ![i] = f]
<1>2. info \in Seq(Frame) /\ Len(info) = Len(s.frames)
  BY <1>1
<1>3. [w EXCEPT !.info[i] = f] = [w EXCEPT !.info = info]
  OBVIOUS
<1> HIDE DEF info
<1>4. [w EXCEPT !.info = info] \in WorkOf(s)
  BY <1>2, WorkMoves
<1> QED BY <1>3, <1>4

\* The work starts; the undecided paren and the dangling member are settled.
LEMMA DanglingIs ==
  ASSUME NEW s, Sound(s)
  PROVE  /\ Work(s) \in WorkOf(s)
         /\ close_gate(s, Work(s)) \in WorkOf(s)
         /\ close_dangling(s, close_gate(s, Work(s))) \in WorkOf(s)
<1> DEFINE w == Work(s)
           v == close_gate(s, w)
<1>1. /\ s.out \in Text /\ s.frames \in Seq(Frame) /\ Len(s.out) \in Nat /\ Len(s.frames) \in Nat
      /\ s \in Machine
  BY Counts
<1>2. w \in WorkOf(s)
  BY <1>1 DEF Work, WorkOf, WorkSet
<1> HIDE DEF w
<1>3. v \in WorkOf(s)
  <2>1. CASE s.paren_gate.kind = "FirstChar"
    <3>1. s.paren_gate \in Gate
      BY <1>1, Fields
    <3>2. s.paren_gate.buf \in Text
      BY <2>1, <3>1 DEF Gate
    <3>3. keyword_or_str(s.paren_gate.buf) \in Text
      BY <3>2, Renderings
    <3>4. Put(w, keyword_or_str(s.paren_gate.buf)) \in WorkOf(s)
      BY <1>2, <3>3, WorkMoves
    <3> QED BY <1>2, <3>4 DEF close_gate
  <2>2. CASE s.paren_gate.kind # "FirstChar"
    BY <1>2, <2>2 DEF close_gate
  <2> QED BY <2>1, <2>2
<1> HIDE DEF v
<1>4. close_dangling(s, v) \in WorkOf(s)
  <2>1. CASE drops_dangling(s, v)
    <3>1. s.frames # <<>> /\ TopOf(s).start # None /\ TopOf(s).start <= Len(v.t)
      BY <2>1 DEF drops_dangling
    <3>2. TopOf(s).start \in Nat
      BY <3>1, TopIs, FrameFields
    <3>3. Cut(v, TopOf(s).start) \in WorkOf(s)
      BY <1>3, <3>1, <3>2, WorkMoves
    <3> QED BY <2>1, <3>3 DEF close_dangling
  <2>2. CASE ~drops_dangling(s, v)
    BY <1>3, <2>2 DEF close_dangling
  <2> QED BY <2>1, <2>2
<1> QED BY <1>2, <1>3, <1>4 DEF v, w

\* The pending number is rendered.
LEMMA CloseNumberIs ==
  ASSUME NEW s, Sound(s), NEW w \in WorkOf(s), s.pending.kind = "Num"
  PROVE  close_number(s, w) \in WorkOf(s)
<1> DEFINE text == s.pending.text
           run  == Rolled(text)
           item == s.frames # <<>> /\ ~InObject(s)
           letter == text[Len(text)]
           word == IF item /\ run # <<>> /\ run # text /\ letter \in Letters
                   THEN StrTok(<<letter>>) ELSE <<>>
           n    == Len(s.frames)
           toks == render_number_value(run) \o <<SepTok>> \o word
           v    == Put(w, toks)
           u    == [v EXCEPT !.info[n].count = @ + 1, !.info[n].elems = @ + 1]
<1>1. s.pending \in NumSet
  <2>1. s.pending \in Pending
    BY Counts, Fields
  <2> QED BY <2>1, PendingKinds
<1>2. text \in Text
  BY <1>1 DEF NumSet
<1>3. run \in Text
  BY <1>2, Pieces
<1>4. word \in Text
  <2>1. CASE run # <<>> /\ run # text
    <3>1. Len(text) \in Nat /\ \A i \in 1..Len(text) : text[i] \in Token
      BY <1>2, TextIs
    <3>2. text # <<>>
      BY <2>1 DEF Rolled
    <3>3. Len(text) # 0
      BY <1>2, <3>2 DEF Text
    <3>4. letter \in Token
      BY <3>1, <3>3
    <3> HIDE DEF letter
    <3>5. <<letter>> \in Text
      BY <3>4, Tokens
    <3>6. StrTok(<<letter>>) \in Text
      BY <3>5, Pieces
    <3> QED BY <3>6, Tokens
  <2>2. CASE ~(run # <<>> /\ run # text)
    BY <2>2, Tokens
  <2> QED BY <2>1, <2>2
<1>5. render_number_value(run) \in Text
  BY <1>3, Renderings
<1>6. render_number_value(run) \o <<SepTok>> \in Text
  BY <1>5, Joins, Tokens
<1>7. toks \in Text
  <2> HIDE DEF word
  <2> QED BY <1>4, <1>6, Joins
<1>8. \/ close_number(s, w) \in {Put(w, word), w, Put(w, render_number_value(run))}
      \/ word # <<>> /\ close_number(s, w) = u
  BY DEF close_number
<1>9. word # <<>> => s.frames # <<>>
  OBVIOUS
<1> HIDE DEF word, run, toks
<1>10. Put(w, word) \in WorkOf(s) /\ Put(w, render_number_value(run)) \in WorkOf(s)
  BY <1>4, <1>5, WorkMoves
<1>11. ASSUME s.frames # <<>> PROVE u \in WorkOf(s)
  <2>1. v \in WorkOf(s)
    BY <1>7, WorkMoves
  <2> HIDE DEF v
  <2>2. n \in 1..Len(s.frames)
    BY <1>11, TopIs
  <2> HIDE DEF n
  <2>3. v.info[n] \in Frame
    BY <2>1, <2>2, WorkFields
  <2>4. v.info[n].count + 1 \in Nat /\ v.info[n].elems + 1 \in Nat
    BY <2>3, FrameFields
  <2> DEFINE f == [v.info[n] EXCEPT !.count = @ + 1, !.elems = @ + 1]
  <2>5. f \in Frame
    <3> DEFINE h == v.info[n]
    <3> HIDE DEF h
    <3>1. h \in Frame /\ h.count + 1 \in Nat /\ h.elems + 1 \in Nat
      BY <2>3, <2>4 DEF h
    <3>2. [h EXCEPT !.count = @ + 1, !.elems = @ + 1] \in Frame
      BY <3>1 DEF Frame
    <3> QED BY <3>2 DEF h
  <2>6. u = [v EXCEPT !.info[n] = f]
    <3>1. n \in DOMAIN v.info
      BY <2>1, <2>2, WorkFields
    <3>2. v \in WorkSet
      BY <2>1, WorkFields
    <3> QED BY <3>1, <3>2 DEF WorkSet
  <2> HIDE DEF f
  <2>7. [v EXCEPT !.info[n] = f] \in WorkOf(s)
    BY <2>1, <2>2, <2>5, FrameMoves
  <2> QED BY <2>6, <2>7
<1> QED BY <1>8, <1>9, <1>10, <1>11

\* The pending token is rendered.
LEMMA ClosePendingIs ==
  ASSUME NEW s, Sound(s), NEW w \in WorkOf(s)
  PROVE  close_pending(s, w) \in WorkOf(s)
<1> DEFINE p == s.pending
           word == literal_or_str(IF p.born THEN DropUntil(Trim(p.text), Alnum) ELSE Trim(p.text))
<1>1. p \in Pending
  BY Counts, Fields
<1>2. p.kind \in {"none", "Num", "Word", "TopNum", "TopWord", "TopStr"}
  BY <1>1, PendingKinds
<1>3. CASE p.kind = "Num"
  <2>1. close_pending(s, w) \in {close_number(s, w), w}
    BY <1>3 DEF close_pending
  <2> QED BY <1>3, <2>1, CloseNumberIs
<1>4. CASE p.kind = "Word"
  <2>1. close_pending(s, w) \in {Put(w, word), w}
    BY <1>4 DEF close_pending
  <2>2. p \in WordSet
    BY <1>1, <1>4, PendingKinds
  <2>3. p.text \in Text
    BY <2>2 DEF WordSet
  <2>4. Trim(p.text) \in Text
    BY <2>3, Pieces
  <2>5. DropUntil(Trim(p.text), Alnum) \in Text
    BY <2>4, Pieces
  <2>6. word \in Text
    BY <2>4, <2>5, Renderings
  <2> HIDE DEF word
  <2>7. Put(w, word) \in WorkOf(s)
    BY <2>6, WorkMoves
  <2> QED BY <2>1, <2>7
<1>5. CASE p.kind \in {"TopNum", "TopWord"}
  <2>1. close_pending(s, w) = Put(w, loads_scalar(p.text))
    BY <1>5 DEF close_pending
  <2>2. p \in TopSet
    BY <1>1, <1>5, PendingKinds
  <2>3. p.text \in Text
    BY <2>2 DEF TopSet
  <2>4. loads_scalar(p.text) \in Text
    BY <2>3, Renderings
  <2> QED BY <2>1, <2>4, WorkMoves
<1>6. CASE p.kind = "TopStr"
  <2>1. close_pending(s, w) \in {Put(w, p.buf), w}
    BY <1>6 DEF close_pending
  <2>2. p \in StrSet
    BY <1>1, <1>6, PendingKinds
  <2>3. p.buf \in Text
    BY <2>2 DEF StrSet
  <2>4. Put(w, p.buf) \in WorkOf(s)
    BY <2>3, WorkMoves
  <2> QED BY <2>1, <2>4
<1>7. CASE p.kind = "none"
  <2>1. close_pending(s, w) = w
    BY <1>7 DEF close_pending
  <2> QED BY <2>1
<1> QED BY <1>2, <1>3, <1>4, <1>5, <1>6, <1>7

\* The newline tail of an open string is stripped.
LEMMA StripIs ==
  ASSUME NEW t \in Text, NEW lower \in Nat, NEW open_ended
  PROVE  strip_trailing_newline_tail(t, lower, open_ended) \in Text
<1> DEFINE quote == Len(t) > lower /\ t[Len(t)] = "\""
           i     == IF quote THEN Len(t) - 1 ELSE Len(t)
           solid == {k \in (lower + 1)..i : t[k] \notin {" ", "\\t", "\\n"}}
           keep  == IF solid = {} THEN lower ELSE LastOf(solid)
           front == SubSeq(t, 1, keep)
           back  == IF quote THEN <<"\"">> ELSE <<>>
<1>1. Len(t) \in Nat
  BY TextIs
<1>2. i \in Nat /\ i <= Len(t)
  <2>1. quote => Len(t) > lower
    OBVIOUS
  <2> HIDE DEF quote
  <2> QED BY <1>1, <2>1
<1>3. back \in Text
  BY Tokens
<1>4. \/ strip_trailing_newline_tail(t, lower, open_ended) = t
      \/ keep < i /\ strip_trailing_newline_tail(t, lower, open_ended) = front \o back
  BY DEF strip_trailing_newline_tail
<1>5. keep \in Nat
  <2> HIDE DEF i
  <2>1. solid \in SUBSET (1..i)
    <3>1. \A k \in (lower + 1)..i : k \in 1..i
      BY <1>2
    <3> QED BY <3>1
  <2> HIDE DEF solid
  <2>2. solid # {} => LastOf(solid) \in solid
    BY <1>2, <2>1, Extremes
  <2>3. \A k \in solid : k \in Nat
    BY <1>2, <2>1
  <2>4. solid # {} => LastOf(solid) \in Nat
    BY <2>2, <2>3, Zenon
  <2> QED BY <2>4
<1> HIDE DEF i, keep, back
<1>6. ASSUME keep < i PROVE front \in Text
  <2>1. keep <= Len(t)
    BY <1>1, <1>2, <1>5, <1>6
  <2> QED BY <1>5, <2>1, Joins
<1> HIDE DEF front
<1>7. ASSUME keep < i PROVE front \o back \in Text
  BY <1>3, <1>6, <1>7, Joins
<1> QED BY <1>4, <1>7

\* The open value is closed.
LEMMA CloseValueIs ==
  ASSUME NEW s, Sound(s), NEW w \in WorkOf(s)
  PROVE  close_value(s, w) \in WorkOf(s)
<1> DEFINE w1 == IF s.pos = "MemberValue" /\ ~value_in_flight(s) /\ s.frames # <<>>
                 THEN Put(w, <<"\"", "\"">>) ELSE w
           w2 == IF s.string.open /\ ~key_string_open(s) THEN Put(w1, <<"\"">>) ELSE w1
           lower == s.last_string_start + 1
           stripped == strip_trailing_newline_tail(w2.t, lower, s.string.open)
           w3 == IF s.frames # <<>> /\ s.last_string_start # None
                 THEN [w2 EXCEPT !.t = stripped] ELSE w2
           stray == /\ s.string.open /\ s.frames # <<>> /\ ~InObject(s) /\ TopOf(s).start # None
                    /\ s.last_string_start <= Len(w3.t)
                    /\ SubSeq(w3.t, s.last_string_start + 1, Len(w3.t)) = Quoted(Ellipsis)
                    /\ s.string_raw_tail = "."
<1>1. w1 \in WorkOf(s)
  <2>1. Put(w, <<"\"", "\"">>) \in WorkOf(s)
    BY WorkMoves, Tokens
  <2> QED BY <2>1
<1>2. close_value(s, w) = [w3 EXCEPT !.stray = stray]
  BY DEF close_value
<1> HIDE DEF w1
<1>3. w2 \in WorkOf(s)
  <2>1. Put(w1, <<"\"">>) \in WorkOf(s)
    BY <1>1, WorkMoves, Tokens
  <2> QED BY <1>1, <2>1
<1> HIDE DEF w2
<1>4. w3 \in WorkOf(s)
  <2>1. CASE s.last_string_start # None
    <3>1. s.last_string_start \in Nat
      BY <2>1, Counts, Fields
    <3>2. lower \in Nat
      BY <3>1
    <3> HIDE DEF lower
    <3>3. stripped \in Text
      BY <1>3, <3>2, WorkFields, StripIs
    <3> HIDE DEF stripped
    <3>4. [w2 EXCEPT !.t = stripped] \in WorkOf(s)
      BY <1>3, <3>3, WorkMoves
    <3> QED BY <1>3, <3>4
  <2>2. CASE s.last_string_start = None
    BY <1>3, <2>2
  <2> QED BY <2>1, <2>2
<1>5. stray \in BOOLEAN
  <2>1. s.string.open \in BOOLEAN
    <3>1. s.string \in StringSet
      BY Counts, Fields
    <3>2. CASE s.string = [open |-> FALSE]
      BY <3>2
    <3>3. CASE s.string \in OpenString
      BY <3>3 DEF OpenString
    <3> QED BY <3>1, <3>2, <3>3 DEF StringSet
  <2> QED BY <2>1
<1> HIDE DEF w3, stray
<1> QED BY <1>2, <1>4, <1>5, WorkMoves

\* Coordinates behind a cut move with the text.
LEMMA ShiftIs ==
  ASSUME NEW info \in Seq(Frame), NEW from \in Nat, NEW by \in Nat, by <= from
  PROVE  Shift(info, from, by) \in Seq(Frame) /\ Len(Shift(info, from, by)) = Len(info)
<1> DEFINE Moved(f) == [f EXCEPT !.start = IF @ # None /\ @ >= from THEN @ - by ELSE @,
                                 !.brace = IF @ >= from THEN @ - by ELSE @]
           after == [i \in DOMAIN info |-> Moved(info[i])]
<1>1. ASSUME NEW f \in Frame PROVE Moved(f) \in Frame
  <2> DEFINE start == IF f.start # None /\ f.start >= from THEN f.start - by ELSE f.start
             brace == IF f.brace >= from THEN f.brace - by ELSE f.brace
  <2>1. f.start \in Nat \cup {None} /\ f.brace \in Nat
    BY FrameFields
  <2>2. start \in Nat \cup {None} /\ brace \in Nat
    BY <2>1 DEF None
  <2>3. Moved(f) = [f EXCEPT !.start = start, !.brace = brace]
    OBVIOUS
  <2> HIDE DEF start, brace
  <2>4. [f EXCEPT !.start = start, !.brace = brace] \in Frame
    BY <2>2 DEF Frame
  <2> QED BY <2>3, <2>4
<1>2. Shift(info, from, by) = after
  BY DEF Shift
<1>3. DOMAIN info = 1..Len(info) /\ Len(info) \in Nat /\ \A i \in DOMAIN info : info[i] \in Frame
  OBVIOUS
<1> HIDE DEF Moved
<1>4. after \in [1..Len(info) -> Frame]
  BY <1>1, <1>3
<1> HIDE DEF after
<1> QED BY <1>2, <1>3, <1>4

\* One deferred element is drained.
LEMMA DrainMarkIs ==
  ASSUME NEW s, Sound(s), NEW w \in WorkOf(s), NEW mk \in Mark
  PROVE  drain_mark(w, mk) \in WorkOf(s)
<1>1. CASE mk.end > Len(w.t) \/ mk.start >= mk.end
  BY <1>1 DEF drain_mark
<1>2. CASE ~(mk.end > Len(w.t) \/ mk.start >= mk.end)
  <2> DEFINE k     == mk.frame + 1
             Own(f) == [f EXCEPT !.count = Pred(@), !.elems = Pred(@),
                          !.start = IF @ >= mk.start /\ @ < mk.end THEN None ELSE @]
             own   == [i \in DOMAIN w.info |-> IF i # k THEN w.info[i] ELSE Own(w.info[i])]
             width == mk.end - mk.start
             info1 == Shift(own, mk.end, width)
             front == SubSeq(w.t, 1, mk.start)
             back  == SubSeq(w.t, mk.end + 1, Len(w.t))
             t1    == front \o back
             sep   == mk.was_first /\ mk.start < Len(t1) /\ t1[mk.start + 1] = SepTok
             t2    == SubSeq(t1, 1, mk.start) \o SubSeq(t1, mk.start + 2, Len(t1))
             info2 == Shift(info1, mk.start + 1, 1)
             t     == IF sep THEN t2 ELSE t1
             info  == IF sep THEN info2 ELSE info1
  <2>1. /\ w.t \in Text /\ w.info \in Seq(Frame) /\ Len(w.info) = Len(s.frames)
        /\ Len(w.t) \in Nat
    BY WorkFields
  <2>2. mk.start \in Nat /\ mk.end \in Int
    BY DEF Mark
  <2>3. mk.end \in Nat /\ mk.start < mk.end /\ mk.end <= Len(w.t)
    BY <1>2, <2>1, <2>2
  <2>4. drain_mark(w, mk) = [w EXCEPT !.t = t, !.info = info]
    BY <1>2 DEF drain_mark
  <2>5. ASSUME NEW f \in Frame PROVE Own(f) \in Frame
    <3>1. /\ Pred(f.count) \in Nat /\ Pred(f.elems) \in Nat /\ f.start \in Nat \cup {None}
      BY FrameFields, PredIs
    <3>2. (IF f.start >= mk.start /\ f.start < mk.end THEN None ELSE f.start) \in Nat \cup {None}
      BY <3>1
    <3> QED BY <3>1, <3>2 DEF Frame
  <2>6. own \in Seq(Frame) /\ Len(own) = Len(s.frames)
    <3>1. DOMAIN w.info = 1..Len(w.info) /\ \A i \in DOMAIN w.info : w.info[i] \in Frame
      BY <2>1
    <3>2. Len(w.info) \in Nat
      BY <2>1
    <3> HIDE DEF Own
    <3>3. own \in [1..Len(w.info) -> Frame]
      BY <2>5, <3>1
    <3> HIDE DEF own
    <3> QED BY <2>1, <3>2, <3>3
  <2> HIDE DEF own
  <2>7. width \in Nat /\ width <= mk.end
    BY <2>2, <2>3
  <2> HIDE DEF width
  <2>8. info1 \in Seq(Frame) /\ Len(info1) = Len(s.frames)
    BY <2>3, <2>6, <2>7, ShiftIs
  <2> HIDE DEF info1
  <2>9. info2 \in Seq(Frame) /\ Len(info2) = Len(s.frames)
    <3>1. mk.start + 1 \in Nat /\ 1 \in Nat /\ 1 <= mk.start + 1
      BY <2>2
    <3> QED BY <2>8, <3>1, ShiftIs
  <2>10. info \in Seq(Frame) /\ Len(info) = Len(s.frames)
    BY <2>8, <2>9
  <2>11. t1 \in Text
    <3>1. mk.start <= Len(w.t) /\ mk.end + 1 \in Nat \ {0}
      BY <2>1, <2>2, <2>3
    <3>2. front \in Text /\ back \in Text
      BY <2>1, <2>2, <3>1, Joins
    <3> HIDE DEF front, back
    <3> QED BY <3>2, Joins
  <2> HIDE DEF t1
  <2>12. sep => t2 \in Text
    <3>1. Len(t1) \in Nat /\ mk.start + 2 \in Nat \ {0}
      BY <2>2, <2>11, TextIs
    <3>2. SubSeq(t1, mk.start + 2, Len(t1)) \in Text
      BY <2>11, <3>1, Joins
    <3>3. mk.start < Len(t1) => SubSeq(t1, 1, mk.start) \in Text
      BY <2>2, <2>11, <3>1, Joins
    <3>4. mk.start < Len(t1) => t2 \in Text
      BY <3>2, <3>3, Joins
    <3> QED BY <3>4
  <2> HIDE DEF t2
  <2>13. t \in Text
    BY <2>11, <2>12
  <2> HIDE DEF t, info
  <2>14. w \in WorkSet /\ w.open <= Len(s.frames)
    BY WorkFields
  <2> QED BY <2>4, <2>10, <2>13, <2>14 DEF WorkOf, WorkSet
<1> QED BY <1>1, <1>2

\* All of them are, newest first.
LEMMA DrainMarksIs ==
  ASSUME NEW s, Sound(s), NEW w \in WorkOf(s)
  PROVE  drain_marks(s, w) \in WorkOf(s)
<1> DEFINE q == s.empty_pending
           last == [start |-> q.start, end |-> q.end, was_first |-> q.was_first,
                    frame |-> q.frame, dropped |-> "drop"]
           marks == IF q.armed THEN Append(s.empty_marks, last) ELSE s.empty_marks
           N == Len(marks)
           X == WorkOf(s)
           a == w
           Then(n, x) == drain_mark(x, marks[N - n + 1])
           P(h) == h = [n \in 0..N |-> IF n = 0 THEN a ELSE Then(n, h[n - 1])]
           g == [n \in 1..N |-> [x \in X |-> Then(n, x)]]
<1>1. marks \in Seq(Mark)
  <2>1. s.empty_marks \in Seq(Mark) /\ q \in EmptyPending
    BY Counts, Fields
  <2>2. q.armed => last \in Mark
    <3>1. q.armed => q \in ArmedSet
      BY <2>1 DEF EmptyPending
    <3>2. q \in ArmedSet => last \in Mark
      BY DEF ArmedSet, Mark
    <3> QED BY <3>1, <3>2
  <2> HIDE DEF last, q
  <2>3. last \in Mark => Append(s.empty_marks, last) \in Seq(Mark)
    BY <2>1
  <2> QED BY <2>1, <2>2, <2>3
<1>2. drain_marks(s, w) = (CHOOSE h : P(h))[N]
  BY DEF drain_marks
<1> HIDE DEF marks
<1>3. N \in Nat /\ a \in X
  BY <1>1
<1>4. ASSUME NEW n \in 1..N, NEW x \in X PROVE Then(n, x) \in X
  <2>1. N - n + 1 \in 1..N
    BY <1>3
  <2>2. marks[N - n + 1] \in Mark
    BY <1>1, <2>1
  <2> QED BY <2>2, DrainMarkIs
<1> HIDE DEF N, a, Then
<1>5. X = WorkOf(s)
  OBVIOUS
<1> HIDE DEF X
<1>6. g \in [1..N -> [X -> X]]
  BY <1>4
<1>7. PICK f \in [0..N -> X] :
        f[0] = a /\ \A n \in 1..N : f[n - 1] \in X /\ f[n] = g[n][f[n - 1]]
  <2> HIDE DEF g
  <2>1. \E f : Runs(f, N, X, a, g)
    BY <1>3, <1>6, Recursion
  <2> QED BY <2>1 DEF Runs
<1>8. P(f)
  <2>1. \A n \in 1..N : f[n] = Then(n, f[n - 1])
    BY <1>3, <1>7
  <2>2. \A n \in 0..N : f[n] = IF n = 0 THEN a ELSE Then(n, f[n - 1])
    BY <1>3, <1>7, <2>1
  <2>3. f = [n \in 0..N |-> f[n]]
    OBVIOUS
  <2> QED BY <2>2, <2>3
<1> DEFINE after == CHOOSE h : P(h)
<1> HIDE DEF P
<1>9. P(after)
  BY <1>8
<1> HIDE DEF after
<1>10. after = [n \in 0..N |-> IF n = 0 THEN a ELSE Then(n, after[n - 1])]
  BY <1>9 DEF P
<1>11. after[0] = a /\ \A n \in 1..N : after[n] = Then(n, after[n - 1])
  BY <1>3, <1>10
<1>12. \A n \in 0..N : after[n] \in X
  BY <1>3, <1>4, <1>11, Stays
<1> QED BY <1>2, <1>3, <1>5, <1>12 DEF after

\* A container or element that is empty retracts in the work.
LEMMA RetractIs ==
  ASSUME NEW s, Sound(s), NEW w \in WorkOf(s), NEW at \in Nat \cup {None}
  PROVE  Retract(w, at) \in WorkOf(s)
<1>1. CASE at # None /\ at <= Len(w.t)
  <2> DEFINE v == Cut(w, at)
             floor == LessOf(v.floor, at)
  <2>1. at \in Nat
    BY <1>1
  <2>2. v \in WorkOf(s)
    BY <1>1, <2>1, WorkMoves
  <2>3. Retract(w, at) = [v EXCEPT !.floor = floor]
    BY <1>1 DEF Retract
  <2> HIDE DEF v
  <2>4. v \in WorkSet /\ v.floor \in Nat /\ Len(v.info) = Len(s.frames) /\ v.open <= Len(s.frames)
    BY <2>2, WorkFields
  <2>5. floor \in Nat
    BY <2>1, <2>4 DEF LessOf
  <2> HIDE DEF floor
  <2> QED BY <2>3, <2>4, <2>5 DEF WorkOf, WorkSet
<1>2. CASE ~(at # None /\ at <= Len(w.t))
  BY <1>2 DEF Retract
<1> QED BY <1>1, <1>2

\* One step of the walk out of the empty containers.
LEMMA CascadeStepIs ==
  ASSUME NEW s, Sound(s), NEW w \in WorkOf(s), w.open > 0
  PROVE  cascade_step(s, w) \in WorkOf(s) \X BOOLEAN
<1> DEFINE i == w.open
           f == w.info[i]
           j == i - 1
           u == Retract(w, w.info[j].start)
           v == Retract(w, f.start)
           out  == [u EXCEPT !.info[j] = Uncount(@, TRUE), !.open = j]
           less == [v EXCEPT !.info[i] = Uncount(@, TRUE)]
<1>1. /\ i \in 1..Len(s.frames) /\ Len(s.frames) \in Nat /\ w.info \in Seq(Frame)
      /\ Len(w.info) = Len(s.frames)
  BY WorkFields, Counts
<1>2. \/ cascade_step(s, w) \in {<<w, FALSE>>, <<less, TRUE>>}
      \/ i > 1 /\ cascade_step(s, w) = <<out, TRUE>>
  <2> DEFINE content == Unseparated(SubSeq(w.t, f.start + 1, Len(w.t)))
             pending == s.pos = "Value" /\ ~value_in_flight(s)
             A  == f.count = 0 /\ (i = 1 \/ w.info[i - 1].kind = "Obj")
             B  == f.count = 0 /\ i > 1 /\ w.info[i - 1].kind # "Obj"
             C  == f.count > 0 /\ (f.kind = "Obj" \/ f.start = None \/ f.start > Len(w.t))
             D  == /\ ~pending
                   /\ \/ content = <<>> \/ StrictlyEmpty(content)
                      \/ w.stray /\ content = Quoted(Ellipsis)
             ra == <<w, FALSE>>
             rb == <<out, TRUE>>
             rd == <<less, TRUE>>
  <2>1. cascade_step(s, w) = CASE A -> ra [] B -> rb [] C -> ra [] OTHER -> IF D THEN rd ELSE ra
    BY DEF cascade_step
  <2>2. B => i > 1
    OBVIOUS
  <2> HIDE DEF A, B, C, D, ra, rb, rd
  <2>3. cascade_step(s, w) \in {ra, rd} \/ (B /\ cascade_step(s, w) = rb)
    BY <2>1
  <2> QED BY <2>2, <2>3 DEF ra, rb, rd
<1> HIDE DEF i
<1>3. f \in Frame /\ f.start \in Nat \cup {None}
  <2>1. f \in Frame
    BY <1>1
  <2> QED BY <2>1, FrameFields
<1> HIDE DEF f
<1>4. v \in WorkOf(s)
  BY <1>3, RetractIs
<1> HIDE DEF v
<1>5. less \in WorkOf(s)
  <2> DEFINE h == v.info[i]
             k == Uncount(h, TRUE)
  <2>1. v.info \in Seq(Frame) /\ Len(v.info) = Len(s.frames)
    BY <1>4, WorkFields
  <2>2. h \in Frame
    BY <1>1, <2>1
  <2> HIDE DEF h
  <2>3. k \in Frame
    BY <2>2, UncountIs
  <2>4. less = [v EXCEPT !.info[i] = k]
    BY DEF h
  <2> HIDE DEF k
  <2> QED BY <1>1, <1>4, <2>3, <2>4, FrameMoves
<1>6. ASSUME i > 1 PROVE out \in WorkOf(s)
  <2> DEFINE h == u.info[j]
             k == Uncount(h, TRUE)
             z == [u EXCEPT !.info[j] = k]
  <2>1. j \in 1..Len(s.frames) /\ j \in Nat /\ j <= Len(s.frames)
    BY <1>1, <1>6
  <2> HIDE DEF j
  <2>2. w.info[j] \in Frame
    BY <1>1, <2>1
  <2>3. w.info[j].start \in Nat \cup {None}
    BY <2>2, FrameFields
  <2>4. u \in WorkOf(s)
    BY <2>3, RetractIs
  <2> HIDE DEF u
  <2>5. u.info \in Seq(Frame) /\ Len(u.info) = Len(s.frames)
    BY <2>4, WorkFields
  <2>6. h \in Frame
    BY <2>1, <2>5
  <2> HIDE DEF h
  <2>7. k \in Frame
    BY <2>6, UncountIs
  <2>8. out = [z EXCEPT !.open = j]
    BY DEF h
  <2> HIDE DEF k
  <2>9. z \in WorkOf(s)
    BY <2>1, <2>4, <2>7, FrameMoves
  <2> HIDE DEF z, out
  <2>10. [z EXCEPT !.open = j] \in WorkOf(s)
    BY <2>1, <2>9 DEF WorkOf, WorkSet
  <2> QED BY <2>8, <2>10
<1> HIDE DEF out, less
<1>7. \A x \in WorkOf(s), b \in BOOLEAN : <<x, b>> \in WorkOf(s) \X BOOLEAN
  OBVIOUS
<1>8. /\ <<w, FALSE>> \in WorkOf(s) \X BOOLEAN /\ <<less, TRUE>> \in WorkOf(s) \X BOOLEAN
      /\ i > 1 => <<out, TRUE>> \in WorkOf(s) \X BOOLEAN
  BY <1>5, <1>6, <1>7, Zenon
<1> HIDE DEF i
<1>9. CASE cascade_step(s, w) = <<w, FALSE>>
  BY <1>8, <1>9, Zenon
<1>10. CASE cascade_step(s, w) = <<less, TRUE>>
  BY <1>8, <1>10, Zenon
<1>11. CASE i > 1 /\ cascade_step(s, w) = <<out, TRUE>>
  BY <1>8, <1>11, Zenon
<1> QED BY <1>2, <1>9, <1>10, <1>11, Zenon

\* The whole walk.
LEMMA CascadeIs ==
  ASSUME NEW s, Sound(s), NEW w \in WorkOf(s)
  PROVE  cascade(s, w) \in WorkOf(s)
<1> DEFINE N == 2 * Len(s.frames) + 1
           X == WorkOf(s) \X BOOLEAN
           a == <<w, w.open > 0>>
           Then(r) == IF r[2] /\ r[1].open > 0 THEN cascade_step(s, r[1]) ELSE r
           P(h) == h = [n \in 0..N |-> IF n = 0 THEN a ELSE Then(h[n - 1])]
           g == [n \in 1..N |-> [x \in X |-> Then(x)]]
<1>1. N \in Nat /\ a \in X
  <2>1. Len(s.frames) \in Nat
    BY Counts
  <2>2. N \in Nat
    BY <2>1
  <2>3. (w.open > 0) \in BOOLEAN
    OBVIOUS
  <2>4. a \in X
    BY <2>3, Zenon
  <2> QED BY <2>2, <2>4
<1>2. \A x \in X : Then(x) \in X
  <2> TAKE x \in X
  <2>1. x[1] \in WorkOf(s)
    OBVIOUS
  <2>2. x[1].open > 0 => cascade_step(s, x[1]) \in X
    BY <2>1, CascadeStepIs
  <2> QED BY <2>2
<1>3. cascade(s, w) = (CHOOSE h : P(h))[N][1]
  BY DEF cascade
<1>4. \A x \in X : x[1] \in WorkOf(s)
  OBVIOUS
<1> HIDE DEF N, X, a, Then
<1>5. g \in [1..N -> [X -> X]]
  BY <1>2
<1>6. PICK f \in [0..N -> X] :
        f[0] = a /\ \A n \in 1..N : f[n - 1] \in X /\ f[n] = g[n][f[n - 1]]
  <2> HIDE DEF g
  <2>1. \E f : Runs(f, N, X, a, g)
    BY <1>1, <1>5, Recursion
  <2> QED BY <2>1 DEF Runs
<1>7. P(f)
  <2>1. \A n \in 1..N : f[n] = Then(f[n - 1])
    BY <1>1, <1>6
  <2>2. \A n \in 0..N : f[n] = IF n = 0 THEN a ELSE Then(f[n - 1])
    BY <1>1, <1>6, <2>1
  <2>3. f = [n \in 0..N |-> f[n]]
    OBVIOUS
  <2> QED BY <2>2, <2>3
<1> DEFINE walk == CHOOSE h : P(h)
<1> HIDE DEF P
<1>8. P(walk)
  BY <1>7
<1> HIDE DEF walk
<1>9. walk = [n \in 0..N |-> IF n = 0 THEN a ELSE Then(walk[n - 1])]
  BY <1>8 DEF P
<1>10. walk[0] = a /\ \A n \in 1..N : walk[n] = Then(walk[n - 1])
  BY <1>1, <1>9
<1>11. \A n \in 1..N : walk[n - 1] \in X => walk[n] \in X
  BY <1>2, <1>10
<1>12. \A n \in 0..N : walk[n] \in X
  BY <1>1, <1>10, <1>11, Stays
<1>13. walk[N][1] \in WorkOf(s)
  BY <1>1, <1>4, <1>12
<1> QED BY <1>3, <1>13 DEF walk

\* A text without one token of it.
LEMMA WithoutIs ==
  ASSUME NEW t \in Text, NEW pos \in Nat, pos < Len(t)
  PROVE  Without(t, pos) \in Text
<1>1. Len(t) \in Nat /\ pos + 2 \in Nat \ {0}
  BY TextIs
<1>2. SubSeq(t, 1, pos) \in Text /\ SubSeq(t, pos + 2, Len(t)) \in Text
  BY <1>1, Joins
<1> QED BY <1>2, Joins DEF Without

\* An open frame is closed.
LEMMA CloseFrameIs ==
  ASSUME NEW s, NEW w \in WorkOf(s), NEW f \in Frame
  PROVE  close_frame(w, f) \in Text
<1> DEFINE t == w.t
           base == IF f.brace < w.floor /\ Holding(t, f.brace, "{") THEN Without(t, f.brace) ELSE t
<1>1. t \in Text /\ f.brace \in Nat /\ f.kind \in Kinds
  BY WorkFields, FrameFields
<1>2. {"]", "}"} \subseteq Token
  BY DEF Token, Written
<1>3. Append(t, "]") \in Text /\ Append(t, "}") \in Text
  BY <1>1, <1>2, Joins
<1>4. \A tok : Holding(t, f.brace, tok) => Without(t, f.brace) \in Text
  BY <1>1, WithoutIs DEF Holding
<1>5. base \in Text
  BY <1>1, <1>4
<1> HIDE DEF base
<1>6. base \o <<"[", "]">> \in Text
  BY <1>5, Tokens, Joins
<1> HIDE DEF t
<1>7. CASE f.kind = "Obj"
  <2>1. close_frame(w, f) \in {base \o <<"[", "]">>, Append(t, "}")}
    BY <1>7 DEF close_frame, base, t
  <2> QED BY <1>3, <1>6, <2>1
<1>8. CASE f.kind = "Arr"
  <2>1. close_frame(w, f) = Append(t, "]")
    BY <1>8 DEF close_frame, t
  <2> QED BY <1>3, <2>1
<1>9. CASE f.kind = "Paren"
  <2>1. \/ close_frame(w, f) = Append(t, "]")
        \/ Holding(t, f.brace, "[") /\ close_frame(w, f) = Without(t, f.brace)
    BY <1>9 DEF close_frame, t
  <2> QED BY <1>3, <1>4, <2>1
<1> QED BY <1>1, <1>7, <1>8, <1>9 DEF Kinds

\* All of them are, innermost first.
LEMMA CloseFramesIs ==
  ASSUME NEW s, Sound(s), NEW w \in WorkOf(s)
  PROVE  close_frames(w) \in Text
<1> DEFINE N == w.open
           X == WorkOf(s)
           a == w
           Then(n, x) == [x EXCEPT !.t = close_frame(x, w.info[N - n + 1])]
           P(h) == h = [n \in 0..N |-> IF n = 0 THEN a ELSE Then(n, h[n - 1])]
           g == [n \in 1..N |-> [x \in X |-> Then(n, x)]]
<1>1. /\ N \in Nat /\ a \in X /\ w.info \in Seq(Frame) /\ N <= Len(w.info)
      /\ Len(w.info) \in Nat
  BY WorkFields, Counts
<1>2. ASSUME NEW n \in 1..N, NEW x \in X PROVE Then(n, x) \in X
  <2>1. N - n + 1 \in 1..Len(w.info)
    BY <1>1
  <2>2. w.info[N - n + 1] \in Frame
    BY <1>1, <2>1
  <2> DEFINE f == w.info[N - n + 1]
  <2> HIDE DEF f
  <2>3. close_frame(x, f) \in Text
    BY <2>2, CloseFrameIs DEF f
  <2>4. [x EXCEPT !.t = close_frame(x, f)] \in X
    BY <2>3, WorkMoves
  <2> QED BY <2>4 DEF f
<1>3. close_frames(w) = (CHOOSE h : P(h))[N].t
  BY DEF close_frames
<1>4. \A x \in X : x.t \in Text
  BY WorkFields
<1> HIDE DEF N, X, a, Then
<1>5. g \in [1..N -> [X -> X]]
  BY <1>2
<1>6. PICK f \in [0..N -> X] :
        f[0] = a /\ \A n \in 1..N : f[n - 1] \in X /\ f[n] = g[n][f[n - 1]]
  <2> HIDE DEF g
  <2>1. \E f : Runs(f, N, X, a, g)
    BY <1>1, <1>5, Recursion
  <2> QED BY <2>1 DEF Runs
<1>7. P(f)
  <2>1. \A n \in 1..N : f[n] = Then(n, f[n - 1])
    BY <1>1, <1>6
  <2>2. \A n \in 0..N : f[n] = IF n = 0 THEN a ELSE Then(n, f[n - 1])
    BY <1>1, <1>6, <2>1
  <2>3. f = [n \in 0..N |-> f[n]]
    OBVIOUS
  <2> QED BY <2>2, <2>3
<1> DEFINE after == CHOOSE h : P(h)
<1> HIDE DEF P
<1>8. P(after)
  BY <1>7
<1> HIDE DEF after
<1>9. after = [n \in 0..N |-> IF n = 0 THEN a ELSE Then(n, after[n - 1])]
  BY <1>8 DEF P
<1>10. after[0] = a /\ \A n \in 1..N : after[n] = Then(n, after[n - 1])
  BY <1>1, <1>9
<1>11. \A n \in 0..N : after[n] \in X
  BY <1>1, <1>2, <1>10, Stays
<1>12. after[N].t \in Text
  BY <1>1, <1>4, <1>11
<1> QED BY <1>3, <1>12 DEF after

\* The render of a sound machine is text.
LEMMA RenderIs ==
  ASSUME NEW s, Sound(s)
  PROVE  render_closed(s) \in Text
<1> DEFINE v  == close_gate(s, Work(s))
           w0 == close_dangling(s, v)
           w  == close_pending(s, w0)
           w1 == close_value(s, w)
           n  == Len(s.frames)
           less == [w1 EXCEPT !.info[n] = Uncount(@, FALSE)]
           w2 == IF drops_dangling(s, v) THEN less ELSE w1
           w3 == drain_marks(s, w2)
           w4 == cascade(s, w3)
<1>1. w0 \in WorkOf(s)
  BY DanglingIs
<1>2. render_closed(s) = close_frames(w4)
  BY DEF render_closed
<1> HIDE DEF w0
<1>3. w \in WorkOf(s)
  BY <1>1, ClosePendingIs
<1> HIDE DEF w
<1>4. w1 \in WorkOf(s)
  BY <1>3, CloseValueIs
<1> HIDE DEF w1
<1>5. w2 \in WorkOf(s)
  <2>1. CASE drops_dangling(s, v)
    <3> DEFINE h == w1.info[n]
               k == Uncount(h, FALSE)
    <3>1. s.frames # <<>>
      BY <2>1 DEF drops_dangling
    <3>2. n \in 1..Len(s.frames)
      BY <3>1, TopIs
    <3> HIDE DEF n
    <3>3. w1.info \in Seq(Frame) /\ Len(w1.info) = Len(s.frames)
      BY <1>4, WorkFields
    <3>4. h \in Frame
      BY <3>2, <3>3
    <3> HIDE DEF h
    <3>5. k \in Frame
      BY <3>4, UncountIs
    <3>6. less = [w1 EXCEPT !.info[n] = k]
      BY DEF h
    <3> HIDE DEF k
    <3>7. [w1 EXCEPT !.info[n] = k] \in WorkOf(s)
      BY <1>4, <3>2, <3>5, FrameMoves
    <3> QED BY <2>1, <3>6, <3>7
  <2>2. CASE ~drops_dangling(s, v)
    BY <1>4, <2>2
  <2> QED BY <2>1, <2>2
<1> HIDE DEF w2
<1>6. w3 \in WorkOf(s)
  BY <1>5, DrainMarksIs
<1> HIDE DEF w3
<1>7. w4 \in WorkOf(s)
  BY <1>6, CascadeIs
<1> HIDE DEF w4
<1> QED BY <1>2, <1>7, CloseFramesIs

\* What end() leaves is a sound machine, all of its text handed over.
LEMMA FinalizedIsSound ==
  ASSUME NEW s, Sound(s)
  PROVE  /\ Sound(Finalized(s)) /\ Finalized(s).replay = s.replay
         /\ Finalized(s).error = s.error
<1> DEFINE t == render_closed(s)
           n == Len(t)
           z == Finalized(s)
<1>1. t \in Text
  BY RenderIs
<1>2. n \in Nat
  BY <1>1, TextIs
<1>3. s \in Machine
  BY Counts
<1>4. <<>> \in Seq(Frame) /\ Len(<<>>) = 0
  OBVIOUS
<1>5. z = [s EXCEPT !.out = t, !.emitted = n, !.frames = <<>>,
             !.string = [open |-> FALSE], !.pending = NoPending,
             !.comment = [kind |-> "none"], !.empty_pending = [armed |-> FALSE],
             !.paren_gate = [kind |-> "none"], !.garbage_run = FALSE]
  BY DEF Finalized
<1> HIDE DEF t, n, z
<1>6. z \in Machine
  BY <1>1, <1>2, <1>3, <1>4, <1>5, Values DEF Machine
<1>7. /\ z.out = t /\ z.emitted = n /\ z.frames = <<>> /\ z.replay = s.replay
      /\ z.error = s.error
  BY <1>3, <1>5 DEF Machine
<1>8. z.emitted <= Len(z.out)
  BY <1>2, <1>7 DEF n
<1>9. Len(z.frames) <= MAX_NESTING
  BY <1>4, <1>7, NestingAssumption
<1>10. Sound(z)
  BY <1>6, <1>8, <1>9 DEF Sound
<1> QED BY <1>7, <1>10 DEF z

-----------------------------------------------------------------------------
(* The session.                                                            *)

\* What the calls preserve: the machine is sound between two entries of
\* process; until end(), what was handed over is the text up to the cursor, as
\* long as nothing behind the cursor was repaired; and a push that returned
\* left the cursor at the end.
SessionInv ==
  /\ caller \in Callers /\ call \in {"idle", "push"} /\ finished \in BOOLEAN
  /\ pushes \in 0..caller.pushes
  /\ reply \in {"none", "delta", "nesting", "final", "finalized"}
  /\ Sound(m) /\ m.replay = <<>> /\ todo \in Text /\ got \in Text
  /\ finished => call = "idle"
  /\ ~finished /\ intact => got = SubSeq(m.out, 1, m.emitted)
  /\ ~finished /\ call = "idle" /\ ~m.error => m.emitted = Len(m.out)

\* A fresh machine is sound, with nothing written.
LEMMA FreshIsSound ==
  Sound(Fresh) /\ Fresh.out = <<>> /\ Fresh.emitted = 0 /\ Fresh.replay = <<>>
<1>1. <<>> \in Seq(Frame) /\ <<>> \in Seq(Mark) /\ <<>> \in Text /\ Len(<<>>) = 0
  <2>1. <<>> \in Seq(Frame) /\ <<>> \in Seq(Mark) /\ Len(<<>>) = 0
    OBVIOUS
  <2>2. <<>> \in Text
    BY Tokens
  <2> QED BY <2>1, <2>2
<1>2. Fresh \in Machine
  BY <1>1, Values DEF Fresh, Machine
<1>3. /\ Fresh.out = <<>> /\ Fresh.emitted = 0 /\ Fresh.replay = <<>> /\ Fresh.frames = <<>>
  BY DEF Fresh
<1>4. Fresh.emitted <= Len(Fresh.out) /\ Len(Fresh.frames) <= MAX_NESTING
  BY <1>1, <1>3, NestingAssumption
<1> QED BY <1>2, <1>3, <1>4 DEF Sound

\* A sequence over a set is a sequence over every larger set.
LEMMA Widened ==
  ASSUME NEW S, NEW T, S \subseteq T, NEW q \in Seq(S)
  PROVE  q \in Seq(T)
OBVIOUS

\* A text is its front and its rest.
LEMMA FrontAndRest ==
  ASSUME NEW t \in Text, NEW n \in 0..Len(t)
  PROVE  /\ SubSeq(t, 1, n) \o SubSeq(t, n + 1, Len(t)) = t
         /\ SubSeq(t, n + 1, Len(t)) \in Text
         /\ SubSeq(t, 1, Len(t)) = t
<1>1. Len(t) \in Nat /\ n \in Nat /\ n <= Len(t)
  BY TextIs
<1>2. SubSeq(t, n + 1, Len(t)) \in Text
  BY <1>1, Joins
<1>3. SubSeq(t, 1, Len(t)) = t
  BY DEF Text
<1>4. SubSeq(t, 1, n) \o SubSeq(t, n + 1, Len(t)) = t
  <2> DEFINE front == SubSeq(t, 1, n)
             rest  == SubSeq(t, n + 1, Len(t))
             whole == front \o rest
  <2>1. front \in Text /\ Len(front) = n /\ \A i \in 1..n : front[i] = t[i]
    BY <1>1, Joins
  <2>2. /\ Len(rest) = Len(t) - n
        /\ \A i \in 1..(Len(t) - n) : rest[i] = t[n + i]
    BY <1>1 DEF Text
  <2> HIDE DEF front, rest
  <2>3. /\ whole \in Text /\ Len(whole) = Len(t)
        /\ \A i \in 1..Len(t) : whole[i] = IF i <= n THEN front[i] ELSE rest[i - n]
    BY <1>1, <1>2, <2>1, <2>2 DEF Text, rest
  <2> HIDE DEF whole
  <2>4. ASSUME NEW i \in 1..Len(t) PROVE whole[i] = t[i]
    <3>1. CASE i <= n
      BY <1>1, <2>1, <2>3, <3>1
    <3>2. CASE ~(i <= n)
      <4>1. i - n \in 1..(Len(t) - n) /\ n + (i - n) = i
        BY <1>1, <3>2
      <4> QED BY <2>2, <2>3, <3>2, <4>1
    <3> QED BY <3>1, <3>2
  <2>5. whole = t
    BY <2>3, <2>4 DEF Text
  <2> QED BY <2>5 DEF whole, front, rest
<1> QED BY <1>2, <1>3, <1>4

\* The front of a text that keeps is the front of what it was.
LEMMA SameFronts ==
  ASSUME NEW s, Sound(s), NEW t, Keeps(s, t), t.emitted = s.emitted
  PROVE  SubSeq(t.out, 1, t.emitted) = SubSeq(s.out, 1, s.emitted)
<1> DEFINE n == s.emitted
           u == SubSeq(t.out, 1, n)
           v == SubSeq(s.out, 1, n)
<1>1. Sound(t)
  BY KeptIsSound
<1>2. /\ s.out \in Text /\ t.out \in Text /\ n \in Nat /\ n <= Len(s.out) /\ n <= Len(t.out)
  BY <1>1, Counts
<1>3. \A i \in 1..n : t.out[i] = s.out[i]
  BY DEF Keeps
<1> HIDE DEF n
<1>4. /\ u \in Text /\ Len(u) = n /\ \A i \in 1..n : u[i] = t.out[i]
      /\ v \in Text /\ Len(v) = n /\ \A i \in 1..n : v[i] = s.out[i]
  BY <1>2, Joins
<1> HIDE DEF u, v
<1>5. \A i \in 1..n : u[i] = v[i]
  BY <1>3, <1>4
<1>6. u = v
  BY <1>4, <1>5 DEF Text
<1> QED BY <1>6 DEF u, v, n

\* The session starts in the invariant.
LEMMA InitSession == Init => SessionInv
<1> SUFFICES ASSUME Init PROVE SessionInv
  OBVIOUS
<1>1. /\ caller \in Callers /\ m = Fresh /\ todo = <<>> /\ call = "idle" /\ finished = FALSE
      /\ pushes = 0 /\ got = <<>> /\ reply = "none"
  BY DEF Init
<1>2. caller.pushes \in Nat
  BY <1>1, CallersAssumption
<1>3. <<>> \in Text /\ Len(<<>>) = 0 /\ SubSeq(<<>>, 1, 0) = <<>>
  <2>1. <<>> \in Text
    BY Tokens
  <2>2. Len(<<>>) = 0 /\ SubSeq(<<>>, 1, 0) = <<>>
    OBVIOUS
  <2> QED BY <2>1, <2>2
<1>4. pushes \in 0..caller.pushes
  BY <1>1, <1>2
<1>5. Sound(m) /\ m.replay = <<>> /\ m.out = <<>> /\ m.emitted = 0
  BY <1>1, FreshIsSound
<1> QED BY <1>1, <1>3, <1>4, <1>5 DEF SessionInv

\* A step of the running push.
LEMMA StepKeeps ==
  ASSUME SessionInv, Step
  PROVE  /\ Keeps(m, m') /\ m'.replay = <<>> /\ todo' \in Text
         /\ intact' => intact /\ m'.emitted = m.emitted
<1> DEFINE c == Head(todo)
           t == process(m, c)
           u == [t EXCEPT !.replay = <<>>]
<1>1. /\ Sound(m) /\ todo \in Text /\ todo # <<>>
  BY DEF SessionInv, Step
<1>2. /\ m' = u /\ todo' = t.replay \o Tail(todo)
      /\ intact' = (intact /\ t.emitted = m.emitted)
  BY DEF Step
<1>3. c \in Token /\ Tail(todo) \in Text
  BY <1>1 DEF Text
<1> HIDE DEF c
<1>4. Keeps(m, t)
  BY <1>1, <1>3, ProcessKeeps
<1> HIDE DEF t
<1>5. t \in Machine
  BY <1>4 DEF Keeps, Sound
<1>6. t.replay \in Text
  BY <1>5, Fields
<1>7. todo' \in Text
  BY <1>2, <1>3, <1>6, Joins
<1>8. u \in Like(t) /\ u.replay = <<>> /\ u.emitted = t.emitted
  <2>1. <<>> \in Text
    BY Tokens
  <2>2. u \in Like(t)
    BY <1>5, <2>1, FieldsMove
  <2>3. u.replay = <<>> /\ u.emitted = t.emitted
    BY <1>5 DEF Machine
  <2> QED BY <2>2, <2>3
<1> HIDE DEF u
<1>9. Keeps(m, u)
  BY <1>1, <1>4, <1>8, ThenLike
<1> QED BY <1>2, <1>7, <1>8, <1>9

\* A push that returns hands over the rest of the text.
LEMMA ReturnKeeps ==
  ASSUME SessionInv, PushReturns
  PROVE  /\ Sound(m') /\ m'.replay = <<>> /\ m'.emitted = Len(m'.out) /\ got' \in Text
         /\ ~finished /\ intact => got' = SubSeq(m'.out, 1, m'.emitted)
<1> DEFINE n == Len(m.out)
           z == [m EXCEPT !.emitted = n]
<1>1. /\ Sound(m) /\ m.replay = <<>> /\ got \in Text
      /\ ~finished /\ intact => got = SubSeq(m.out, 1, m.emitted)
  BY DEF SessionInv
<1>2. m' = z /\ got' = got \o Delta
  BY DEF PushReturns
<1>3. /\ m \in Machine /\ n \in Nat /\ m.emitted \in 0..n /\ m.out \in Text
      /\ Len(m.frames) <= MAX_NESTING
  BY <1>1, Counts
<1>4. Delta = SubSeq(m.out, m.emitted + 1, n)
  <2>1. LessOf(m.emitted, n) = m.emitted
    BY <1>3 DEF LessOf
  <2> QED BY <2>1 DEF Delta
<1>5. Delta \in Text /\ SubSeq(m.out, 1, m.emitted) \o Delta = m.out
  BY <1>3, <1>4, FrontAndRest
<1>6. SubSeq(m.out, 1, n) = m.out
  BY <1>3, FrontAndRest
<1> HIDE DEF n
<1>7. /\ z \in Machine /\ z.out = m.out /\ z.emitted = n /\ z.frames = m.frames
      /\ z.replay = m.replay
  BY <1>3 DEF Machine
<1> HIDE DEF z
<1>8. z.emitted <= Len(z.out) /\ z.emitted = Len(z.out)
  BY <1>3, <1>7 DEF n
<1>9. Sound(z)
  BY <1>3, <1>7, <1>8 DEF Sound
<1>10. got' \in Text
  BY <1>1, <1>2, <1>5, Joins
<1>11. ~finished /\ intact => got' = SubSeq(z.out, 1, z.emitted)
  BY <1>1, <1>2, <1>5, <1>6, <1>7
<1> QED BY <1>1, <1>2, <1>7, <1>8, <1>9, <1>10, <1>11

\* Every call and every step of one preserves the invariant.
LEMMA NextSession == SessionInv /\ [Next]_vars => SessionInv'
<1> SUFFICES ASSUME SessionInv, [Next]_vars PROVE SessionInv'
  OBVIOUS
<1>1. /\ caller \in Callers /\ call \in {"idle", "push"} /\ finished \in BOOLEAN
      /\ pushes \in 0..caller.pushes
      /\ reply \in {"none", "delta", "nesting", "final", "finalized"}
      /\ Sound(m) /\ m.replay = <<>> /\ todo \in Text /\ got \in Text
      /\ finished => call = "idle"
      /\ ~finished /\ intact => got = SubSeq(m.out, 1, m.emitted)
      /\ ~finished /\ call = "idle" /\ ~m.error => m.emitted = Len(m.out)
  BY DEF SessionInv
<1>2. caller.chunks \subseteq Seq(STRING) /\ caller.pushes \in Nat
  BY <1>1, CallersAssumption
<1>3. <<>> \in Text
  BY Tokens
<1>4. ASSUME NEW chunk \in caller.chunks, Push(chunk) PROVE SessionInv'
  <2>1. chunk \in Text
    <3>1. chunk \in Seq(STRING) /\ STRING \subseteq Token
      BY <1>2, Tokens
    <3>2. chunk \in Seq(Token)
      BY <3>1, Widened
    <3> QED BY <3>2 DEF Text
  <2>2. /\ call = "idle" /\ ~finished /\ ~m.error /\ todo' = chunk /\ call' = "push"
        /\ pushes < caller.pushes /\ pushes' = pushes + 1
        /\ UNCHANGED <<caller, m, finished, got, intact, reply>>
    BY <1>4 DEF Push
  <2>3. pushes' \in 0..caller.pushes
    BY <1>1, <1>2, <2>2
  <2> QED BY <1>1, <2>1, <2>2, <2>3 DEF SessionInv
<1>5. CASE PushRefused
  <2>1. /\ reply' = "finalized"
        /\ UNCHANGED <<caller, m, todo, call, finished, pushes, fed, got, intact>>
    BY <1>5 DEF PushRefused
  <2> QED BY <1>1, <2>1 DEF SessionInv
<1>6. CASE Step
  <2>1. /\ call = "push" /\ UNCHANGED <<caller, call, finished, pushes, fed, got, reply>>
    BY <1>6 DEF Step
  <2>2. /\ Keeps(m, m') /\ m'.replay = <<>> /\ todo' \in Text
        /\ intact' => intact /\ m'.emitted = m.emitted
    BY <1>6, StepKeeps
  <2>3. Sound(m')
    BY <2>2, KeptIsSound
  <2>4. ~finished' /\ intact' => got' = SubSeq(m'.out, 1, m'.emitted)
    <3> SUFFICES ASSUME ~finished', intact' PROVE got' = SubSeq(m'.out, 1, m'.emitted)
      OBVIOUS
    <3>1. SubSeq(m'.out, 1, m'.emitted) = SubSeq(m.out, 1, m.emitted)
      BY <1>1, <2>2, SameFronts
    <3> QED BY <1>1, <2>1, <2>2, <3>1
  <2> QED BY <1>1, <2>1, <2>2, <2>3, <2>4 DEF SessionInv
<1>7. CASE PushReturns
  <2>1. /\ call' = "idle" /\ reply' = "delta"
        /\ UNCHANGED <<caller, todo, finished, pushes, fed, intact>>
    BY <1>7 DEF PushReturns
  <2>2. /\ Sound(m') /\ m'.replay = <<>> /\ m'.emitted = Len(m'.out) /\ got' \in Text
        /\ ~finished /\ intact => got' = SubSeq(m'.out, 1, m'.emitted)
    BY <1>7, ReturnKeeps
  <2> QED BY <1>1, <2>1, <2>2 DEF SessionInv
<1>8. CASE PushFails
  <2>1. /\ m.error /\ call' = "idle" /\ todo' = <<>> /\ reply' = "nesting"
        /\ UNCHANGED <<caller, m, finished, pushes, fed, got, intact>>
    BY <1>8 DEF PushFails
  <2> QED BY <1>1, <1>3, <2>1 DEF SessionInv
<1>9. CASE End
  <2>1. /\ call = "idle" /\ finished' = TRUE /\ reply' = "final"
        /\ m' = IF finished THEN m ELSE Finalized(m)
        /\ UNCHANGED <<caller, todo, call, pushes, fed, got, intact>>
    BY <1>9 DEF End
  <2>2. Sound(m') /\ m'.replay = <<>>
    <3>1. Sound(Finalized(m)) /\ Finalized(m).replay = m.replay
      BY <1>1, FinalizedIsSound
    <3> QED BY <1>1, <2>1, <3>1
  <2> QED BY <1>1, <2>1, <2>2 DEF SessionInv
<1>10. CASE Reset
  <2>1. /\ call = "idle" /\ m' = Fresh /\ finished' = FALSE /\ pushes' = 0 /\ got' = <<>>
        /\ reply' = "none" /\ UNCHANGED <<caller, todo, call>>
    BY <1>10 DEF Reset
  <2>2. Sound(m') /\ m'.replay = <<>> /\ m'.out = <<>> /\ m'.emitted = 0
    BY <2>1, FreshIsSound
  <2>3. Len(<<>>) = 0 /\ SubSeq(<<>>, 1, 0) = <<>>
    OBVIOUS
  <2>4. pushes' \in 0..caller'.pushes
    BY <1>2, <2>1
  <2> QED BY <1>1, <1>3, <2>1, <2>2, <2>3, <2>4 DEF SessionInv
<1>11. CASE UNCHANGED vars
  BY <1>1, <1>11 DEF vars, SessionInv
<1> QED BY <1>4, <1>5, <1>6, <1>7, <1>8, <1>9, <1>10, <1>11 DEF Next

\* The invariant gives the shapes of the struct's fields.
LEMMA SessionShapes == SessionInv => TypeOK
<1> SUFFICES ASSUME SessionInv PROVE TypeOK
  OBVIOUS
<1>1. /\ call \in {"idle", "push"} /\ finished \in BOOLEAN /\ pushes \in 0..caller.pushes
      /\ reply \in {"none", "delta", "nesting", "final", "finalized"}
      /\ Sound(m) /\ m.replay = <<>>
  BY DEF SessionInv
<1>2. /\ m \in Machine /\ m.emitted \in 0..Len(m.out) /\ Len(m.frames) <= MAX_NESTING
      /\ m.frames \in Seq(Frame)
  BY <1>1, Counts
<1>3. m.pos \in {"Value", "MemberValue", "Key", "Colon", "AfterValue"}
  BY <1>2, Fields DEF Positions
<1>4. m.pending.kind \in {"none", "Num", "Word", "TopNum", "TopWord", "TopStr"}
  BY <1>2, Fields, PendingKinds
<1>5. m.comment.kind \in {"none", "Hash", "Slash", "Line", "Block"}
  <2>1. m.comment \in Comment
    BY <1>2, Fields
  <2> QED BY <2>1 DEF Comment
<1>6. m.paren_gate.kind \in {"none", "FirstChar", "TailCheck"}
  <2>1. m.paren_gate \in Gate
    BY <1>2, Fields
  <2> QED BY <2>1 DEF Gate
<1>7. ASSUME NEW f \in Frame PROVE FrameShape(f)
  <2>1. {f.begun, f.colon, f.comma, f.groupish} \subseteq BOOLEAN
    BY FrameFields, Zenon
  <2> QED BY <2>1, FrameFields DEF FrameShape, Kinds
<1>8. \A i \in DOMAIN m.frames : FrameShape(m.frames[i])
  <2>1. \A i \in DOMAIN m.frames : m.frames[i] \in Frame
    BY <1>2
  <2> QED BY <1>7, <2>1
<1> QED BY <1>1, <1>2, <1>3, <1>4, <1>5, <1>6, <1>8 DEF TypeOK

\* The struct's fields keep their shapes, the stack stays under the nesting cap
\* and the delta cursor inside the text, through every push, end and reset, for
\* every text and every cap.
THEOREM Typed == Spec => []TypeOK
<1>1. Spec => []SessionInv
  BY InitSession, NextSession, PTL DEF Spec
<1> QED BY <1>1, SessionShapes, PTL

\* As long as no repair reached behind the delta cursor, the deltas of the
\* pushes, joined, are the text emitted so far (the contract of push), however
\* the text is cut into chunks.
THEOREM DeltasJoinUp == Spec => []DeltasConcatenate
<1>1. Spec => []SessionInv
  BY InitSession, NextSession, PTL DEF Spec
<1>2. SessionInv => DeltasConcatenate
  <2> SUFFICES ASSUME SessionInv, Answered, intact, ~finished PROVE got = m.out
    BY DEF DeltasConcatenate
  <2>1. Sound(m) /\ got = SubSeq(m.out, 1, m.emitted) /\ m.emitted = Len(m.out)
    BY DEF SessionInv, Answered
  <2>2. m.out \in Text /\ Len(m.out) \in 0..Len(m.out)
    BY <2>1, Counts
  <2>3. SubSeq(m.out, 1, Len(m.out)) = m.out
    BY <2>2, FrontAndRest
  <2> QED BY <2>1, <2>3
<1> QED BY <1>1, <1>2, PTL

\* A step of a push rewrites nothing that it leaves in front of the delta
\* cursor, and never moves the cursor on: a repair of text already handed over
\* always shows as a cursor that went back.
HandedOverStays ==
  [][Step => /\ m'.emitted <= m.emitted
             /\ \A i \in 1..m'.emitted : m'.out[i] = m.out[i]]_vars

\* No repair rewrites handed-over text without pulling the cursor back.
THEOREM RepairsShow == Spec => HandedOverStays
<1>1. Spec => []SessionInv
  BY InitSession, NextSession, PTL DEF Spec
<1>2. SessionInv /\ [Next]_vars =>
        [Step => /\ m'.emitted <= m.emitted
                 /\ \A i \in 1..m'.emitted : m'.out[i] = m.out[i]]_vars
  <2> SUFFICES ASSUME SessionInv, Step
               PROVE  /\ m'.emitted <= m.emitted
                      /\ \A i \in 1..m'.emitted : m'.out[i] = m.out[i]
    OBVIOUS
  <2>1. Keeps(m, m')
    BY StepKeeps
  <2> QED BY <2>1 DEF Keeps
<1> QED BY <1>1, <1>2, PTL DEF Spec, HandedOverStays

-----------------------------------------------------------------------------
(* Where things stand in the text: brackets, members, marks.               *)

Bracket(kind) == IF kind = "Obj" THEN "{" ELSE "["

\* A mark covers one strictly empty element, with or without its separator.
Spans(out, e) ==
  /\ e.start < e.end /\ e.end <= Len(out)
  /\ LET raw == SubSeq(out, e.start + 1, e.end)
     IN  raw \in EmptyRendering \/ (Head(raw) = SepTok /\ Tail(raw) \in EmptyRendering)

\* The bracket of a frame, and its member in flight behind the bracket.
StandsAt(out, f) ==
  /\ f.brace < Len(out) /\ out[f.brace + 1] = Bracket(f.kind)
  /\ f.start # None => f.brace < f.start /\ f.start <= Len(out) /\ f.begun

\* One frame is inside the member in flight of another.
Nests(f, g) == f.start # None /\ f.start <= g.brace

\* A mark is in front of a frame, or in the body of one that has members and is no group.
ClearOf(e, f) == e.end <= f.brace \/ (f.brace < e.start /\ f.begun /\ f.kind # "Paren")

\* A mark is in no member in flight that goes on, but for what is inside a frame there.
ClearBetween(e, f, g) == e.end <= f.start \/ g.brace < e.start

\* Every frame is inside the members of the frames below it, the root is at the front
\* of the text, and no mark touches a bracket or what leads to a frame.
Stands(out, frames, marks) ==
  /\ \A i \in 1..Len(frames) : StandsAt(out, frames[i])
  /\ \A j \in 1..Len(frames) : \A i \in 1..(j - 1) : Nests(frames[i], frames[j])
  /\ frames # <<>> => frames[1].brace = 0
  /\ \A k \in 1..Len(marks) : Spans(out, marks[k])
  /\ \A k \in 1..Len(marks) : \A i \in 1..Len(frames) : ClearOf(marks[k], frames[i])
  /\ \A k \in 1..Len(marks) : \A i \in 1..(Len(frames) - 1) :
       ClearBetween(marks[k], frames[i], frames[i + 1])

\* The frames and the marks of a machine have their fields.
LEMMA Placements ==
  ASSUME NEW frames \in Seq(Frame), NEW marks \in Seq(Mark)
  PROVE  /\ Len(frames) \in Nat /\ Len(marks) \in Nat
         /\ \A i \in 1..Len(frames) :
              /\ frames[i] \in Frame /\ frames[i].brace \in Nat
              /\ frames[i].start \in Nat \cup {None} /\ frames[i].begun \in BOOLEAN
              /\ frames[i].kind \in Kinds
         /\ \A k \in 1..Len(marks) :
              marks[k] \in Mark /\ marks[k].start \in Nat /\ marks[k].end \in Int
<1>1. Len(frames) \in Nat /\ Len(marks) \in Nat
  OBVIOUS
<1>2. \A i \in 1..Len(frames) : frames[i] \in Frame
  OBVIOUS
<1>3. \A k \in 1..Len(marks) : marks[k] \in Mark
  OBVIOUS
<1>4. \A e \in Mark : e.start \in Nat /\ e.end \in Int
  BY DEF Mark
<1>5. \A k \in 1..Len(marks) : marks[k].start \in Nat /\ marks[k].end \in Int
  BY <1>3, <1>4, Zenon
<1> QED BY <1>1, <1>2, <1>3, <1>5, FrameFields

\* What lies in the common front of two texts is the same.
LEMMA FrontsAgree ==
  ASSUME NEW out \in Text, NEW new \in Text, NEW n \in Nat, n <= Len(out), n <= Len(new),
         SameFront(new, out, n), NEW a \in Nat, NEW b \in Int, b <= n
  PROVE  SubSeq(new, a + 1, b) = SubSeq(out, a + 1, b)
<1> DEFINE u == SubSeq(new, a + 1, b)
           v == SubSeq(out, a + 1, b)
<1>1. Len(out) \in Nat /\ Len(new) \in Nat
  BY TextIs
<1>2. u \in Text /\ v \in Text
  BY <1>1, Joins
<1>3. /\ Len(u) = (IF a + 1 <= b THEN b - a ELSE 0)
      /\ \A i \in 1..Len(u) : u[i] = new[a + i]
  BY <1>1 DEF Text
<1>4. /\ Len(v) = (IF a + 1 <= b THEN b - a ELSE 0)
      /\ \A i \in 1..Len(v) : v[i] = out[a + i]
  BY <1>1 DEF Text
<1> HIDE DEF u, v
<1>5. ASSUME NEW i \in 1..Len(u) PROVE u[i] = v[i]
  <2>1. i \in 1..Len(v) /\ a + i \in 1..n
    BY <1>1, <1>3, <1>4
  <2>2. new[a + i] = out[a + i]
    BY <2>1 DEF SameFront
  <2> QED BY <1>3, <1>4, <2>1, <2>2
<1>6. Len(u) = Len(v)
  BY <1>3, <1>4
<1>7. u = v
  BY <1>2, <1>5, <1>6 DEF Text
<1> QED BY <1>7 DEF u, v

\* A mark in the common front of two texts covers the same.
LEMMA SpanStays ==
  ASSUME NEW out \in Text, NEW new \in Text, NEW n \in Nat, n <= Len(out), n <= Len(new),
         SameFront(new, out, n), NEW e, e.start \in Nat, e.end \in Int, e.end <= n, Spans(out, e)
  PROVE  Spans(new, e)
<1> DEFINE u == SubSeq(new, e.start + 1, e.end)
           v == SubSeq(out, e.start + 1, e.end)
<1>1. u = v
  BY FrontsAgree
<1>2. Len(out) \in Nat /\ Len(new) \in Nat
  BY TextIs
<1>3. e.start < e.end /\ e.end <= Len(new)
  BY <1>2 DEF Spans
<1>4. v \in EmptyRendering \/ (Head(v) = SepTok /\ Tail(v) \in EmptyRendering)
  BY DEF Spans
<1> HIDE DEF v
<1>5. u \in EmptyRendering \/ (Head(u) = SepTok /\ Tail(u) \in EmptyRendering)
  BY <1>1, <1>4, Zenon
<1> QED BY <1>3, <1>5 DEF Spans

\* A text may change behind everything that stands in it.
LEMMA TextStands ==
  ASSUME NEW out \in Text, NEW new \in Text, NEW frames \in Seq(Frame), NEW marks \in Seq(Mark),
         Stands(out, frames, marks),
         NEW n \in Nat, n <= Len(out), n <= Len(new), SameFront(new, out, n),
         \A i \in 1..Len(frames) :
           frames[i].brace < n /\ (frames[i].start # None => frames[i].start <= n),
         \A k \in 1..Len(marks) : marks[k].end <= n
  PROVE  Stands(new, frames, marks)
<1>1. Len(out) \in Nat /\ Len(new) \in Nat
  BY TextIs
<1>2. ASSUME NEW i \in 1..Len(frames) PROVE StandsAt(new, frames[i])
  <2> DEFINE f == frames[i]
  <2>1. f \in Frame /\ StandsAt(out, f) /\ f.brace < n /\ (f.start # None => f.start <= n)
    BY <1>2, Placements DEF Stands
  <2> HIDE DEF f
  <2>2. f.brace \in Nat /\ f.start \in Nat \cup {None}
    BY <2>1, FrameFields
  <2>3. f.brace + 1 \in 1..n
    BY <2>1, <2>2
  <2>4. new[f.brace + 1] = out[f.brace + 1]
    BY <2>3 DEF SameFront
  <2>5. f.brace < Len(new) /\ (f.start # None => f.start <= Len(new))
    BY <1>1, <2>1, <2>2
  <2>6. StandsAt(new, f)
    BY <2>1, <2>4, <2>5 DEF StandsAt
  <2> QED BY <2>6 DEF f
<1>3. ASSUME NEW k \in 1..Len(marks) PROVE Spans(new, marks[k])
  <2>1. Spans(out, marks[k])
    BY <1>3 DEF Stands
  <2>2. marks[k].start \in Nat /\ marks[k].end \in Int
    BY <1>3, Placements
  <2> QED BY <1>3, <2>1, <2>2, SpanStays
<1> QED BY <1>2, <1>3 DEF Stands

\* Everything that stands in a text stands in front of its end.
LEMMA StandsInText ==
  ASSUME NEW out \in Text, NEW frames \in Seq(Frame), NEW marks \in Seq(Mark),
         Stands(out, frames, marks)
  PROVE  /\ \A i \in 1..Len(frames) : frames[i].brace < Len(out)
                                      /\ (frames[i].start # None => frames[i].start <= Len(out))
         /\ \A k \in 1..Len(marks) : marks[k].end <= Len(out)
BY DEF Stands, StandsAt, Spans

\* What is emitted comes behind everything that stands.
LEMMA EmitStands ==
  ASSUME NEW out \in Text, NEW frames \in Seq(Frame), NEW marks \in Seq(Mark),
         Stands(out, frames, marks), NEW toks \in Text
  PROVE  Stands(out \o toks, frames, marks)
<1> DEFINE new == out \o toks
           n   == Len(out)
<1>1. n \in Nat /\ Len(toks) \in Nat
  BY TextIs
<1>2. new \in Text /\ Len(new) = n + Len(toks) /\ \A i \in 1..n : new[i] = out[i]
  BY Joins
<1> HIDE DEF new
<1>3. n <= Len(new) /\ SameFront(new, out, n) /\ n <= Len(out)
  BY <1>1, <1>2 DEF SameFront
<1>4. Stands(new, frames, marks)
  BY <1>1, <1>2, <1>3, StandsInText, TextStands
<1> QED BY <1>4 DEF new

\* The frames that nest are under each other.
LEMMA Depths ==
  ASSUME NEW out \in Text, NEW frames \in Seq(Frame), NEW marks \in Seq(Mark),
         Stands(out, frames, marks), NEW j \in 1..Len(frames), NEW i \in 1..(j - 1)
  PROVE  /\ frames[i].start \in Nat /\ frames[i].begun
         /\ frames[i].brace < frames[i].start /\ frames[i].start <= frames[j].brace
<1>1. i \in 1..Len(frames)
  BY Placements
<1>2. frames[i].start \in Nat \cup {None}
  BY <1>1, Placements
<1>3. StandsAt(out, frames[i]) /\ Nests(frames[i], frames[j])
  BY <1>1 DEF Stands
<1> QED BY <1>2, <1>3 DEF StandsAt, Nests

\* Frames may be noted anew where only the last one's member moves.
LEMMA FramesStand ==
  ASSUME NEW out \in Text, NEW frames \in Seq(Frame), NEW marks \in Seq(Mark),
         Stands(out, frames, marks), NEW new \in Seq(Frame), Len(new) = Len(frames),
         \A i \in 1..Len(frames) :
           /\ new[i].kind = frames[i].kind /\ new[i].brace = frames[i].brace
           /\ frames[i].begun => new[i].begun,
         \A i \in 1..(Len(frames) - 1) : new[i].start = frames[i].start,
         frames # <<>> =>
           LET f == new[Len(frames)]
           IN  f.start # None => f.brace < f.start /\ f.start <= Len(out) /\ f.begun
  PROVE  Stands(out, new, marks)
<1> DEFINE n == Len(frames)
<1>1. n \in Nat
  OBVIOUS
<1>2. ASSUME NEW i \in 1..n PROVE StandsAt(out, new[i])
  <2>1. StandsAt(out, frames[i])
    BY DEF Stands
  <2>2. CASE i = n
    <3>1. frames # <<>>
      BY <1>1, <1>2
    <3> QED BY <2>1, <2>2, <3>1 DEF StandsAt
  <2>3. CASE i # n
    <3>1. i \in 1..(n - 1)
      BY <1>1, <2>3
    <3> QED BY <2>1, <3>1 DEF StandsAt
  <2> QED BY <2>2, <2>3
<1>3. ASSUME NEW j \in 1..n, NEW i \in 1..(j - 1) PROVE Nests(new[i], new[j])
  <2>1. Nests(frames[i], frames[j])
    BY DEF Stands
  <2>2. i \in 1..(n - 1)
    BY <1>1
  <2> QED BY <2>1, <2>2 DEF Nests
<1>4. new # <<>> => new[1].brace = 0
  <2> SUFFICES ASSUME new # <<>> PROVE new[1].brace = 0
    OBVIOUS
  <2>1. frames # <<>> /\ 1 \in 1..n
    BY <1>1
  <2> QED BY <2>1 DEF Stands
<1>5. ASSUME NEW k \in 1..Len(marks), NEW i \in 1..n PROVE ClearOf(marks[k], new[i])
  <2>1. ClearOf(marks[k], frames[i])
    BY DEF Stands
  <2> QED BY <2>1 DEF ClearOf
<1>6. ASSUME NEW k \in 1..Len(marks), NEW i \in 1..(n - 1) PROVE ClearBetween(marks[k], new[i], new[i + 1])
  <2>1. ClearBetween(marks[k], frames[i], frames[i + 1])
    BY DEF Stands
  <2>2. i + 1 \in 1..n
    BY <1>1
  <2> QED BY <2>1, <2>2 DEF ClearBetween
<1>7. \A k \in 1..Len(marks) : Spans(out, marks[k])
  BY DEF Stands
<1> QED BY <1>2, <1>3, <1>4, <1>5, <1>6, <1>7 DEF Stands

\* Another frame in the place of the last.
LEMMA LastStands ==
  ASSUME NEW out \in Text, NEW frames \in Seq(Frame), NEW marks \in Seq(Mark),
         Stands(out, frames, marks), frames # <<>>, NEW f \in Frame,
         f.kind = frames[Len(frames)].kind, f.brace = frames[Len(frames)].brace,
         frames[Len(frames)].begun => f.begun,
         f.start # None => f.brace < f.start /\ f.start <= Len(out) /\ f.begun
  PROVE  Stands(out, [frames EXCEPT ![Len(frames)] = f], marks)
<1> DEFINE n   == Len(frames)
           new == [frames EXCEPT ![n] = f]
<1>1. n \in Nat \ {0}
  OBVIOUS
<1>2. new \in Seq(Frame) /\ Len(new) = n
  BY <1>1
<1>3. new[n] = f /\ \A i \in 1..(n - 1) : new[i] = frames[i]
  BY <1>1
<1> HIDE DEF new
<1>4. \A i \in 1..n :
        /\ new[i].kind = frames[i].kind /\ new[i].brace = frames[i].brace
        /\ frames[i].begun => new[i].begun
  <2> SUFFICES ASSUME NEW i \in 1..n
               PROVE  /\ new[i].kind = frames[i].kind /\ new[i].brace = frames[i].brace
                      /\ frames[i].begun => new[i].begun
    OBVIOUS
  <2>1. i = n \/ i \in 1..(n - 1)
    BY <1>1
  <2> QED BY <1>3, <2>1
<1>5. Stands(out, new, marks)
  BY <1>2, <1>3, <1>4, FramesStand
<1> QED BY <1>5 DEF new

\* The frames below the last.
Front(frames) == SubSeq(frames, 1, Len(frames) - 1)

\* The last frame goes.
LEMMA FrontStands ==
  ASSUME NEW out \in Text, NEW frames \in Seq(Frame), NEW marks \in Seq(Mark),
         Stands(out, frames, marks), frames # <<>>
  PROVE  /\ Front(frames) \in Seq(Frame) /\ Len(Front(frames)) = Len(frames) - 1
         /\ \A i \in 1..(Len(frames) - 1) : Front(frames)[i] = frames[i]
         /\ Stands(out, Front(frames), marks)
<1> DEFINE n   == Len(frames) - 1
           new == Front(frames)
<1>1. n \in Nat /\ Len(frames) = n + 1
  OBVIOUS
<1>2. new \in Seq(Frame) /\ Len(new) = n /\ \A i \in 1..n : new[i] = frames[i]
  BY <1>1 DEF Front
<1> HIDE DEF new
<1>3. \A i \in 1..n : StandsAt(out, new[i])
  BY <1>1, <1>2 DEF Stands
<1>4. ASSUME NEW j \in 1..n, NEW i \in 1..(j - 1) PROVE Nests(new[i], new[j])
  BY <1>1, <1>2 DEF Stands
<1>5. new # <<>> => new[1].brace = 0
  <2> SUFFICES ASSUME new # <<>> PROVE new[1].brace = 0
    OBVIOUS
  <2>1. 1 \in 1..n
    BY <1>1, <1>2
  <2> QED BY <1>2, <2>1 DEF Stands
<1>6. ASSUME NEW k \in 1..Len(marks), NEW i \in 1..n PROVE ClearOf(marks[k], new[i])
  BY <1>1, <1>2 DEF Stands
<1>7. ASSUME NEW k \in 1..Len(marks), NEW i \in 1..(n - 1) PROVE ClearBetween(marks[k], new[i], new[i + 1])
  <2>1. i \in 1..n /\ i + 1 \in 1..n /\ i \in 1..(Len(frames) - 1)
    BY <1>1
  <2> QED BY <1>2, <2>1 DEF Stands
<1>8. \A k \in 1..Len(marks) : Spans(out, marks[k])
  BY DEF Stands
<1>9. Stands(out, new, marks)
  BY <1>2, <1>3, <1>4, <1>5, <1>6, <1>7, <1>8 DEF Stands
<1> QED BY <1>2, <1>9 DEF new

\* The text changes behind the bracket of the last frame, which goes.
LEMMA DrainStands ==
  ASSUME NEW out \in Text, NEW frames \in Seq(Frame), NEW marks \in Seq(Mark),
         Stands(out, frames, marks), frames # <<>>, NEW new \in Text, NEW n \in Nat,
         n = frames[Len(frames)].brace, n <= Len(new), SameFront(new, out, n),
         \A k \in 1..Len(marks) : marks[k].end <= n
  PROVE  Stands(new, Front(frames), marks)
<1> DEFINE front == Front(frames)
<1>1. /\ front \in Seq(Frame) /\ Len(front) = Len(frames) - 1
      /\ \A i \in 1..(Len(frames) - 1) : front[i] = frames[i]
      /\ Stands(out, front, marks)
  BY FrontStands
<1> HIDE DEF front
<1>2. Len(frames) \in Nat \ {0} /\ Len(frames) \in 1..Len(frames)
  OBVIOUS
<1>3. n <= Len(out)
  BY <1>2, StandsInText, TextIs
<1>4. ASSUME NEW i \in 1..Len(front)
      PROVE  front[i].brace < n /\ (front[i].start # None => front[i].start <= n)
  <2>1. i \in 1..(Len(frames) - 1) /\ i \in 1..Len(frames)
    BY <1>1, <1>2
  <2>2. /\ frames[i].brace \in Nat /\ frames[i].start \in Nat
        /\ frames[i].brace < frames[i].start /\ frames[i].start <= n
    BY <1>2, <2>1, Depths, Placements
  <2> QED BY <1>1, <2>1, <2>2
<1>5. Stands(new, front, marks)
  BY <1>1, <1>3, <1>4, TextStands
<1> QED BY <1>5 DEF front

\* The text is cut in the body of the last frame.
LEMMA CutStands ==
  ASSUME NEW out \in Text, NEW frames \in Seq(Frame), NEW marks \in Seq(Mark),
         Stands(out, frames, marks), frames # <<>>, NEW n \in Nat, n <= Len(out),
         frames[Len(frames)].brace < n,
         frames[Len(frames)].start # None => frames[Len(frames)].start <= n,
         \A k \in 1..Len(marks) : marks[k].end <= n
  PROVE  Stands(SubSeq(out, 1, n), frames, marks)
<1> DEFINE new == SubSeq(out, 1, n)
<1>1. new \in Text /\ Len(new) = n /\ \A i \in 1..n : new[i] = out[i]
  BY Joins
<1> HIDE DEF new
<1>2. SameFront(new, out, n) /\ n <= Len(new)
  BY <1>1 DEF SameFront
<1>3. Len(frames) \in Nat \ {0} /\ Len(frames) \in 1..Len(frames)
  OBVIOUS
<1>4. ASSUME NEW i \in 1..Len(frames)
      PROVE  frames[i].brace < n /\ (frames[i].start # None => frames[i].start <= n)
  <2>1. CASE i = Len(frames)
    BY <2>1
  <2>2. CASE i # Len(frames)
    <3>1. i \in 1..(Len(frames) - 1)
      BY <1>3, <2>2
    <3>2. /\ frames[i].brace \in Nat /\ frames[i].start \in Nat
          /\ frames[i].brace < frames[i].start /\ frames[i].start <= frames[Len(frames)].brace
          /\ frames[Len(frames)].brace \in Nat
      BY <1>3, <3>1, Depths, Placements
    <3> QED BY <3>2
  <2> QED BY <2>1, <2>2
<1>5. Stands(new, frames, marks)
  BY <1>1, <1>2, <1>4, TextStands
<1> QED BY <1>5 DEF new

\* A frame opens inside the member in flight of the last, or at the front of the text.
LEMMA OpenStands ==
  ASSUME NEW out \in Text, NEW frames \in Seq(Frame), NEW marks \in Seq(Mark),
         Stands(out, frames, marks), NEW f \in Frame, NEW c \in Token, c = Bracket(f.kind),
         f.brace = Len(out), f.start = None,
         frames = <<>> => out = <<>>,
         frames # <<>> => /\ frames[Len(frames)].start # None
                          /\ \A k \in 1..Len(marks) : marks[k].end <= frames[Len(frames)].start
  PROVE  Stands(out \o <<c>>, Append(frames, f), marks)
<1> DEFINE n    == Len(frames)
           text == out \o <<c>>
           new  == Append(frames, f)
<1>1. n \in Nat /\ Len(out) \in Nat /\ <<c>> \in Text
  <2>1. n \in Nat
    OBVIOUS
  <2> QED BY <2>1, TextIs, Tokens
<1>2. text \in Text /\ Len(text) = Len(out) + 1 /\ text[Len(out) + 1] = c
  <2>1. Len(<<c>>) = 1 /\ <<c>>[1] = c
    OBVIOUS
  <2>2. text \in Text /\ Len(text) = Len(out) + 1
    BY <1>1, <2>1, Joins
  <2>3. text[Len(out) + 1] = c
    BY <1>1, <2>1 DEF Text
  <2> QED BY <2>2, <2>3
<1>3. new \in Seq(Frame) /\ Len(new) = n + 1 /\ new[n + 1] = f /\ \A i \in 1..n : new[i] = frames[i]
  BY <1>1
<1>4. Stands(text, frames, marks)
  BY <1>1, EmitStands
<1> HIDE DEF text, new
<1>6. ASSUME NEW i \in 1..(n + 1) PROVE StandsAt(text, new[i])
  <2>1. CASE i = n + 1
    BY <1>1, <1>2, <1>3, <2>1 DEF StandsAt
  <2>2. CASE i # n + 1
    <3>1. i \in 1..n
      BY <1>1, <2>2
    <3> QED BY <1>3, <1>4, <3>1 DEF Stands
  <2> QED BY <2>1, <2>2
<1>7. ASSUME NEW j \in 1..(n + 1), NEW i \in 1..(j - 1) PROVE Nests(new[i], new[j])
  <2>1. i \in 1..n /\ new[i] = frames[i]
    BY <1>1, <1>3
  <2>2. CASE j = n + 1
    <3>1. frames[i].start # None
      <4>1. CASE i = n
        <5>1. frames # <<>>
          BY <1>1, <2>1
        <5> QED BY <4>1, <5>1
      <4>2. CASE i # n
        <5>1. n \in 1..n /\ i \in 1..(n - 1)
          BY <1>1, <2>1, <4>2
        <5>2. frames[i].start \in Nat
          BY <5>1, Depths
        <5> QED BY <5>2 DEF None
      <4> QED BY <4>1, <4>2
    <3>2. frames[i].start <= Len(out)
      BY <2>1, <3>1, StandsInText
    <3> QED BY <1>3, <2>1, <2>2, <3>1, <3>2 DEF Nests
  <2>3. CASE j # n + 1
    <3>1. j \in 1..n
      BY <1>1, <2>3
    <3> QED BY <1>3, <2>1, <3>1 DEF Stands
  <2> QED BY <2>2, <2>3
<1>8. new[1].brace = 0
  <2>1. CASE frames = <<>>
    <3>1. n = 0 /\ Len(out) = 0
      BY <2>1
    <3> QED BY <1>3, <3>1
  <2>2. CASE frames # <<>>
    <3>1. 1 \in 1..n
      BY <1>1, <2>2
    <3> QED BY <1>3, <2>2, <3>1 DEF Stands
  <2> QED BY <2>1, <2>2
<1>9. ASSUME NEW k \in 1..Len(marks), NEW i \in 1..(n + 1) PROVE ClearOf(marks[k], new[i])
  <2>1. CASE i = n + 1
    <3>1. marks[k].end <= Len(out)
      BY StandsInText
    <3> QED BY <1>3, <2>1, <3>1 DEF ClearOf
  <2>2. CASE i # n + 1
    <3>1. i \in 1..n
      BY <1>1, <2>2
    <3> QED BY <1>3, <3>1 DEF Stands
  <2> QED BY <2>1, <2>2
<1>10. ASSUME NEW k \in 1..Len(marks), NEW i \in 1..n PROVE ClearBetween(marks[k], new[i], new[i + 1])
  <2>1. CASE i = n
    <3>1. frames # <<>>
      BY <1>1, <1>10
    <3>2. marks[k].end <= new[i].start
      BY <1>3, <2>1, <3>1
    <3> QED BY <3>2 DEF ClearBetween
  <2>2. CASE i # n
    <3>1. i \in 1..(n - 1) /\ i + 1 \in 1..n
      BY <1>1, <2>2
    <3> QED BY <1>3, <3>1 DEF Stands
  <2> QED BY <2>1, <2>2
<1>11. \A k \in 1..Len(marks) : Spans(text, marks[k])
  BY <1>4 DEF Stands
<1>12. Len(new) - 1 = n
  BY <1>1, <1>3
<1>13. Stands(text, new, marks)
  BY <1>3, <1>6, <1>7, <1>8, <1>9, <1>10, <1>11, <1>12 DEF Stands
<1> QED BY <1>13 DEF text, new

\* Marks may be noted anew where they stand, and may go.
LEMMA MarksStand ==
  ASSUME NEW out \in Text, NEW frames \in Seq(Frame), NEW marks \in Seq(Mark),
         Stands(out, frames, marks), NEW new \in Seq(Mark),
         \A k \in 1..Len(new) : \E l \in 1..Len(marks) :
           new[k].start = marks[l].start /\ new[k].end = marks[l].end
  PROVE  Stands(out, frames, new)
<1>1. ASSUME NEW k \in 1..Len(new)
      PROVE  /\ Spans(out, new[k])
             /\ \A i \in 1..Len(frames) : ClearOf(new[k], frames[i])
             /\ \A i \in 1..(Len(frames) - 1) : ClearBetween(new[k], frames[i], frames[i + 1])
  <2> DEFINE e == new[k]
  <2>1. PICK l \in 1..Len(marks) : e.start = marks[l].start /\ e.end = marks[l].end
    OBVIOUS
  <2> DEFINE d == marks[l]
  <2>2. /\ Spans(out, d) /\ \A i \in 1..Len(frames) : ClearOf(d, frames[i])
        /\ \A i \in 1..(Len(frames) - 1) : ClearBetween(d, frames[i], frames[i + 1])
    BY DEF Stands
  <2>3. e.start = d.start /\ e.end = d.end
    BY <2>1
  <2> HIDE DEF e, d
  <2>4. Spans(out, e)
    BY <2>2, <2>3 DEF Spans
  <2>5. \A i \in 1..Len(frames) : ClearOf(e, frames[i])
    BY <2>2, <2>3 DEF ClearOf
  <2>6. \A i \in 1..(Len(frames) - 1) : ClearBetween(e, frames[i], frames[i + 1])
    BY <2>2, <2>3 DEF ClearBetween
  <2> QED BY <2>4, <2>5, <2>6 DEF e
<1> QED BY <1>1 DEF Stands

\* A mark is added for the element in flight of the last frame, where no group is open.
LEMMA MarkStands ==
  ASSUME NEW out \in Text, NEW frames \in Seq(Frame), NEW marks \in Seq(Mark),
         Stands(out, frames, marks), frames # <<>>, NEW e \in Mark, Spans(out, e),
         e.start = frames[Len(frames)].start,
         \A i \in 1..Len(frames) : frames[i].kind # "Paren"
  PROVE  Stands(out, frames, Append(marks, e))
<1> DEFINE n   == Len(frames)
           new == Append(marks, e)
<1>1. n \in Nat \ {0} /\ n \in 1..n /\ Len(marks) \in Nat
  OBVIOUS
<1>2. e.start \in Nat
  BY DEF Mark
<1>3. new \in Seq(Mark) /\ Len(new) = Len(marks) + 1 /\ new[Len(marks) + 1] = e
      /\ \A k \in 1..Len(marks) : new[k] = marks[k]
  BY <1>1
<1> HIDE DEF new
<1>4. ASSUME NEW i \in 1..n PROVE frames[i].begun /\ frames[i].brace < e.start
  <2>1. CASE i = n
    <3>1. StandsAt(out, frames[n]) /\ frames[n].start # None
      BY <1>1, <1>2 DEF Stands, None
    <3> QED BY <2>1, <3>1 DEF StandsAt
  <2>2. CASE i # n
    <3>1. i \in 1..(n - 1)
      BY <1>1, <2>2
    <3>2. /\ frames[i].begun /\ frames[i].brace < frames[i].start /\ frames[i].start \in Nat
          /\ frames[i].start <= frames[n].brace
      BY <1>1, <3>1, Depths
    <3>3. StandsAt(out, frames[n]) /\ frames[n].start # None
      BY <1>1, <1>2 DEF Stands, None
    <3>4. frames[n].brace < e.start /\ frames[n].brace \in Nat /\ frames[i].brace \in Nat
      BY <1>1, <3>3, Placements DEF StandsAt
    <3> QED BY <1>2, <3>2, <3>4
  <2> QED BY <2>1, <2>2
<1>5. \A i \in 1..n : ClearOf(e, frames[i])
  BY <1>4 DEF ClearOf
<1>6. ASSUME NEW i \in 1..(n - 1) PROVE ClearBetween(e, frames[i], frames[i + 1])
  <2>1. i + 1 \in 1..n
    BY <1>1
  <2> QED BY <1>4, <2>1 DEF ClearBetween
<1>7. ASSUME NEW k \in 1..Len(new)
      PROVE  /\ Spans(out, new[k]) /\ \A i \in 1..n : ClearOf(new[k], frames[i])
             /\ \A i \in 1..(n - 1) : ClearBetween(new[k], frames[i], frames[i + 1])
  <2>1. CASE k = Len(marks) + 1
    BY <1>3, <1>5, <1>6, <2>1
  <2>2. CASE k # Len(marks) + 1
    <3>1. k \in 1..Len(marks)
      BY <1>1, <1>3, <2>2
    <3> QED BY <1>3, <3>1 DEF Stands
  <2> QED BY <2>1, <2>2
<1>8. Stands(out, frames, new)
  BY <1>7 DEF Stands
<1> QED BY <1>8 DEF new

-----------------------------------------------------------------------------
(* The machine at rest between two entries of process.                     *)

\* The member in flight of the innermost frame, which no mark reaches into.
InFlight(s) ==
  /\ s.frames # <<>> /\ TopOf(s).start # None
  /\ \A k \in 1..Len(s.empty_marks) : s.empty_marks[k].end <= TopOf(s).start

\* A member has begun and is not finished.
Busy(s) ==
  \/ s.pending.kind \in {"Num", "Word"} \/ s.string.open
  \/ s.pos \in {"Colon", "MemberValue"}

\* A key is read, or awaited.
KeyAhead(s) ==
  \/ s.pos \in {"Key", "Colon"}
  \/ s.pending.kind \in {"Num", "Word"} /\ s.pending.key
  \/ s.string.open /\ s.string.is_key

\* Nothing is read at the moment.
Bare(s) == s.comment.kind = "none" /\ ~s.string.open /\ s.pending.kind = "none"

\* A deferred decision is about the last element, at the end of the text.
Armed(s) ==
  LET p == s.empty_pending
  IN  /\ InFlight(s) /\ p.start = TopOf(s).start /\ p.end = Len(s.out) /\ Spans(s.out, p)
      /\ p.frame = Len(s.frames) - 1
      /\ ~p.never_defers => \A i \in 1..Len(s.frames) : s.frames[i].kind # "Paren"
      /\ s.pos = "AfterValue" /\ Bare(s)

Based(s) == Sound(s) /\ Stands(s.out, s.frames, s.empty_marks)

\* What is being read is of the member in flight, a key is of an object.
Reads(s) ==
  /\ Busy(s) => InFlight(s)
  /\ KeyAhead(s) => InObject(s)
  /\ s.string.open => s.pending.kind = "none"

\* Where things stand, and what is open where something is being read.
Placed(s) ==
  /\ Based(s)
  /\ Reads(s)
  /\ s.empty_pending.armed => Armed(s)
  /\ s.garbage_run => s.frames # <<>> /\ s.pos = "Value" /\ Bare(s)
  /\ s.frames = <<>> /\ ~s.top_done => s.out = <<>>
  /\ s.paren_gate.kind = "FirstChar" => s.frames = <<>> /\ ~s.top_done
  /\ s.paren_gate.kind = "TailCheck" => s.frames = <<>> /\ s.empty_marks = <<>>

\* A machine inside a container, with nothing deferred.
Within(s) ==
  /\ Based(s) /\ s.frames # <<>> /\ ~s.empty_pending.armed /\ ~s.garbage_run
  /\ s.paren_gate.kind = "none"

\* Inside a container, only what is being read decides.
LEMMA GoesOn ==
  ASSUME NEW s, Within(s), Reads(s)
  PROVE  Placed(s)
BY DEF Within, Placed

\* What is being read.
SameReading(s, t) ==
  /\ t.pos = s.pos /\ t.string = s.string /\ t.pending = s.pending /\ t.comment = s.comment

\* A machine that differs only in what it reads and in what no offset depends on.
Beside(s) ==
  {t \in Like(s) : /\ t.empty_marks = s.empty_marks /\ t.empty_pending = s.empty_pending
                   /\ t.garbage_run = s.garbage_run /\ t.paren_gate = s.paren_gate
                   /\ t.top_done = s.top_done}

\* What stands is the same in it.
LEMMA BesideIs ==
  ASSUME NEW s, Based(s), NEW t \in Beside(s)
  PROVE  /\ Based(t) /\ (InFlight(t) <=> InFlight(s)) /\ (InObject(t) <=> InObject(s))
         /\ Within(s) => Within(t)
<1>1. /\ t \in Like(s) /\ t.out = s.out /\ t.frames = s.frames /\ t.empty_marks = s.empty_marks
      /\ t.empty_pending = s.empty_pending /\ t.garbage_run = s.garbage_run
      /\ t.paren_gate = s.paren_gate
  BY DEF Beside, Like
<1>2. Sound(t)
  BY <1>1, LikeKeeps, KeptIsSound DEF Based
<1>3. Based(t)
  BY <1>1, <1>2 DEF Based
<1>4. TopOf(t) = TopOf(s)
  BY <1>1 DEF TopOf
<1>5. (InFlight(t) <=> InFlight(s)) /\ (InObject(t) <=> InObject(s))
  BY <1>1, <1>4 DEF InFlight, InObject
<1>6. Within(s) => Within(t)
  BY <1>1, <1>3 DEF Within
<1> QED BY <1>3, <1>5, <1>6

\* The fields that may differ.
LEMMA ReadingMoves ==
  ASSUME NEW s, s \in Machine
  PROVE  /\ \A x \in Positions :
              LET t == [s EXCEPT !.pos = x]
              IN  /\ t \in Beside(s) /\ t.pos = x /\ t.string = s.string
                  /\ t.pending = s.pending /\ t.comment = s.comment
         /\ \A x \in Pending :
              LET t == WithPending(s, x)
              IN  /\ t \in Beside(s) /\ t.pos = s.pos /\ t.string = s.string
                  /\ t.pending = x /\ t.comment = s.comment
         /\ \A x \in Text : Replay(s, x) \in Beside(s) /\ SameReading(s, Replay(s, x))
         /\ \A x \in StringSet :
              LET t == [s EXCEPT !.string = x]
              IN  /\ t \in Beside(s) /\ t.pos = s.pos /\ t.string = x
                  /\ t.pending = s.pending /\ t.comment = s.comment
         /\ \A x \in Comment :
              LET t == [s EXCEPT !.comment = x]
              IN  /\ t \in Beside(s) /\ t.pos = s.pos /\ t.string = s.string
                  /\ t.pending = s.pending /\ t.comment = x
<1>1. ASSUME NEW x \in Positions
      PROVE  LET t == [s EXCEPT !.pos = x]
             IN  /\ t \in Beside(s) /\ t.pos = x /\ t.string = s.string
                 /\ t.pending = s.pending /\ t.comment = s.comment
  BY DEF Machine, Like, Beside
<1>2. ASSUME NEW x \in Pending
      PROVE  LET t == WithPending(s, x)
             IN  /\ t \in Beside(s) /\ t.pos = s.pos /\ t.string = s.string
                 /\ t.pending = x /\ t.comment = s.comment
  BY DEF Machine, Like, Beside, WithPending
<1>3. ASSUME NEW x \in Text PROVE Replay(s, x) \in Beside(s) /\ SameReading(s, Replay(s, x))
  BY DEF Machine, Like, Beside, Replay, SameReading
<1>4. ASSUME NEW x \in StringSet
      PROVE  LET t == [s EXCEPT !.string = x]
             IN  /\ t \in Beside(s) /\ t.pos = s.pos /\ t.string = x
                 /\ t.pending = s.pending /\ t.comment = s.comment
  BY DEF Machine, Like, Beside
<1>5. ASSUME NEW x \in Comment
      PROVE  LET t == [s EXCEPT !.comment = x]
             IN  /\ t \in Beside(s) /\ t.pos = s.pos /\ t.string = s.string
                 /\ t.pending = s.pending /\ t.comment = x
  BY DEF Machine, Like, Beside
<1> QED BY <1>1, <1>2, <1>3, <1>4, <1>5

\* The same reading of the same things.
LEMMA SameReadingIs ==
  ASSUME NEW s, NEW t, SameReading(s, t)
  PROVE  (Busy(t) <=> Busy(s)) /\ (KeyAhead(t) <=> KeyAhead(s)) /\ (Bare(t) <=> Bare(s))
BY DEF SameReading, Busy, KeyAhead, Bare

\* A machine's text, frames and marks.
LEMMA Bodies ==
  ASSUME NEW s, Based(s)
  PROVE  /\ s \in Machine /\ Sound(s) /\ s.out \in Text /\ s.frames \in Seq(Frame)
         /\ s.empty_marks \in Seq(Mark) /\ Stands(s.out, s.frames, s.empty_marks)
         /\ Len(s.out) \in Nat /\ Len(s.frames) \in Nat
<1>1. Sound(s) /\ Stands(s.out, s.frames, s.empty_marks)
  BY DEF Based
<1>2. /\ s \in Machine /\ s.out \in Text /\ s.frames \in Seq(Frame)
      /\ Len(s.out) \in Nat /\ Len(s.frames) \in Nat
  BY <1>1, Counts
<1> QED BY <1>1, <1>2, Fields

\* What is emitted inside a container.
LEMMA EmitWithin ==
  ASSUME NEW s, Based(s), NEW toks \in Text
  PROVE  LET t == Emit(s, toks)
         IN  /\ Based(t) /\ (InFlight(t) <=> InFlight(s)) /\ (InObject(t) <=> InObject(s))
             /\ SameReading(s, t) /\ t.frames = s.frames /\ t.empty_marks = s.empty_marks
             /\ (Within(s) => Within(t)) /\ t.out = s.out \o toks
<1> DEFINE t == Emit(s, toks)
<1>1. /\ Sound(s) /\ s \in Machine /\ Stands(s.out, s.frames, s.empty_marks)
      /\ s.out \in Text /\ s.frames \in Seq(Frame) /\ s.empty_marks \in Seq(Mark)
  BY Bodies
<1>2. Keeps(s, t) /\ t.frames = s.frames /\ t.out = s.out \o toks
  BY <1>1, EmitKeeps
<1>3. /\ t.empty_marks = s.empty_marks /\ t.empty_pending = s.empty_pending
      /\ t.garbage_run = s.garbage_run /\ t.paren_gate = s.paren_gate /\ SameReading(s, t)
  BY <1>1 DEF Machine, Emit, SameReading
<1> HIDE DEF t
<1>4. Based(t)
  BY <1>1, <1>2, <1>3, EmitStands, KeptIsSound DEF Based
<1>5. TopOf(t) = TopOf(s)
  BY <1>2 DEF TopOf
<1>6. (InFlight(t) <=> InFlight(s)) /\ (InObject(t) <=> InObject(s))
  BY <1>2, <1>3, <1>5 DEF InFlight, InObject
<1>7. Within(s) => Within(t)
  BY <1>2, <1>3, <1>4 DEF Within
<1> QED BY <1>2, <1>3, <1>4, <1>6, <1>7 DEF t

-----------------------------------------------------------------------------
(* Members: what stands when one begins or retracts.                       *)

\* Only the text, the cursor and the frames may differ.
Still(s, t) ==
  /\ SameReading(s, t) /\ t.empty_marks = s.empty_marks /\ t.empty_pending = s.empty_pending
  /\ t.garbage_run = s.garbage_run /\ t.paren_gate = s.paren_gate /\ t.top_done = s.top_done

\* What stays inside a container.
LEMMA StillWithin ==
  ASSUME NEW s, Within(s), NEW t, Based(t), Still(s, t), t.frames # <<>>
  PROVE  Within(t)
BY DEF Within, Still

\* One change after another.
LEMMA StillOn ==
  ASSUME NEW s, NEW t, NEW u, Still(s, t), Still(t, u)
  PROVE  Still(s, u)
BY DEF Still, SameReading

\* The text and the frames are changed by no other field.
LEMMA FieldsStill ==
  ASSUME NEW s, s \in Machine
  PROVE  /\ \A toks : Still(s, Emit(s, toks))
         /\ \A f : Still(s, SetTop(s, f))
         /\ \A n : Still(s, Truncate(s, n))
<1>1. \A toks : Still(s, Emit(s, toks))
  BY DEF Machine, Emit, Still, SameReading
<1>2. \A f : Still(s, SetTop(s, f))
  BY DEF Machine, SetTop, Still, SameReading
<1>3. \A n : Still(s, Truncate(s, n))
  BY DEF Machine, Truncate, Still, SameReading
<1> QED BY <1>1, <1>2, <1>3

\* Another frame in the place of the top.
LEMMA TopBased ==
  ASSUME NEW s, Based(s), s.frames # <<>>, NEW f \in Frame,
         f.kind = TopOf(s).kind, f.brace = TopOf(s).brace, TopOf(s).begun => f.begun,
         f.start # None => f.brace < f.start /\ f.start <= Len(s.out) /\ f.begun
  PROVE  LET t == SetTop(s, f)
         IN  /\ Based(t) /\ Still(s, t) /\ t.out = s.out /\ Len(t.frames) = Len(s.frames)
             /\ t.frames # <<>> /\ TopOf(t) = f /\ (InObject(t) <=> InObject(s))
             /\ \A i \in 1..(Len(s.frames) - 1) : t.frames[i] = s.frames[i]
<1> DEFINE t == SetTop(s, f)
           n == Len(s.frames)
           frames == [s.frames EXCEPT ![n] = f]
<1>1. /\ s \in Machine /\ Sound(s) /\ s.out \in Text /\ s.frames \in Seq(Frame)
      /\ s.empty_marks \in Seq(Mark) /\ Stands(s.out, s.frames, s.empty_marks)
  BY Bodies
<1>2. n \in Nat \ {0}
  BY TopIs, <1>1
<1>3. frames \in Seq(Frame) /\ Len(frames) = n /\ frames[n] = f
      /\ \A i \in 1..(n - 1) : frames[i] = s.frames[i]
  BY <1>1, <1>2
<1>4. Stands(s.out, frames, s.empty_marks)
  BY <1>1, LastStands DEF TopOf
<1>5. Keeps(s, t)
  BY <1>1, SetTopKeeps
<1>6. Still(s, t)
  BY <1>1, FieldsStill
<1>7. t.frames = frames /\ t.out = s.out
  BY <1>1 DEF SetTop, Machine
<1> HIDE DEF frames, t
<1>8. Based(t)
  BY <1>4, <1>5, <1>6, <1>7, KeptIsSound DEF Based, Still
<1>9. frames # <<>>
  BY <1>2, <1>3
<1>10. TopOf(t) = f
  BY <1>3, <1>7 DEF TopOf
<1>11. InObject(t) <=> InObject(s)
  BY <1>7, <1>9, <1>10 DEF InObject
<1> QED BY <1>3, <1>6, <1>7, <1>8, <1>9, <1>10, <1>11 DEF t

\* The text is cut in the body of the top.
LEMMA CutBased ==
  ASSUME NEW s, Based(s), s.frames # <<>>, NEW n \in Nat, n <= Len(s.out),
         TopOf(s).brace < n, TopOf(s).start # None => TopOf(s).start <= n,
         \A k \in 1..Len(s.empty_marks) : s.empty_marks[k].end <= n
  PROVE  LET t == Truncate(s, n)
         IN  Based(t) /\ Still(s, t) /\ t.frames = s.frames /\ t.out = SubSeq(s.out, 1, n)
<1> DEFINE t == Truncate(s, n)
           new == SubSeq(s.out, 1, n)
<1>1. /\ s \in Machine /\ Sound(s) /\ s.out \in Text /\ s.frames \in Seq(Frame)
      /\ s.empty_marks \in Seq(Mark) /\ Stands(s.out, s.frames, s.empty_marks)
  BY Bodies
<1>2. Stands(new, s.frames, s.empty_marks)
  BY <1>1, CutStands DEF TopOf
<1>3. Keeps(s, t) /\ t.frames = s.frames
  BY <1>1, TruncateKeeps
<1>4. Still(s, t)
  BY <1>1, FieldsStill
<1>5. t.out = new
  BY <1>1 DEF Truncate, Machine
<1> HIDE DEF t, new
<1>6. Based(t)
  BY <1>2, <1>3, <1>4, <1>5, KeptIsSound DEF Based, Still
<1> QED BY <1>3, <1>4, <1>5, <1>6 DEF t, new

\* A member begins behind everything that stands.
LEMMA BeginWithin ==
  ASSUME NEW s, Within(s)
  PROVE  LET t == begin_common(s)
         IN  /\ Within(t) /\ SameReading(s, t) /\ InFlight(t) /\ (InObject(t) <=> InObject(s))
<1> DEFINE f == TopOf(s)
           e == Emit(s, <<SepTok>>)
           t == IF f.count > 0 THEN e ELSE s
           g == [f EXCEPT !.begun = TRUE, !.start = Len(s.out), !.count = @ + 1, !.elems = @ + 1]
           u == SetTop(t, g)
<1>1. Based(s) /\ s.frames # <<>>
  BY DEF Within
<1>2. /\ s \in Machine /\ Sound(s) /\ s.out \in Text /\ s.frames \in Seq(Frame)
      /\ s.empty_marks \in Seq(Mark) /\ Stands(s.out, s.frames, s.empty_marks)
      /\ Len(s.out) \in Nat /\ Len(s.frames) \in Nat
  BY <1>1, Bodies
<1>3. f \in Frame /\ Len(s.frames) \in 1..Len(s.frames)
  BY <1>1, <1>2, TopIs
<1>4. f.count + 1 \in Nat /\ f.elems + 1 \in Nat
  BY <1>3, FrameFields
<1>5. g \in Frame
  BY <1>2, <1>3, <1>4 DEF Frame
<1>6. /\ g.kind = f.kind /\ g.brace = f.brace /\ g.begun /\ g.start = Len(s.out)
  BY <1>3 DEF Frame
<1>7. f.brace < Len(s.out) /\ \A k \in 1..Len(s.empty_marks) : s.empty_marks[k].end <= Len(s.out)
  BY <1>2, <1>3, StandsInText DEF TopOf
<1>8. begin_common(s) = u
  BY <1>1 DEF begin_common
<1>9. /\ Based(t) /\ SameReading(s, t) /\ t.frames = s.frames /\ t.empty_marks = s.empty_marks
      /\ Within(t) /\ (InObject(t) <=> InObject(s)) /\ Len(s.out) <= Len(t.out)
  <2>1. <<SepTok>> \in Text
    BY Tokens
  <2>2. /\ Based(e) /\ SameReading(s, e) /\ e.frames = s.frames /\ e.empty_marks = s.empty_marks
        /\ Within(e) /\ (InObject(e) <=> InObject(s))
    BY <1>1, <2>1, EmitWithin
  <2>3. Len(e.out) = Len(s.out) + Len(<<SepTok>>)
    BY <1>2, <2>1, EmitKeeps
  <2>4. Len(<<SepTok>>) = 1
    OBVIOUS
  <2> HIDE DEF e
  <2>5. Len(s.out) <= Len(e.out)
    BY <1>2, <2>3, <2>4
  <2>6. CASE f.count > 0
    BY <2>2, <2>5, <2>6
  <2>7. CASE ~(f.count > 0)
    <3>1. t = s
      BY <2>7
    <3>2. SameReading(s, s) /\ Len(s.out) <= Len(s.out)
      BY <1>2 DEF SameReading
    <3> HIDE DEF t
    <3> QED BY <1>1, <3>1, <3>2
  <2> QED BY <2>6, <2>7
<1> HIDE DEF t
<1>10. TopOf(t) = f
  BY <1>9 DEF TopOf
<1> HIDE DEF f, g
<1>11. /\ Based(u) /\ Still(t, u) /\ u.frames # <<>> /\ TopOf(u) = g /\ (InObject(u) <=> InObject(t))
  BY <1>1, <1>5, <1>6, <1>7, <1>9, <1>10, TopBased
<1> HIDE DEF u
<1>12. Within(u)
  BY <1>9, <1>11, StillWithin
<1>13. SameReading(s, u)
  BY <1>9, <1>11 DEF Still, SameReading
<1>14. InFlight(u)
  <2>1. g.start # None
    BY <1>2, <1>6 DEF None
  <2> QED BY <1>6, <1>7, <1>9, <1>11, <2>1 DEF InFlight, Still
<1> QED BY <1>8, <1>9, <1>11, <1>12, <1>13, <1>14

\* The member in flight retracts.
LEMMA DropWithin ==
  ASSUME NEW s, Within(s), InFlight(s)
  PROVE  LET t == DropMember(s, TopOf(s).start)
         IN  /\ Within(t) /\ SameReading(s, t) /\ (InObject(t) <=> InObject(s)) /\ TopOf(t).start = None
<1> DEFINE f == TopOf(s)
           n == f.start
           t == Truncate(s, n)
           g == [f EXCEPT !.start = None, !.count = Pred(@)]
           u == SetTop(t, g)
<1>1. Based(s) /\ s.frames # <<>>
  BY DEF Within
<1>2. /\ s \in Machine /\ Sound(s) /\ s.out \in Text /\ s.frames \in Seq(Frame)
      /\ s.empty_marks \in Seq(Mark) /\ Stands(s.out, s.frames, s.empty_marks)
      /\ Len(s.out) \in Nat /\ Len(s.frames) \in Nat
  BY <1>1, Bodies
<1>3. f \in Frame /\ Len(s.frames) \in 1..Len(s.frames)
  BY <1>1, <1>2, TopIs
<1>4. n # None /\ n \in Nat
  BY <1>3, FrameFields DEF InFlight
<1>5. f.brace < n /\ n <= Len(s.out)
  BY <1>2, <1>3, <1>4 DEF Stands, StandsAt, TopOf
<1>6. Pred(f.count) \in Nat
  BY <1>3, FrameFields, PredIs
<1>7. g \in Frame
  BY <1>3, <1>6 DEF Frame
<1>8. g.kind = f.kind /\ g.brace = f.brace /\ g.begun = f.begun /\ g.start = None
  BY <1>3 DEF Frame
<1>9. DropMember(s, n) = u
  BY DEF DropMember
<1>10. Based(t) /\ Still(s, t) /\ t.frames = s.frames
  BY <1>1, <1>4, <1>5, CutBased DEF InFlight
<1> HIDE DEF t
<1>11. TopOf(t) = f /\ (InObject(t) <=> InObject(s))
  BY <1>10 DEF TopOf, InObject
<1> HIDE DEF f, g
<1>12. /\ Based(u) /\ Still(t, u) /\ u.frames # <<>> /\ TopOf(u) = g /\ (InObject(u) <=> InObject(t))
  BY <1>1, <1>7, <1>8, <1>10, <1>11, TopBased
<1> HIDE DEF u
<1>13. Still(s, u)
  BY <1>10, <1>12, StillOn
<1>14. Within(u) /\ SameReading(s, u)
  BY <1>12, <1>13, StillWithin DEF Still
<1>15. DropMember(s, TopOf(s).start) = u
  BY <1>9 DEF f
<1> QED BY <1>8, <1>11, <1>12, <1>14, <1>15

\* Its element is not counted either.
LEMMA UncountedWithin ==
  ASSUME NEW s, Within(s), InFlight(s)
  PROVE  LET t == DropMember(s, TopOf(s).start)
             u == SetTop(t, [TopOf(t) EXCEPT !.elems = Pred(@)])
         IN  Within(u) /\ SameReading(s, u) /\ (InObject(u) <=> InObject(s))
<1> DEFINE t == DropMember(s, TopOf(s).start)
           f == TopOf(t)
           g == [f EXCEPT !.elems = Pred(@)]
           u == SetTop(t, g)
<1>1. Within(t) /\ SameReading(s, t) /\ (InObject(t) <=> InObject(s)) /\ f.start = None
  BY DropWithin
<1> HIDE DEF t
<1>2. Based(t) /\ t.frames # <<>> /\ Sound(t)
  BY <1>1 DEF Within, Based
<1>3. f \in Frame
  BY <1>2, TopIs
<1>4. Pred(f.elems) \in Nat
  BY <1>3, FrameFields, PredIs
<1>5. g \in Frame /\ g.kind = f.kind /\ g.brace = f.brace /\ g.begun = f.begun /\ g.start = None
  BY <1>1, <1>3, <1>4 DEF Frame
<1> HIDE DEF g
<1>6. /\ Based(u) /\ Still(t, u) /\ u.frames # <<>> /\ (InObject(u) <=> InObject(t))
  BY <1>2, <1>5, TopBased
<1> HIDE DEF u
<1>7. Within(u) /\ SameReading(s, u)
  BY <1>1, <1>6, StillWithin DEF Still, SameReading
<1> QED BY <1>1, <1>6, <1>7 DEF u, g, t

\* The three retractions.
LEMMA RetractsWithin ==
  ASSUME NEW s, Within(s), InFlight(s)
  PROVE  /\ LET t == retract_in_flight_member(s)
            IN  Within(t) /\ SameReading(s, t) /\ (InObject(t) <=> InObject(s))
         /\ LET t == drop_dangling_member(s)
            IN  /\ Within(t) /\ t.pos = "Key" /\ t.string = s.string /\ t.pending = s.pending
                /\ t.comment = s.comment /\ (InObject(t) <=> InObject(s))
         /\ LET t == drop_marked_member(s, TopOf(s).start)
            IN  Within(t) /\ SameReading(s, t) /\ (InObject(t) <=> InObject(s))
<1> DEFINE t == DropMember(s, TopOf(s).start)
           u == [t EXCEPT !.pos = "Key"]
<1>1. s.frames # <<>> /\ TopOf(s).start # None
  BY DEF InFlight
<1>2. Within(t) /\ SameReading(s, t) /\ (InObject(t) <=> InObject(s))
  BY DropWithin
<1>3. drop_dangling_member(s) = u
  BY <1>1 DEF drop_dangling_member
<1> HIDE DEF t
<1>4. t \in Machine /\ Based(t)
  BY <1>2 DEF Within, Based, Sound
<1>5. /\ u \in Beside(t) /\ u.pos = "Key" /\ u.string = t.string /\ u.pending = t.pending
      /\ u.comment = t.comment
  BY <1>4, ReadingMoves, Values
<1> HIDE DEF u
<1>6. Within(u) /\ (InObject(u) <=> InObject(t))
  BY <1>2, <1>4, <1>5, BesideIs
<1>7. u.string = s.string /\ u.pending = s.pending /\ u.comment = s.comment
  BY <1>2, <1>5 DEF SameReading
<1> USE UncountedWithin
<1>8. LET w == retract_in_flight_member(s)
      IN  Within(w) /\ SameReading(s, w) /\ (InObject(w) <=> InObject(s))
  BY <1>1 DEF retract_in_flight_member
<1>9. LET w == drop_marked_member(s, TopOf(s).start)
      IN  Within(w) /\ SameReading(s, w) /\ (InObject(w) <=> InObject(s))
  BY <1>1 DEF drop_marked_member
<1> QED BY <1>2, <1>3, <1>5, <1>6, <1>7, <1>8, <1>9

\* What a frame notes of its body.
LEMMA NotesWithin ==
  ASSUME NEW s, Within(s)
  PROVE  /\ LET t == note_comma(s)
            IN  /\ Within(t) /\ SameReading(s, t) /\ (InObject(t) <=> InObject(s))
                /\ (InFlight(s) => InFlight(t))
         /\ LET t == mark_body_colon(s)
            IN  /\ Within(t) /\ SameReading(s, t) /\ (InObject(t) <=> InObject(s))
                /\ (InFlight(s) => InFlight(t))
<1> DEFINE f == TopOf(s)
<1>1. Based(s) /\ s.frames # <<>> /\ Sound(s)
  BY DEF Within, Based
<1>2. f \in Frame /\ Len(s.frames) \in 1..Len(s.frames)
  BY <1>1, TopIs
<1>3. /\ f.start # None => f.brace < f.start /\ f.start <= Len(s.out) /\ f.begun
  BY <1>1, <1>2 DEF Based, Stands, StandsAt, TopOf
<1>4. ASSUME NEW g \in Frame, g.kind = f.kind, g.brace = f.brace, g.begun = f.begun, g.start = f.start
      PROVE  LET t == SetTop(s, g)
             IN  /\ Within(t) /\ SameReading(s, t) /\ (InObject(t) <=> InObject(s))
                 /\ (InFlight(s) => InFlight(t))
  <2> DEFINE t == SetTop(s, g)
  <2>1. /\ Based(t) /\ Still(s, t) /\ t.frames # <<>> /\ TopOf(t) = g /\ (InObject(t) <=> InObject(s))
    BY <1>1, <1>3, <1>4, TopBased
  <2> HIDE DEF t, f
  <2>2. Within(t)
    BY <2>1, StillWithin
  <2>3. InFlight(s) => InFlight(t)
    BY <1>4, <2>1 DEF InFlight, Still, f
  <2> QED BY <2>1, <2>2, <2>3 DEF t, Still
<1> DEFINE g1 == [f EXCEPT !.comma = TRUE]
           g2 == [f EXCEPT !.colon = TRUE]
<1>5. g1 \in Frame /\ g1.kind = f.kind /\ g1.brace = f.brace /\ g1.begun = f.begun /\ g1.start = f.start
  BY <1>2 DEF Frame
<1>6. g2 \in Frame /\ g2.kind = f.kind /\ g2.brace = f.brace /\ g2.begun = f.begun /\ g2.start = f.start
  BY <1>2 DEF Frame
<1>7. note_comma(s) = SetTop(s, g1) /\ mark_body_colon(s) = SetTop(s, g2)
  BY <1>1 DEF note_comma, mark_body_colon
<1> HIDE DEF g1, g2, f
<1> QED BY <1>4, <1>5, <1>6, <1>7

-----------------------------------------------------------------------------
(* What is read begins, and what was read is replaced.                     *)

\* Nothing that is placed depends on the other fields.
LEMMA Aside ==
  ASSUME NEW s, Placed(s), NEW t \in Beside(s), SameReading(s, t)
  PROVE  Placed(t) /\ (Bare(t) <=> Bare(s))
<1>1. /\ t.out = s.out /\ t.frames = s.frames /\ t.empty_marks = s.empty_marks
      /\ t.empty_pending = s.empty_pending /\ t.garbage_run = s.garbage_run
      /\ t.paren_gate = s.paren_gate /\ t.top_done = s.top_done
  BY DEF Beside, Like
<1>2. Based(t) /\ (InFlight(t) <=> InFlight(s)) /\ (InObject(t) <=> InObject(s))
  BY BesideIs DEF Placed
<1>3. (Busy(t) <=> Busy(s)) /\ (KeyAhead(t) <=> KeyAhead(s)) /\ (Bare(t) <=> Bare(s))
  BY SameReadingIs
<1>4. Reads(t)
  BY <1>2, <1>3 DEF Placed, Reads, SameReading
<1>5. TopOf(t) = TopOf(s)
  BY <1>1 DEF TopOf
<1>6. Armed(s) => Armed(t)
  BY <1>1, <1>2, <1>3, <1>5 DEF Armed, SameReading
<1>7. t.pos = s.pos
  BY DEF SameReading
<1> QED BY <1>1, <1>2, <1>3, <1>4, <1>6, <1>7 DEF Placed

\* The re-entry, the look-back, the cap and the cleanness of the text are such fields.
LEMMA Asides ==
  ASSUME NEW s, Placed(s)
  PROVE  /\ \A x \in Text : Placed(Replay(s, x))
         /\ Placed([s EXCEPT !.error = TRUE])
         /\ Placed([s EXCEPT !.top_clean = FALSE])
         /\ \A c : Placed(Settle(s, c))
<1>1. s \in Machine
  BY DEF Placed, Based, Sound
<1>2. ASSUME NEW x \in Text PROVE Placed(Replay(s, x))
  BY <1>1, ReadingMoves, Aside
<1>3. Placed([s EXCEPT !.error = TRUE])
  <2> DEFINE t == [s EXCEPT !.error = TRUE]
  <2>1. t \in Beside(s) /\ SameReading(s, t)
    BY <1>1 DEF Machine, Like, Beside, SameReading
  <2> HIDE DEF t
  <2>2. Placed(t)
    BY <2>1, Aside
  <2> QED BY <2>2 DEF t
<1>4. Placed([s EXCEPT !.top_clean = FALSE])
  <2> DEFINE t == [s EXCEPT !.top_clean = FALSE]
  <2>1. t \in Beside(s) /\ SameReading(s, t)
    BY <1>1 DEF Machine, Like, Beside, SameReading
  <2> HIDE DEF t
  <2>2. Placed(t)
    BY <2>1, Aside
  <2> QED BY <2>2 DEF t
<1>5. ASSUME NEW c PROVE Placed(Settle(s, c))
  <2> DEFINE ws == c \in Whitespace
             t == [s EXCEPT !.prev_char_ws = ws]
  <2>1. ws \in BOOLEAN
    OBVIOUS
  <2>2. Settle(s, c) \in {s, t}
    BY DEF Settle
  <2> HIDE DEF ws
  <2>3. t \in Beside(s) /\ SameReading(s, t)
    BY <1>1, <2>1 DEF Machine, Like, Beside, SameReading
  <2> HIDE DEF t
  <2> QED BY <2>2, <2>3, Aside
<1> QED BY <1>2, <1>3, <1>4, <1>5

\* Something else is read, in the same place.
LEMMA OtherReading ==
  ASSUME NEW s, Based(s), NEW t \in Beside(s), Reads(t),
         ~s.empty_pending.armed, ~s.garbage_run, s.frames = <<>> /\ ~s.top_done => s.out = <<>>,
         s.paren_gate.kind = "none"
  PROVE  Placed(t)
<1>1. /\ t.out = s.out /\ t.frames = s.frames /\ t.empty_pending = s.empty_pending
      /\ t.garbage_run = s.garbage_run /\ t.paren_gate = s.paren_gate /\ t.top_done = s.top_done
  BY DEF Beside, Like
<1>2. Based(t)
  BY BesideIs
<1> QED BY <1>1, <1>2 DEF Placed

\* A container opens in the member in flight, or at the front of the text.
LEMMA OpenPlaced ==
  ASSUME NEW s, Placed(s), ~s.string.open, s.pending.kind \notin {"Num", "Word"},
         ~s.empty_pending.armed, ~s.garbage_run,
         s.paren_gate.kind = "none", s.frames = <<>> => s.out = <<>>,
         s.frames # <<>> => InFlight(s), NEW kind \in Kinds
  PROVE  Placed(open_container(s, kind))
<1>1. /\ s \in Machine /\ Sound(s) /\ s.out \in Text /\ s.frames \in Seq(Frame)
      /\ s.empty_marks \in Seq(Mark) /\ Stands(s.out, s.frames, s.empty_marks)
      /\ Len(s.out) \in Nat /\ Len(s.frames) \in Nat
  BY Bodies DEF Placed
<1>2. CASE Len(s.frames) >= MAX_NESTING
  <2>1. open_container(s, kind) = [s EXCEPT !.error = TRUE]
    BY <1>2 DEF open_container
  <2> QED BY <2>1, Asides
<1>3. CASE ~(Len(s.frames) >= MAX_NESTING)
  <2> DEFINE c == Bracket(kind)
             t == Emit(s, <<c>>)
             pos == IF kind = "Obj" THEN "Key" ELSE "Value"
             f == FrameOf(kind, Len(s.out))
             frames == Append(t.frames, f)
             u == [t EXCEPT !.pos = pos, !.frames = frames]
  <2>1. c \in Token
    BY Tokens DEF Token, Written, Bracket
  <2>2. open_container(s, kind) = u
    BY <1>3 DEF open_container, Bracket
  <2>3. f \in Frame /\ f.kind = kind /\ f.brace = Len(s.out) /\ f.start = None
    BY <1>1 DEF FrameOf, Frame, None
  <2>4. Sound(u)
    <3>1. Keeps(s, open_container(s, kind))
      BY <1>1, OpenContainerKeeps
    <3> HIDE DEF u
    <3> QED BY <2>2, <3>1, KeptIsSound
  <2> HIDE DEF c, f
  <2>5. /\ t.frames = s.frames /\ t.out = s.out \o <<c>> /\ Still(s, t) /\ t \in Machine
    <3>1. <<c>> \in Text
      BY <2>1, Tokens
    <3>2. Keeps(s, t) /\ t.frames = s.frames /\ t.out = s.out \o <<c>>
      BY <1>1, <3>1, EmitKeeps
    <3>3. Still(s, t)
      BY <1>1, FieldsStill
    <3> HIDE DEF t
    <3> QED BY <3>2, <3>3 DEF Keeps, Sound
  <2> HIDE DEF t
  <2>6. /\ u.out = t.out /\ u.frames = frames /\ u.pos = pos /\ u.string = t.string
        /\ u.pending = t.pending /\ u.comment = t.comment /\ u.empty_marks = t.empty_marks
        /\ u.empty_pending = t.empty_pending /\ u.garbage_run = t.garbage_run
        /\ u.paren_gate = t.paren_gate
    BY <2>5 DEF Machine
  <2> HIDE DEF u
  <2>7. Stands(u.out, u.frames, u.empty_marks)
    <3>1. s.frames # <<>> =>
            /\ s.frames[Len(s.frames)].start # None
            /\ \A k \in 1..Len(s.empty_marks) :
                 s.empty_marks[k].end <= s.frames[Len(s.frames)].start
      BY DEF InFlight, TopOf
    <3>2. Stands(s.out \o <<c>>, Append(s.frames, f), s.empty_marks)
      BY <1>1, <2>1, <2>3, <3>1, OpenStands DEF c
    <3> QED BY <2>5, <2>6, <3>2 DEF Still
  <2>8. Based(u)
    BY <2>4, <2>7 DEF Based
  <2>9. u.frames # <<>> /\ TopOf(u) = f
    <3>1. frames # <<>> /\ frames[Len(frames)] = f
      BY <1>1, <2>3, <2>5
    <3> QED BY <2>6, <3>1 DEF TopOf
  <2>10. Reads(u)
    <3>1. u.string = s.string /\ u.pending = s.pending
      BY <2>5, <2>6 DEF Still, SameReading
    <3>2. ~u.string.open /\ u.pending.kind \notin {"Num", "Word"}
      BY <3>1
    <3>3. u.pos \in {"Key", "Value"} /\ (u.pos = "Key" => kind = "Obj")
      BY <2>6
    <3>4. kind = "Obj" => InObject(u)
      BY <2>3, <2>9 DEF InObject
    <3>5. ~Busy(u)
      BY <3>2, <3>3 DEF Busy
    <3>6. KeyAhead(u) => InObject(u)
      BY <3>2, <3>3, <3>4 DEF KeyAhead
    <3> QED BY <3>2, <3>5, <3>6 DEF Reads
  <2>11. Within(u)
    BY <2>5, <2>6, <2>8, <2>9 DEF Within, Still
  <2> QED BY <2>2, <2>10, <2>11, GoesOn
<1> QED BY <1>2, <1>3

\* A string opens in the member in flight.
LEMMA StringPlaced ==
  ASSUME NEW s, Within(s), InFlight(s), s.pending.kind = "none", NEW c \in Token,
         NEW is_key \in BOOLEAN, is_key \/ s.pos \in {"Key", "Colon"} => InObject(s)
  PROVE  Placed(open_string(s, c, is_key))
<1> DEFINE t == Emit(s, <<"\"">>)
           string == [open |-> TRUE, delim |-> c, is_key |-> is_key]
           pos == IF is_key THEN "Key" ELSE t.pos
           at == Len(s.out)
           u == [t EXCEPT !.last_string_start = at, !.string_raw_tail = "",
                          !.pos = pos, !.string = string]
<1>1. Based(s) /\ <<"\"">> \in Text
  BY Tokens DEF Within
<1>2. /\ Within(t) /\ (InFlight(t) <=> InFlight(s)) /\ (InObject(t) <=> InObject(s))
      /\ SameReading(s, t)
  BY <1>1, EmitWithin
<1>3. open_string(s, c, is_key) = u
  BY DEF open_string
<1> HIDE DEF t
<1>4. t \in Machine /\ Based(t) /\ at \in Nat
  BY <1>1, <1>2, Bodies DEF Within
<1>5. string \in StringSet /\ pos \in Positions
  BY <1>4, Fields, Values DEF StringSet, OpenString
<1>6. string.open /\ (string.is_key <=> is_key)
  OBVIOUS
<1>7. pos \in {"Key", "Colon"} => is_key \/ s.pos \in {"Key", "Colon"}
  BY <1>2 DEF SameReading
<1> HIDE DEF string, pos, at
<1>8. u \in Beside(t) /\ u.pos = pos /\ u.string = string /\ u.pending = t.pending
  BY <1>4, <1>5 DEF Machine, Like, Beside
<1> HIDE DEF u
<1>9. Within(u) /\ (InFlight(u) <=> InFlight(t)) /\ (InObject(u) <=> InObject(t))
  BY <1>2, <1>4, <1>8, BesideIs
<1>10. u.pending.kind = "none"
  BY <1>2, <1>8 DEF SameReading
<1>11. KeyAhead(u) => InObject(u)
  <2>1. KeyAhead(u) => is_key \/ s.pos \in {"Key", "Colon"}
    BY <1>6, <1>7, <1>8, <1>10 DEF KeyAhead
  <2> QED BY <1>2, <1>9, <2>1
<1>12. Reads(u)
  BY <1>2, <1>9, <1>10, <1>11 DEF Reads
<1> QED BY <1>3, <1>9, <1>12, GoesOn

\* A token is pending in the member in flight.
LEMMA PendingPlaced ==
  ASSUME NEW s, Within(s), InFlight(s), ~s.string.open, NEW x \in Pending,
         x.kind \in {"Num", "Word"} /\ x.key => InObject(s),
         s.pos \in {"Key", "Colon"} => InObject(s)
  PROVE  Placed(WithPending(s, x))
<1> DEFINE t == WithPending(s, x)
<1>1. s \in Machine /\ Based(s)
  BY DEF Within, Based, Sound
<1>2. /\ t \in Beside(s) /\ t.pos = s.pos /\ t.string = s.string /\ t.pending = x
  BY <1>1, ReadingMoves
<1> HIDE DEF t
<1>3. Within(t) /\ (InFlight(t) <=> InFlight(s)) /\ (InObject(t) <=> InObject(s))
  BY <1>1, <1>2, BesideIs
<1>4. KeyAhead(t) => InObject(t)
  BY <1>2, <1>3 DEF KeyAhead
<1>5. Reads(t)
  BY <1>2, <1>3, <1>4 DEF Reads
<1>6. Placed(t)
  BY <1>3, <1>5, GoesOn
<1> QED BY <1>6 DEF t

\* A number run or a word begins or goes on.
LEMMA TokenPlaced ==
  ASSUME NEW s, Within(s), InFlight(s), ~s.string.open, NEW text \in Text, NEW key \in BOOLEAN,
         NEW born \in BOOLEAN, key \/ s.pos \in {"Key", "Colon"} => InObject(s)
  PROVE  /\ Placed(WithPending(s, NumPending(text, key)))
         /\ Placed(WithPending(s, WordPending(text, key, born)))
<1> DEFINE x == NumPending(text, key)
           y == WordPending(text, key, born)
<1>1. x \in Pending /\ y \in Pending
  BY Values
<1>2. x.key = key /\ y.key = key
  BY DEF NumPending, WordPending
<1> HIDE DEF x, y
<1>3. Placed(WithPending(s, x)) /\ Placed(WithPending(s, y))
  BY <1>1, <1>2, PendingPlaced
<1> QED BY <1>3 DEF x, y

\* A value begins in the member in flight.
LEMMA ValuePlaced ==
  ASSUME NEW s, Within(s), InFlight(s), Bare(s), s.pos \notin {"Key", "Colon"}, NEW c \in Token
  PROVE  Placed(feed_structure_value(s, c))
<1>1. /\ s.frames # <<>> /\ ~s.empty_pending.armed /\ ~s.garbage_run /\ s.paren_gate.kind = "none"
  BY DEF Within
<1>2. s.pending.kind = "none" /\ ~s.string.open
  BY DEF Bare
<1>3. Placed(s)
  <2>1. Reads(s)
    BY <1>2 DEF Reads, KeyAhead
  <2> QED BY <2>1, GoesOn
<1>4. {"Obj", "Arr", "Paren"} \subseteq Kinds
  BY DEF Kinds
<1>5. \A kind \in Kinds : Placed(open_container(s, kind))
  <2>1. ~s.string.open /\ s.pending.kind \notin {"Num", "Word"}
    BY DEF Bare
  <2> QED BY <1>1, <1>3, <2>1, OpenPlaced
<1>6. /\ Placed(open_container(s, "Obj")) /\ Placed(open_container(s, "Arr"))
      /\ Placed(open_container(s, "Paren"))
  BY <1>4, <1>5
<1>7. Placed(open_string(s, c, FALSE))
  BY <1>2, StringPlaced
<1>8. <<c>> \in Text
  BY Tokens
<1>9. /\ Placed(WithPending(s, NumPending(<<c>>, FALSE)))
      /\ Placed(WithPending(s, WordPending(<<c>>, FALSE, FALSE)))
  BY <1>2, <1>8, TokenPlaced
<1>10. feed_structure_value(s, c) \in
         {open_container(s, "Obj"), open_container(s, "Arr"), open_container(s, "Paren"),
          open_string(s, c, FALSE), WithPending(s, NumPending(<<c>>, FALSE)),
          WithPending(s, WordPending(<<c>>, FALSE, FALSE)), s}
  BY DEF feed_structure_value
<1> QED BY <1>3, <1>6, <1>7, <1>9, <1>10

\* A member begins, and its value or its key with it.
LEMMA MemberPlaced ==
  ASSUME NEW s, Within(s), Bare(s), NEW c \in Token
  PROVE  /\ s.pos \notin {"Key", "Colon"} => Placed(feed_structure_value(begin_common(s), c))
         /\ InObject(s) =>
              /\ Placed(open_string(begin_common(s), c, TRUE))
              /\ Placed(WithPending(begin_common(s), WordPending(<<c>>, TRUE, FALSE)))
              /\ Placed(WithPending(begin_common(s), NumPending(<<c>>, TRUE)))
<1> DEFINE t == begin_common(s)
<1>1. Within(t) /\ SameReading(s, t) /\ InFlight(t) /\ (InObject(t) <=> InObject(s))
  BY BeginWithin
<1> HIDE DEF t
<1>2. Bare(t)
  BY <1>1, SameReadingIs
<1>3. t.pending.kind = "none" /\ ~t.string.open
  BY <1>2 DEF Bare
<1>4. t.pos = s.pos
  BY <1>1 DEF SameReading
<1>5. s.pos \notin {"Key", "Colon"} => Placed(feed_structure_value(t, c))
  BY <1>1, <1>2, <1>4, ValuePlaced
<1>6. <<c>> \in Text
  BY Tokens
<1>7. InObject(s) => Placed(open_string(t, c, TRUE))
  BY <1>1, <1>3, StringPlaced
<1>8. InObject(s) => /\ Placed(WithPending(t, WordPending(<<c>>, TRUE, FALSE)))
                     /\ Placed(WithPending(t, NumPending(<<c>>, TRUE)))
  BY <1>1, <1>3, <1>6, TokenPlaced
<1> QED BY <1>5, <1>7, <1>8 DEF t

-----------------------------------------------------------------------------
(* A frame closes.                                                         *)

\* What is read and how the marks are decided may differ, the spans not.
SameSpans(new, marks) ==
  /\ Len(new) = Len(marks)
  /\ \A k \in 1..Len(marks) : new[k].start = marks[k].start /\ new[k].end = marks[k].end

\* The same spans stand.
LEMMA SpansStand ==
  ASSUME NEW out \in Text, NEW frames \in Seq(Frame), NEW marks \in Seq(Mark),
         Stands(out, frames, marks), NEW new \in Seq(Mark), SameSpans(new, marks)
  PROVE  Stands(out, frames, new)
<1>1. \A k \in 1..Len(new) : \E l \in 1..Len(marks) :
        new[k].start = marks[l].start /\ new[k].end = marks[l].end
  BY DEF SameSpans
<1> QED BY <1>1, MarksStand

\* A container needs no gate.
LEMMA GateIs ==
  ASSUME NEW s, Placed(s), s.frames # <<>>
  PROVE  s.paren_gate.kind = "none"
<1>1. s.paren_gate \in Gate
  BY Fields DEF Placed, Based, Sound
<1>2. s.paren_gate.kind \in {"none", "TailCheck", "FirstChar"}
  BY <1>1 DEF Gate
<1> QED BY <1>2 DEF Placed

\* A machine that may close a frame.
Closing(s) == Placed(s) /\ Bare(s) /\ ~s.garbage_run

\* The token that closes an empty element is no bracket that opens one.
Opener == {"[", "{"}
Closer == {"]", "}", "\""}

LEMMA ClosersOpenNothing == \A x \in Opener : x \notin Closer
BY Zenon DEF Opener, Closer

\* What an empty element is.
LEMMA Empties == \A r \in EmptyRendering : Len(r) = 2 /\ r[2] \in Closer
<1> SUFFICES ASSUME NEW r \in EmptyRendering PROVE Len(r) = 2 /\ r[2] \in Closer
  OBVIOUS
<1>1. r = <<"[", "]">> \/ r = <<"{", "}">> \/ r = <<"\"", "\"">>
  BY DEF EmptyRendering
<1>2. CASE r = <<"[", "]">>
  <2>1. Len(r) = 2 /\ r[2] = "]"
    BY <1>2
  <2> QED BY <2>1, Zenon DEF Closer
<1>3. CASE r = <<"{", "}">>
  <2>1. Len(r) = 2 /\ r[2] = "}"
    BY <1>3
  <2> QED BY <2>1, Zenon DEF Closer
<1>4. CASE r = <<"\"", "\"">>
  <2> DEFINE q == "\""
  <2>1. r = <<q, q>> /\ q \in Closer
    BY <1>4, Zenon DEF Closer
  <2> HIDE DEF q
  <2>2. Len(r) = 2 /\ r[2] = q
    BY <2>1
  <2> QED BY <2>1, <2>2
<1> QED BY <1>1, <1>2, <1>3, <1>4

\* What is left of a text behind its first token.
LEMMA TailIs ==
  ASSUME NEW raw \in Text, raw # <<>>
  PROVE  /\ Len(raw) \in Nat /\ Len(Tail(raw)) \in Nat /\ Len(Tail(raw)) = Len(raw) - 1
         /\ Head(raw) = raw[1]
         /\ \A i \in 1..Len(Tail(raw)) : Tail(raw)[i] = raw[i + 1]
BY DEF Text

\* An empty element has two tokens, and a separator in front of them or not.
LEMMA EmptyShapes ==
  ASSUME NEW raw \in Text, StrictlyEmpty(Unseparated(raw))
  PROVE  /\ raw \in EmptyRendering \/ (Head(raw) = SepTok /\ Tail(raw) \in EmptyRendering)
         /\ \/ Len(raw) = 2 /\ raw[2] \in Closer
            \/ Len(raw) = 3 /\ raw[1] = SepTok /\ raw[3] \in Closer
<1>1. CASE raw # <<>> /\ Head(raw) = SepTok
  <2>1. Tail(raw) \in EmptyRendering
    BY <1>1 DEF StrictlyEmpty, Unseparated, EmptyRendering
  <2>2. Len(Tail(raw)) = 2 /\ Tail(raw)[2] \in Closer
    BY <2>1, Empties
  <2> DEFINE rest == Tail(raw)
             n    == Len(raw)
             k    == Len(rest)
  <2>3. n \in Nat /\ k \in Nat /\ k = n - 1 /\ raw[1] = SepTok
        /\ \A i \in 1..k : rest[i] = raw[i + 1]
    BY <1>1, TailIs
  <2>4. k = 2 /\ rest[2] \in Closer
    BY <2>2
  <2> HIDE DEF rest, n, k
  <2>5. n = 3 /\ 2 \in 1..k
    BY <2>3, <2>4
  <2>6. rest[2] = raw[3]
    BY <2>3, <2>5
  <2> QED BY <1>1, <2>1, <2>3, <2>4, <2>5, <2>6 DEF rest, n
<1>2. CASE ~(raw # <<>> /\ Head(raw) = SepTok)
  <2>1. raw \in EmptyRendering
    BY <1>2 DEF StrictlyEmpty, Unseparated, EmptyRendering
  <2> QED BY <2>1, Empties
<1> QED BY <1>1, <1>2

\* How far two or three tokens reach.
LEMMA TwoOrThree ==
  ASSUME NEW n \in Nat, NEW a \in Nat, NEW len \in Nat, n = a + len, NEW b \in Nat, a <= b, b < n
  PROVE  /\ len = 2 => n = a + 2 /\ 2 \in 1..len /\ (b + 1 # a + 2 => b = n - 2)
         /\ len = 3 => /\ n = a + 3 /\ 1 \in 1..len /\ 3 \in 1..len
                       /\ (b + 1 # a + 1 /\ b + 1 # a + 3 => b = n - 2)
OBVIOUS

\* A bracket in two such tokens is the first of them.
LEMMA BracketFirst ==
  ASSUME NEW n \in Nat, NEW a \in Nat, NEW out \in Text, NEW raw \in Text,
         NEW len \in Nat, n = a + len,
         NEW b \in Nat, a <= b, b < n
  PROVE  /\ \A i \in 1..len : raw[i] = out[a + i]
         /\ (len = 2 /\ raw[2] \in Closer) \/ (len = 3 /\ raw[1] = SepTok /\ raw[3] \in Closer)
         /\ out[b + 1] \in Opener
         => b = n - 2
<1>1. /\ len = 2 => n = a + 2 /\ 2 \in 1..len /\ (b + 1 # a + 2 => b = n - 2)
      /\ len = 3 => /\ n = a + 3 /\ 1 \in 1..len /\ 3 \in 1..len
                    /\ (b + 1 # a + 1 /\ b + 1 # a + 3 => b = n - 2)
  BY TwoOrThree
<1>2. ASSUME \A i \in 1..len : raw[i] = out[a + i], out[b + 1] \in Opener,
             len = 2, raw[2] \in Closer
      PROVE  b = n - 2
  <2>1. raw[2] = out[a + 2] /\ out[b + 1] # raw[2]
    BY <1>1, <1>2, ClosersOpenNothing, Zenon
  <2>2. b + 1 # a + 2
    BY <2>1, Zenon
  <2> QED BY <1>1, <1>2, <2>2, Zenon
<1>3. ASSUME \A i \in 1..len : raw[i] = out[a + i], out[b + 1] \in Opener,
             len = 3, raw[1] = SepTok, raw[3] \in Closer
      PROVE  b = n - 2
  <2>1. raw[1] = out[a + 1] /\ raw[3] = out[a + 3] /\ out[b + 1] # raw[3]
    BY <1>1, <1>3, ClosersOpenNothing, Zenon
  <2>2. SepTok \notin Opener
    BY DEF SepTok, Opener
  <2>3. b + 1 # a + 1 /\ b + 1 # a + 3
    BY <1>3, <2>1, <2>2, Zenon
  <2> QED BY <1>1, <1>3, <2>3, Zenon
<1> QED BY <1>2, <1>3, Zenon

\* The last tokens of an empty element: its bracket, and what closes it.
LEMMA EmptyEnds ==
  ASSUME NEW out \in Text, NEW a \in Nat, a <= Len(out),
         StrictlyEmpty(Unseparated(SubSeq(out, a + 1, Len(out))))
  PROVE  /\ a < Len(out)
         /\ LET raw == SubSeq(out, a + 1, Len(out))
            IN  raw \in EmptyRendering \/ (Head(raw) = SepTok /\ Tail(raw) \in EmptyRendering)
         /\ \A b \in Nat : a <= b /\ b < Len(out) /\ out[b + 1] \in Opener => b = Len(out) - 2
<1> DEFINE n   == Len(out)
           raw == SubSeq(out, a + 1, n)
           len == Len(raw)
<1>1. n \in Nat
  BY TextIs
<1>2. raw \in Text
  BY <1>1, Joins
<1>3. len = n - a /\ \A i \in 1..(n - a) : raw[i] = out[a + i]
  BY <1>1 DEF Text
<1>4. /\ raw \in EmptyRendering \/ (Head(raw) = SepTok /\ Tail(raw) \in EmptyRendering)
      /\ \/ len = 2 /\ raw[2] \in Closer
         \/ len = 3 /\ raw[1] = SepTok /\ raw[3] \in Closer
  BY <1>2, EmptyShapes
<1>5. len \in Nat
  BY <1>2, TextIs
<1> HIDE DEF len
<1> HIDE DEF n, raw
<1>6. \A i \in 1..len : raw[i] = out[a + i]
  BY <1>3
<1>7. n = a + len
  BY <1>1, <1>3, <1>5
<1>8. \A b \in Nat : a <= b /\ b < n /\ out[b + 1] \in Opener => b = n - 2
  <2> SUFFICES ASSUME NEW b \in Nat, a <= b, b < n, out[b + 1] \in Opener PROVE b = n - 2
    OBVIOUS
  <2>1. \/ len = 2 /\ raw[2] \in Closer
        \/ len = 3 /\ raw[1] = SepTok /\ raw[3] \in Closer
    BY <1>4, Zenon
  <2>2. n \in Nat /\ len \in Nat /\ n = a + len /\ b \in Nat
    BY <1>1, <1>5, <1>7
  <2>3. /\ \A i \in 1..len : raw[i] = out[a + i]
        /\ (len = 2 /\ raw[2] \in Closer) \/ (len = 3 /\ raw[1] = SepTok /\ raw[3] \in Closer)
        /\ out[b + 1] \in Opener
        => b = n - 2
    BY <1>2, <2>2, BracketFirst
  <2> QED BY <1>6, <2>1, <2>3, Zenon
<1>9. len = 2 \/ len = 3
  BY <1>4
<1>10. a < n
  BY <1>1, <1>5, <1>7, <1>9
<1> QED BY <1>4, <1>8, <1>10 DEF n, raw

\* The element in flight of the top may be deferred.
Ripe(s) ==
  LET p == TopOf(s)
  IN  /\ p.kind # "Obj" /\ p.start # None /\ p.start <= Len(s.out)
      /\ StrictlyEmpty(Unseparated(SubSeq(s.out, p.start + 1, Len(s.out))))

\* A decision is deferred about the last element only.
LEMMA ArmPlaced ==
  ASSUME NEW s, Within(s), Bare(s), s.pos = "AfterValue", Ripe(s) => InFlight(s),
         NEW elem_paren \in BOOLEAN
  PROVE  Closing(arm_empty_pending(s, elem_paren))
<1> DEFINE p == TopOf(s)
           paren == \E i \in 1..Len(s.frames) : s.frames[i].kind = "Paren"
           never == elem_paren \/ paren
           armed == [armed |-> TRUE, start |-> p.start, end |-> Len(s.out),
                     was_first |-> p.count = 1, frame |-> Len(s.frames) - 1,
                     parent_paren |-> p.kind = "Paren", never_defers |-> never, ws_seen |-> FALSE]
           t == [s EXCEPT !.empty_pending = armed]
<1>1. s.pending.kind = "none" /\ ~s.string.open /\ s.comment.kind = "none"
  BY DEF Bare
<1>2. Reads(s)
  BY <1>1 DEF Reads, Busy, KeyAhead
<1>3. /\ Based(s) /\ s.frames # <<>> /\ ~s.garbage_run /\ s.paren_gate.kind = "none"
  BY DEF Within
<1>4. CASE ~Ripe(s)
  <2>1. arm_empty_pending(s, elem_paren) = s
    BY <1>3, <1>4 DEF arm_empty_pending, Ripe
  <2> QED BY <1>2, <1>3, <2>1, GoesOn DEF Closing
<1>5. CASE Ripe(s)
  <2>1. arm_empty_pending(s, elem_paren) = t
    BY <1>3, <1>5 DEF arm_empty_pending, Ripe
  <2>2. Keeps(s, arm_empty_pending(s, elem_paren))
    BY <1>3, ArmKeeps DEF Based
  <2>3. Sound(t)
    <3> HIDE DEF t
    <3> QED BY <2>1, <2>2, KeptIsSound
  <2>4. /\ armed.start = p.start /\ armed.end = Len(s.out) /\ armed.frame = Len(s.frames) - 1
        /\ (armed.never_defers <=> never)
    OBVIOUS
  <2>5. /\ s \in Machine /\ s.out \in Text /\ Sound(s) /\ Len(s.out) \in Nat
    BY <1>3, Bodies
  <2>6. p.start # None /\ p.start <= Len(s.out) /\ p.start \in Nat
    <3>1. p.start # None /\ p.start <= Len(s.out)
      BY <1>5 DEF Ripe
    <3>2. p \in Frame
      BY <1>3, <2>5, TopIs
    <3> QED BY <3>1, <3>2, FrameFields
  <2>7. ~never => \A i \in 1..Len(s.frames) : s.frames[i].kind # "Paren"
    OBVIOUS
  <2>8. StrictlyEmpty(Unseparated(SubSeq(s.out, p.start + 1, Len(s.out))))
    BY <1>5 DEF Ripe
  <2> HIDE DEF armed, never, p
  <2>9. Spans(s.out, armed)
    <3>1. /\ p.start < Len(s.out)
          /\ LET raw == SubSeq(s.out, p.start + 1, Len(s.out))
             IN  raw \in EmptyRendering \/ (Head(raw) = SepTok /\ Tail(raw) \in EmptyRendering)
      BY <2>5, <2>6, <2>8, EmptyEnds
    <3> HIDE DEF StrictlyEmpty
    <3>2. armed.start < armed.end /\ armed.end <= Len(s.out) /\ armed.start \in Nat
      BY <2>4, <2>5, <2>6, <3>1
    <3>3. SubSeq(s.out, armed.start + 1, armed.end) = SubSeq(s.out, p.start + 1, Len(s.out))
      BY <2>4
    <3> QED BY <3>1, <3>2, <3>3, Zenon DEF Spans
  <2>10. /\ t.out = s.out /\ t.frames = s.frames /\ t.empty_marks = s.empty_marks
         /\ t.empty_pending = armed /\ t.garbage_run = s.garbage_run
         /\ t.paren_gate = s.paren_gate /\ SameReading(s, t)
    BY <2>5 DEF Machine, SameReading
  <2> HIDE DEF t
  <2>11. Based(t) /\ TopOf(t) = p
    BY <1>3, <2>3, <2>10 DEF Based, TopOf, p
  <2>12. (InFlight(t) <=> InFlight(s)) /\ (InObject(t) <=> InObject(s))
    BY <2>10, <2>11 DEF InFlight, InObject, p
  <2>13. (Busy(t) <=> Busy(s)) /\ (KeyAhead(t) <=> KeyAhead(s)) /\ (Bare(t) <=> Bare(s))
    BY <2>10, SameReadingIs
  <2>14. Reads(t)
    BY <1>2, <2>10, <2>12, <2>13 DEF Reads, SameReading
  <2>15. t.pos = "AfterValue"
    BY <2>10 DEF SameReading
  <2>16. Armed(t)
    BY <1>5, <2>4, <2>7, <2>9, <2>10, <2>11, <2>12, <2>13, <2>15 DEF Armed
  <2> QED BY <1>3, <2>1, <2>10, <2>11, <2>13, <2>14, <2>16 DEF Closing, Placed
<1> QED BY <1>4, <1>5

\* What stays as it is while brackets come and go.
SameRest(s, t) ==
  /\ SameReading(s, t) /\ t.garbage_run = s.garbage_run /\ t.paren_gate = s.paren_gate
  /\ t.empty_pending.armed =>
       s.empty_pending.armed /\ t.empty_pending.frame = s.empty_pending.frame

\* A bracket drains in front of no mark: the spans stay.
LEMMA ShiftMoves ==
  ASSUME NEW s, s \in Machine, NEW pos \in Nat,
         \A k \in 1..Len(s.empty_marks) : s.empty_marks[k].start <= pos
  PROVE  LET t == shift_deferred_spans(s, pos)
         IN  t.out = s.out /\ t.empty_marks = s.empty_marks /\ SameRest(s, t)
<1> DEFINE Left(x) == IF x.start > pos THEN [x EXCEPT !.start = @ - 1, !.end = @ - 1] ELSE x
           marks   == [i \in DOMAIN s.empty_marks |-> Left(s.empty_marks[i])]
           pending == IF s.empty_pending.armed THEN Left(s.empty_pending) ELSE s.empty_pending
           t       == [s EXCEPT !.empty_marks = marks, !.empty_pending = pending]
<1>1. s.empty_marks \in Seq(Mark) /\ s.empty_pending \in EmptyPending
  BY Fields
<1>2. /\ Len(s.empty_marks) \in Nat /\ DOMAIN s.empty_marks = 1..Len(s.empty_marks)
      /\ \A k \in 1..Len(s.empty_marks) : s.empty_marks[k].start \in Nat
  <2>1. \A e \in Mark : e.start \in Nat
    BY DEF Mark
  <2>2. \A k \in 1..Len(s.empty_marks) : s.empty_marks[k] \in Mark
    BY <1>1
  <2> QED BY <1>1, <2>1, <2>2
<1>3. \A k \in 1..Len(s.empty_marks) : Left(s.empty_marks[k]) = s.empty_marks[k]
  <2> TAKE k \in 1..Len(s.empty_marks)
  <2>1. ~(s.empty_marks[k].start > pos)
    BY <1>2
  <2> QED BY <2>1
<1>4. marks = s.empty_marks
  <2>1. s.empty_marks = [i \in DOMAIN s.empty_marks |-> s.empty_marks[i]]
    BY <1>1
  <2> HIDE DEF Left
  <2>2. marks = [i \in DOMAIN s.empty_marks |-> s.empty_marks[i]]
    BY <1>2, <1>3
  <2> QED BY <2>1, <2>2
<1>5. pending.armed => s.empty_pending.armed /\ pending.frame = s.empty_pending.frame
  <2>1. s.empty_pending.armed => s.empty_pending \in ArmedSet
    BY <1>1 DEF EmptyPending
  <2>2. \A p \in ArmedSet : Left(p).frame = p.frame
    BY DEF ArmedSet
  <2> HIDE DEF Left
  <2> QED BY <2>1, <2>2
<1>6. shift_deferred_spans(s, pos) = t
  BY DEF shift_deferred_spans
<1> HIDE DEF marks, pending
<1>7. /\ t.out = s.out /\ t.empty_marks = marks /\ t.empty_pending = pending /\ SameReading(s, t)
      /\ t.garbage_run = s.garbage_run /\ t.paren_gate = s.paren_gate
  BY DEF Machine, SameReading
<1> HIDE DEF t
<1> QED BY <1>4, <1>5, <1>6, <1>7 DEF SameRest

\* One token drains, and what is in front of it stays.
LEMMA DrainIs ==
  ASSUME NEW s, Sound(s), NEW pos \in Nat, pos <= Len(s.out), NEW tok,
         \A k \in 1..Len(s.empty_marks) : s.empty_marks[k].start <= pos
  PROVE  LET t == DrainOne(s, pos, tok)
         IN  /\ Sound(t) /\ t.frames = s.frames /\ t.empty_marks = s.empty_marks /\ SameRest(s, t)
             /\ pos <= Len(t.out) /\ SameFront(t.out, s.out, pos)
<1>1. /\ Keeps(s, DrainOne(s, pos, tok)) /\ DrainOne(s, pos, tok).frames = s.frames
  BY DrainKeeps
<1>2. /\ s \in Machine /\ s.emitted \in 0..Len(s.out) /\ s.out \in Text /\ Len(s.out) \in Nat
  BY Counts
<1>3. CASE pos < Len(s.out) /\ s.out[pos + 1] = tok
  <2> DEFINE front   == SubSeq(s.out, 1, pos)
             back    == SubSeq(s.out, pos + 2, Len(s.out))
             out     == front \o back
             emitted == LessOf(s.emitted, pos)
             t       == [s EXCEPT !.out = out, !.emitted = emitted]
  <2>1. /\ front \in Text /\ Len(front) = pos /\ \A i \in 1..pos : front[i] = s.out[i]
    BY <1>2, <1>3, Joins
  <2>2. back \in Text
    BY <1>2, Joins
  <2>3. Len(back) \in Nat
    BY <2>2, TextIs
  <2>4. DrainOne(s, pos, tok) = shift_deferred_spans(t, pos)
    BY <1>3 DEF DrainOne, front, back
  <2> HIDE DEF front, back
  <2>5. /\ out \in Text /\ Len(out) = pos + Len(back)
        /\ \A i \in 1..pos : out[i] = front[i]
    BY <2>1, <2>2, Joins
  <2>6. emitted \in Nat
    BY <1>2 DEF LessOf
  <2>7. pos <= Len(out) /\ SameFront(out, s.out, pos)
    BY <2>1, <2>3, <2>5 DEF SameFront
  <2> HIDE DEF out, emitted
  <2>8. /\ t \in Machine /\ t.out = out /\ t.empty_marks = s.empty_marks
        /\ t.empty_pending = s.empty_pending
        /\ SameReading(s, t) /\ t.garbage_run = s.garbage_run /\ t.paren_gate = s.paren_gate
    BY <1>2, <2>5, <2>6 DEF Machine, SameReading
  <2> HIDE DEF t
  <2> DEFINE u == shift_deferred_spans(t, pos)
  <2>9. u.out = t.out /\ u.empty_marks = t.empty_marks /\ SameRest(t, u)
    BY <2>8, ShiftMoves
  <2> HIDE DEF u
  <2>10. SameRest(s, u)
    BY <2>8, <2>9 DEF SameRest, SameReading
  <2>11. DrainOne(s, pos, tok) = u
    BY <2>4 DEF u
  <2> QED BY <1>1, <2>7, <2>8, <2>9, <2>10, <2>11, KeptIsSound
<1>4. CASE ~(pos < Len(s.out) /\ s.out[pos + 1] = tok)
  <2>1. DrainOne(s, pos, tok) = s
    BY <1>4 DEF DrainOne
  <2>2. SameRest(s, s) /\ SameFront(s.out, s.out, pos)
    BY DEF SameRest, SameReading, SameFront
  <2> QED BY <2>1, <2>2
<1> QED BY <1>3, <1>4

\* A machine whose last frame is gone, and its text not yet closed.
Opened(s, t) ==
  /\ Sound(t) /\ t.out = s.out /\ t.frames = Front(s.frames)
  /\ SameSpans(t.empty_marks, s.empty_marks) /\ SameRest(s, t)

\* A machine whose last frame is gone and closed: where its body is kept, so is its bracket.
Shut(s, u) ==
  /\ Sound(u) /\ u.frames = Front(s.frames) /\ SameSpans(u.empty_marks, s.empty_marks)
  /\ SameRest(s, u) /\ Stands(u.out, u.frames, u.empty_marks)
  /\ \/ \A k \in 1..Len(s.empty_marks) : s.empty_marks[k].end <= TopOf(s).brace
     \/ \E c \in Token : u.out = s.out \o <<c>>

\* What is behind it goes on.
LEMMA RestOn ==
  ASSUME NEW s, NEW t, NEW u, SameRest(s, t), SameRest(t, u)
  PROVE  SameRest(s, u)
BY DEF SameRest, SameReading

\* A bracket closes the frame.
LEMMA ClosesShut ==
  ASSUME NEW s, Based(s), s.frames # <<>>, NEW t, Opened(s, t), NEW c \in Token
  PROVE  Shut(s, Emit(t, <<c>>))
<1> DEFINE u == Emit(t, <<c>>)
<1>1. /\ s \in Machine /\ s.out \in Text /\ s.frames \in Seq(Frame)
      /\ s.empty_marks \in Seq(Mark) /\ Stands(s.out, s.frames, s.empty_marks)
  BY Bodies
<1>2. <<c>> \in Text
  BY Tokens
<1>3. Sound(t) /\ t.frames = Front(s.frames) /\ t.out = s.out
  BY DEF Opened
<1>4. t \in Machine /\ t.empty_marks \in Seq(Mark)
  BY <1>3, Counts, Fields
<1>5. Keeps(t, u) /\ u.frames = t.frames /\ u.out = t.out \o <<c>>
  BY <1>2, <1>3, EmitKeeps
<1>6. u.empty_marks = t.empty_marks /\ SameRest(t, u)
  BY <1>4 DEF Machine, Emit, SameRest, SameReading
<1> HIDE DEF u
<1>7. Front(s.frames) \in Seq(Frame) /\ Stands(s.out, Front(s.frames), s.empty_marks)
  BY <1>1, FrontStands
<1>8. Stands(s.out, Front(s.frames), t.empty_marks)
  BY <1>1, <1>4, <1>7, SpansStand DEF Opened
<1>9. Stands(s.out \o <<c>>, Front(s.frames), t.empty_marks)
  BY <1>1, <1>2, <1>4, <1>7, <1>8, EmitStands
<1>10. SameRest(s, u)
  BY <1>6, RestOn DEF Opened
<1>11. Shut(s, u)
  BY <1>3, <1>5, <1>6, <1>9, <1>10, KeptIsSound DEF Shut, Opened
<1> QED BY <1>11 DEF u

\* What a drain leaves in front of the frame's bracket still stands.
LEMMA DrainShut ==
  ASSUME NEW s, Based(s), s.frames # <<>>, NEW t, Opened(s, t), NEW tok,
         \A k \in 1..Len(s.empty_marks) : s.empty_marks[k].end <= TopOf(s).brace
  PROVE  /\ Shut(s, DrainOne(t, TopOf(s).brace, tok))
         /\ \A toks \in Text : Shut(s, Emit(DrainOne(t, TopOf(s).brace, tok), toks))
<1> DEFINE n == TopOf(s).brace
           u == DrainOne(t, n, tok)
<1>1. /\ s \in Machine /\ s.out \in Text /\ s.frames \in Seq(Frame) /\ Len(s.out) \in Nat
      /\ s.empty_marks \in Seq(Mark) /\ Stands(s.out, s.frames, s.empty_marks) /\ Sound(s)
  BY Bodies
<1>2. Sound(t) /\ t.frames = Front(s.frames) /\ t.out = s.out
      /\ SameSpans(t.empty_marks, s.empty_marks) /\ SameRest(s, t)
  BY DEF Opened
<1>3. t \in Machine /\ t.empty_marks \in Seq(Mark)
  BY <1>2, Counts, Fields
<1>4. Len(s.frames) \in 1..Len(s.frames) /\ n \in Nat /\ n = s.frames[Len(s.frames)].brace
  BY <1>1, TopIs, FrameFields DEF TopOf
<1>5. n <= Len(s.out)
  <2>1. n < Len(s.out)
    BY <1>1, <1>4, StandsInText
  <2> QED BY <1>1, <1>4, <2>1
<1>6. \A k \in 1..Len(s.empty_marks) : s.empty_marks[k].end <= n
  OBVIOUS
<1> HIDE DEF n
<1>7. \A k \in 1..Len(t.empty_marks) : t.empty_marks[k].start <= n
  <2> TAKE k \in 1..Len(t.empty_marks)
  <2>1. k \in 1..Len(s.empty_marks) /\ t.empty_marks[k].start = s.empty_marks[k].start
    BY <1>2 DEF SameSpans
  <2>2. Spans(s.out, s.empty_marks[k])
    BY <1>1, <2>1 DEF Stands
  <2>3. /\ s.empty_marks[k].start \in Nat /\ s.empty_marks[k].end \in Int
        /\ s.empty_marks[k].start < s.empty_marks[k].end /\ s.empty_marks[k].end <= n
    BY <1>1, <1>6, <2>1, <2>2, Placements DEF Spans
  <2> QED BY <1>4, <2>1, <2>3
<1>8. /\ Sound(u) /\ u.frames = t.frames /\ u.empty_marks = t.empty_marks /\ SameRest(t, u)
      /\ n <= Len(u.out) /\ SameFront(u.out, s.out, n)
  BY <1>2, <1>4, <1>5, <1>7, DrainIs
<1> HIDE DEF u
<1>9. u \in Machine /\ u.out \in Text
  BY <1>8, Counts, Fields
<1>10. Stands(u.out, Front(s.frames), s.empty_marks)
  BY <1>1, <1>4, <1>6, <1>8, <1>9, DrainStands
<1>11. Front(s.frames) \in Seq(Frame)
  BY <1>1, FrontStands
<1>12. Stands(u.out, Front(s.frames), u.empty_marks)
  BY <1>1, <1>2, <1>3, <1>8, <1>9, <1>10, <1>11, SpansStand
<1>13. SameRest(s, u)
  BY <1>2, <1>8, RestOn
<1>14. Shut(s, u)
  BY <1>2, <1>6, <1>8, <1>12, <1>13 DEF Shut, n
<1>15. ASSUME NEW toks \in Text PROVE Shut(s, Emit(u, toks))
  <2> DEFINE v == Emit(u, toks)
  <2>1. Keeps(u, v) /\ v.frames = u.frames /\ v.out = u.out \o toks
    BY <1>8, EmitKeeps
  <2>2. v.empty_marks = u.empty_marks /\ SameRest(u, v)
    BY <1>9 DEF Machine, Emit, SameRest, SameReading
  <2> HIDE DEF v
  <2>3. Stands(v.out, Front(s.frames), u.empty_marks)
    BY <1>3, <1>8, <1>9, <1>11, <1>12, <2>1, EmitStands
  <2>4. SameRest(s, v)
    BY <1>13, <2>2, RestOn
  <2>5. Shut(s, v)
    BY <1>2, <1>6, <1>8, <2>1, <2>2, <2>3, <2>4, KeptIsSound DEF Shut, n
  <2> QED BY <2>5 DEF v
<1> QED BY <1>14, <1>15 DEF u, n

\* A frame that is a group, or has no members, has no mark behind its bracket.
LEMMA NoMarkBehind ==
  ASSUME NEW s, Based(s), s.frames # <<>>, TopOf(s).kind = "Paren" \/ ~TopOf(s).begun
  PROVE  \A k \in 1..Len(s.empty_marks) : s.empty_marks[k].end <= TopOf(s).brace
<1>1. Stands(s.out, s.frames, s.empty_marks) /\ Sound(s)
  BY Bodies
<1>2. Len(s.frames) \in 1..Len(s.frames)
  BY <1>1, TopIs
<1>3. \A k \in 1..Len(s.empty_marks) : ClearOf(s.empty_marks[k], TopOf(s))
  BY <1>1, <1>2 DEF Stands, TopOf
<1> QED BY <1>3 DEF ClearOf

\* What closes a container is a token.
LEMMA ClosingTokens == "]" \in Token /\ "}" \in Token
<1>1. {"]", "}"} \subseteq Token
  BY DEF Token, Written
<1> QED BY <1>1

\* Whatever the frame is, it shuts.
LEMMA FrameShuts ==
  ASSUME NEW s, Based(s), s.frames # <<>>, NEW t, Opened(s, t)
  PROVE  /\ TopOf(s).kind = "Paren" => Shut(s, PopParen(t, TopOf(s)).m)
         /\ TopOf(s).kind = "Obj" => Shut(s, PopObject(t, TopOf(s)))
         /\ Shut(s, Emit(t, <<"]">>))
<1> DEFINE f == TopOf(s)
           u == DrainOne(t, f.brace, "[")
           v == DrainOne(t, f.brace, "{")
<1>1. "]" \in Token /\ "}" \in Token /\ <<"[", "]">> \in Text
  BY ClosingTokens, Tokens
<1>2. Shut(s, Emit(t, <<"]">>)) /\ Shut(s, Emit(t, <<"}">>))
  BY <1>1, ClosesShut
<1>3. CASE f.kind = "Paren"
  <2>1. Shut(s, u)
    BY <1>3, NoMarkBehind, DrainShut
  <2> HIDE DEF f
  <2>2. PopParen(t, f).m \in {Emit(t, <<"]">>), u}
    BY DEF PopParen
  <2> HIDE DEF u
  <2> QED BY <1>2, <1>3, <2>1, <2>2 DEF f
<1>4. CASE f.kind = "Obj"
  <2>1. CASE BodyFallback(f, 1)
    <3>1. ~f.begun
      BY <2>1 DEF BodyFallback
    <3>2. Shut(s, Emit(v, <<"[", "]">>))
      BY <1>1, <3>1, NoMarkBehind, DrainShut
    <3>3. PopObject(t, f) = Emit(v, <<"[", "]">>)
      BY <2>1 DEF PopObject
    <3> QED BY <1>2, <1>4, <3>2, <3>3
  <2>2. CASE ~BodyFallback(f, 1)
    <3>1. PopObject(t, f) = Emit(t, <<"}">>)
      BY <2>2 DEF PopObject
    <3> QED BY <1>2, <1>4, <3>1
  <2> QED BY <2>1, <2>2
<1> QED BY <1>2, <1>3, <1>4

\* A bracket that is kept is in front of the element that has just closed, unless no
\* mark is behind it.
LEMMA ShutIsRipe ==
  ASSUME NEW s, Based(s), s.frames # <<>>, NEW u, Shut(s, u), NEW t, Based(t),
         t.out = u.out, t.frames # <<>>, Len(t.frames) = Len(s.frames) - 1,
         TopOf(t).start = s.frames[Len(s.frames) - 1].start,
         SameSpans(t.empty_marks, s.empty_marks), Ripe(t)
  PROVE  InFlight(t)
<1> DEFINE n == Len(s.frames)
           p == TopOf(t).start
           f == TopOf(s)
<1>1. /\ s.out \in Text /\ s.frames \in Seq(Frame) /\ Len(s.out) \in Nat /\ n \in Nat
      /\ s.empty_marks \in Seq(Mark) /\ Stands(s.out, s.frames, s.empty_marks) /\ Sound(s)
  BY Bodies
<1>2. t.out \in Text /\ Len(t.out) \in Nat /\ t.frames \in Seq(Frame)
  BY Bodies
<1>3. n \in 1..n /\ n - 1 \in 1..(n - 1) /\ n - 1 \in 1..n /\ f \in Frame
  <2>1. Len(t.frames) # 0 /\ Len(t.frames) \in Nat
    <3>1. Sound(t) /\ t.frames # <<>>
      BY Bodies
    <3> QED BY <3>1, TopIs
  <2> QED BY <1>1, <2>1, TopIs
<1>4. p \in Nat /\ p <= f.brace /\ f.brace \in Nat /\ p <= Len(t.out)
  <2>1. f.brace \in Nat
    BY <1>3, FrameFields
  <2>2. p = s.frames[n - 1].start /\ f = s.frames[n]
    BY DEF TopOf
  <2>3. p \in Nat /\ p <= f.brace
    BY <1>1, <1>3, <2>2, Depths
  <2>4. p <= Len(t.out)
    BY DEF Ripe
  <2> QED BY <2>1, <2>3, <2>4
<1>5. f.brace < Len(s.out) /\ s.out[f.brace + 1] \in Opener
  <2>1. StandsAt(s.out, f)
    BY <1>1, <1>3 DEF Stands, TopOf
  <2>2. Bracket(f.kind) \in Opener
    BY DEF Bracket, Opener
  <2> HIDE DEF f
  <2> QED BY <2>1, <2>2 DEF StandsAt
<1>6. ASSUME NEW k \in 1..Len(t.empty_marks) PROVE t.empty_marks[k].end <= p
  <2> DEFINE e == s.empty_marks[k]
  <2>1. k \in 1..Len(s.empty_marks) /\ t.empty_marks[k].end = e.end
    BY DEF SameSpans
  <2>2. e.start \in Nat /\ e.end \in Int /\ Spans(s.out, e)
    BY <1>1, <2>1, Placements DEF Stands
  <2>3. e.start < e.end /\ e.end <= Len(s.out)
    BY <2>2 DEF Spans
  <2>4. e.end <= p \/ f.brace < e.start
    <3>1. ClearBetween(e, s.frames[n - 1], s.frames[n - 1 + 1])
      BY <1>1, <1>3, <2>1 DEF Stands
    <3>2. n - 1 + 1 = n
      BY <1>1
    <3>3. f = s.frames[n] /\ p = s.frames[n - 1].start
      BY DEF TopOf
    <3> HIDE DEF e, p, f, n
    <3> QED BY <3>1, <3>2, <3>3 DEF ClearBetween
  <2> HIDE DEF e, p, f, n
  <2>5. CASE f.brace < e.start
    <3>1. ~(e.end <= f.brace)
      BY <1>4, <2>2, <2>3, <2>5
    <3>2. PICK c \in Token : u.out = s.out \o <<c>>
      <4>1. ~ \A l \in 1..Len(s.empty_marks) : s.empty_marks[l].end <= f.brace
        BY <2>1, <3>1 DEF e
      <4> QED BY <4>1 DEF Shut, f
    <3>3. Len(t.out) = Len(s.out) + 1 /\ t.out[f.brace + 1] = s.out[f.brace + 1]
      <4>1. <<c>> \in Text /\ Len(<<c>>) = 1
        BY Tokens
      <4>2. t.out = s.out \o <<c>>
        BY <3>2
      <4>3. f.brace + 1 \in 1..Len(s.out)
        BY <1>1, <1>4, <1>5
      <4> QED BY <1>1, <4>1, <4>2, <4>3, Joins
    <3>4. StrictlyEmpty(Unseparated(SubSeq(t.out, p + 1, Len(t.out))))
      BY DEF Ripe, p
    <3>5. f.brace < Len(t.out)
      BY <1>1, <1>4, <1>5, <3>3
    <3>6. f.brace = Len(t.out) - 2
      BY <1>2, <1>4, <1>5, <3>3, <3>4, <3>5, EmptyEnds
    <3> QED BY <1>1, <1>4, <2>2, <2>3, <2>5, <3>3, <3>6
  <2> QED BY <2>1, <2>4, <2>5 DEF e
<1>7. TopOf(t).start # None
  BY DEF Ripe
<1> QED BY <1>6, <1>7 DEF InFlight

\* Nothing is read behind a bracket.
LEMMA BareReads ==
  ASSUME NEW s, Bare(s), s.pos = "AfterValue"
  PROVE  Reads(s)
BY DEF Bare, Reads, Busy, KeyAhead

\* What is left of the marks are marks.
LEMMA LeftIs ==
  ASSUME NEW marks \in Seq(Mark), NEW S
  PROVE  /\ Except(marks, S) \in Seq(Mark)
         /\ \A k \in 1..Len(Except(marks, S)) : \E l \in 1..Len(marks) : Except(marks, S)[k] = marks[l]
         /\ marks = <<>> => Except(marks, S) = <<>>
<1> DEFINE T == {marks[l] : l \in 1..Len(marks)}
           left == Except(marks, S)
<1>1. marks \in Seq(T)
  OBVIOUS
<1>2. left \in Seq(T) /\ left \in Seq(Mark)
  <2> HIDE DEF T
  <2> QED BY <1>1, ExceptIs
<1> HIDE DEF left
<1>3. \A k \in 1..Len(left) : left[k] \in T
  <2> HIDE DEF T
  <2> QED BY <1>2
<1>4. marks = <<>> => left = <<>>
  <2> SUFFICES ASSUME marks = <<>> PROVE left = <<>>
    OBVIOUS
  <2>1. T = {}
    OBVIOUS
  <2> HIDE DEF T
  <2> QED BY <1>2, <2>1
<1> QED BY <1>2, <1>3, <1>4 DEF left

\* The last frame is gone, and its marks are decided.
LEMMA OpenedIs ==
  ASSUME NEW s, Based(s), s.frames # <<>>, NEW depth, depth = Len(s.frames) - 1, NEW trailing
  PROVE  Opened(s, [s EXCEPT !.frames = SubSeq(@, 1, depth),
                             !.empty_marks = [i \in DOMAIN @ |-> Verdict(@[i], depth, trailing)]])
<1> DEFINE front == Front(s.frames)
           marks == [i \in DOMAIN s.empty_marks |-> Verdict(s.empty_marks[i], depth, trailing)]
           t == [s EXCEPT !.frames = front, !.empty_marks = marks]
<1>1. /\ s \in Machine /\ s.frames \in Seq(Frame) /\ s.empty_marks \in Seq(Mark)
      /\ Stands(s.out, s.frames, s.empty_marks) /\ Sound(s) /\ s.out \in Text
  BY Bodies
<1>2. front \in Seq(Frame) /\ Len(front) = Len(s.frames) - 1 /\ Len(s.frames) \in Nat
  BY <1>1, FrontStands
<1>3. marks \in Seq(Mark)
  BY <1>1, VerdictsAre
<1>4. SameSpans(marks, s.empty_marks)
  <2>1. Len(marks) = Len(s.empty_marks) /\ DOMAIN s.empty_marks = 1..Len(s.empty_marks)
        /\ \A k \in 1..Len(s.empty_marks) : s.empty_marks[k] \in Mark
    BY <1>1
  <2>2. \A e \in Mark : LET d == Verdict(e, depth, trailing) IN d.start = e.start /\ d.end = e.end
    BY DEF Verdict, Mark
  <2>3. \A k \in 1..Len(s.empty_marks) : marks[k] = Verdict(s.empty_marks[k], depth, trailing)
    BY <2>1
  <2> HIDE DEF marks
  <2> QED BY <2>1, <2>2, <2>3 DEF SameSpans
<1> HIDE DEF front, marks
<1>5. /\ t \in Machine /\ t.out = s.out /\ t.emitted = s.emitted /\ t.frames = front
      /\ t.empty_marks = marks /\ t.empty_pending = s.empty_pending
      /\ SameReading(s, t) /\ t.garbage_run = s.garbage_run /\ t.paren_gate = s.paren_gate
  BY <1>1, <1>2, <1>3 DEF Machine, SameReading
<1> HIDE DEF t
<1>6. Sound(t)
  <2>1. s.emitted <= Len(s.out) /\ Len(s.frames) <= MAX_NESTING
    BY <1>1 DEF Sound
  <2>2. Len(t.frames) <= MAX_NESTING
    BY <1>2, <1>5, <2>1, NestingAssumption
  <2> QED BY <1>5, <2>1, <2>2 DEF Sound
<1>7. SameRest(s, t)
  BY <1>5 DEF SameRest
<1>8. Opened(s, t)
  BY <1>4, <1>5, <1>6, <1>7 DEF Opened, front
<1> QED BY <1>8 DEF t, front, marks, Front

\* The root closes: no offset is left but those of the marks that stay.
LEMMA RootCloses ==
  ASSUME NEW s, Closing(s), s.frames # <<>>, Len(s.frames) = 1, NEW u, Shut(s, u),
         NEW left \in Seq(Mark),
         \A k \in 1..Len(left) : \E l \in 1..Len(u.empty_marks) : left[k] = u.empty_marks[l],
         u.empty_marks = <<>> => left = <<>>,
         NEW gate \in Gate,
         \/ gate.kind = "none"
         \/ gate.kind = "TailCheck" /\ TopOf(s).kind = "Paren"
  PROVE  Closing([u EXCEPT !.pos = "AfterValue", !.top_done = TRUE,
                           !.empty_pending = [armed |-> FALSE],
                           !.empty_marks = left, !.paren_gate = gate])
<1> DEFINE none == [armed |-> FALSE]
           t == [u EXCEPT !.pos = "AfterValue", !.top_done = TRUE, !.empty_pending = none,
                          !.empty_marks = left, !.paren_gate = gate]
<1>1. /\ s.frames \in Seq(Frame) /\ s.empty_marks \in Seq(Mark) /\ Sound(s)
      /\ Stands(s.out, s.frames, s.empty_marks) /\ s.out \in Text /\ Based(s)
  BY Bodies DEF Closing, Placed
<1>2. /\ Sound(u) /\ u.frames = Front(s.frames) /\ SameSpans(u.empty_marks, s.empty_marks)
      /\ SameRest(s, u) /\ Stands(u.out, u.frames, u.empty_marks)
  BY DEF Shut
<1>3. /\ u \in Machine /\ u.out \in Text /\ u.frames \in Seq(Frame) /\ u.empty_marks \in Seq(Mark)
  BY <1>2, Counts, Fields
<1>4. u.frames = <<>>
  <2>1. Len(Front(s.frames)) = 0
    BY <1>1, FrontStands
  <2> QED BY <1>2, <1>3, <2>1
<1>5. none \in EmptyPending /\ none.armed = FALSE
  BY DEF EmptyPending
<1> HIDE DEF none
<1>6. /\ t \in Machine /\ t.out = u.out /\ t.emitted = u.emitted /\ t.frames = u.frames
      /\ t.pos = "AfterValue" /\ t.string = u.string /\ t.pending = u.pending
      /\ t.comment = u.comment /\ t.top_done = TRUE /\ t.empty_pending = none
      /\ t.empty_marks = left /\ t.paren_gate = gate /\ t.garbage_run = u.garbage_run
  BY <1>3, <1>5 DEF Machine, Positions
<1> HIDE DEF t
<1>7. Based(t)
  <2>1. Sound(t)
    BY <1>2, <1>6 DEF Sound
  <2>2. \A k \in 1..Len(left) : \E l \in 1..Len(u.empty_marks) :
          left[k].start = u.empty_marks[l].start /\ left[k].end = u.empty_marks[l].end
    OBVIOUS
  <2>3. Stands(u.out, u.frames, left)
    BY <1>2, <1>3, <2>2, MarksStand
  <2> QED BY <1>6, <2>1, <2>3 DEF Based
<1>8. Bare(t) /\ ~t.garbage_run
  BY <1>2, <1>6 DEF Closing, Bare, SameRest, SameReading
<1>9. Reads(t)
  BY <1>6, <1>8, BareReads
<1>10. t.paren_gate.kind = "TailCheck" => t.empty_marks = <<>>
  <2> SUFFICES ASSUME TopOf(s).kind = "Paren" PROVE left = <<>>
    BY <1>6
  <2>1. \A k \in 1..Len(s.empty_marks) : s.empty_marks[k].end <= TopOf(s).brace
    BY <1>1, NoMarkBehind
  <2>2. TopOf(s).brace = 0
    BY <1>1 DEF Stands, TopOf
  <2>3. ASSUME NEW k \in 1..Len(s.empty_marks) PROVE FALSE
    <3>1. Spans(s.out, s.empty_marks[k])
      BY <1>1 DEF Stands
    <3>2. s.empty_marks[k].start \in Nat /\ s.empty_marks[k].end \in Int
      BY <1>1, Placements
    <3>3. s.empty_marks[k].start < s.empty_marks[k].end
      BY <3>1 DEF Spans
    <3> QED BY <2>1, <2>2, <3>2, <3>3
  <2>4. Len(s.empty_marks) \in Nat
    BY <1>1
  <2>5. Len(s.empty_marks) = 0
    <3>1. Len(s.empty_marks) # 0 => 1 \in 1..Len(s.empty_marks)
      BY <2>4
    <3> QED BY <2>3, <3>1
  <2>6. u.empty_marks = <<>>
    BY <1>2, <1>3, <2>5 DEF SameSpans
  <2> QED BY <2>6
<1>11. Placed(t)
  BY <1>4, <1>5, <1>6, <1>7, <1>8, <1>9, <1>10 DEF Placed
<1>12. Closing(t)
  BY <1>8, <1>11 DEF Closing
<1> QED BY <1>12 DEF t, none

\* A decision is deferred or not.
LEMMA ArmedIs == \A p \in EmptyPending : p.armed \in BOOLEAN
<1> SUFFICES ASSUME NEW p \in EmptyPending PROVE p.armed \in BOOLEAN
  OBVIOUS
<1>1. CASE p = [armed |-> FALSE]
  BY <1>1
<1>2. CASE p \in ArmedSet
  BY <1>2 DEF ArmedSet
<1> QED BY <1>1, <1>2 DEF EmptyPending

\* A frame closes inside another: what it was may be an empty element of that one.
LEMMA InnerCloses ==
  ASSUME NEW s, Closing(s), s.frames # <<>>, Len(s.frames) > 1, NEW u, Shut(s, u),
         NEW t \in {u, SetTop(u, [TopOf(u) EXCEPT !.groupish = TRUE])},
         NEW pending \in EmptyPending,
         pending = IF t.empty_pending.armed /\ t.empty_pending.frame >= Len(s.frames) - 1
                   THEN [armed |-> FALSE] ELSE t.empty_pending,
         NEW elem_paren \in BOOLEAN
  PROVE  Closing(arm_empty_pending([t EXCEPT !.pos = "AfterValue", !.top_done = FALSE,
                                             !.empty_pending = pending], elem_paren))
<1> DEFINE n == Len(s.frames)
           g == [TopOf(u) EXCEPT !.groupish = TRUE]
           v == [t EXCEPT !.pos = "AfterValue", !.top_done = FALSE, !.empty_pending = pending]
<1>1. /\ s.frames \in Seq(Frame) /\ s.empty_marks \in Seq(Mark) /\ Sound(s) /\ n \in Nat
      /\ Stands(s.out, s.frames, s.empty_marks) /\ s.out \in Text /\ Based(s)
  BY Bodies DEF Closing, Placed
<1>2. /\ Sound(u) /\ u.frames = Front(s.frames) /\ SameSpans(u.empty_marks, s.empty_marks)
      /\ SameRest(s, u) /\ Stands(u.out, u.frames, u.empty_marks)
  BY DEF Shut
<1>3. Based(u)
  BY <1>2 DEF Based
<1>4. /\ Len(u.frames) = n - 1 /\ u.frames # <<>> /\ u.frames[n - 1] = s.frames[n - 1]
  <2>1. /\ Front(s.frames) \in Seq(Frame) /\ Len(Front(s.frames)) = n - 1
        /\ \A i \in 1..(n - 1) : Front(s.frames)[i] = s.frames[i]
    BY <1>1, FrontStands
  <2>2. n - 1 \in 1..(n - 1)
    BY <1>1
  <2> HIDE DEF n
  <2>3. Len(u.frames) # 0
    BY <1>2, <2>1, <2>2
  <2> QED BY <1>2, <2>1, <2>2, <2>3
<1>5. TopOf(u) = s.frames[n - 1]
  BY <1>4 DEF TopOf
<1>6. /\ Based(t) /\ Still(u, t) /\ t.out = u.out /\ Len(t.frames) = n - 1
      /\ t.frames # <<>> /\ TopOf(t).start = s.frames[n - 1].start
  <2>1. CASE t = u
    BY <1>3, <1>4, <1>5, <2>1 DEF Still, SameReading
  <2>2. CASE t = SetTop(u, g)
    <3>1. TopOf(u) \in Frame
      BY <1>2, <1>4, TopIs
    <3>2. /\ g \in Frame /\ g.kind = TopOf(u).kind /\ g.brace = TopOf(u).brace
          /\ g.begun = TopOf(u).begun /\ g.start = TopOf(u).start
      BY <3>1 DEF Frame
    <3>3. StandsAt(u.out, TopOf(u))
      <4>1. Len(u.frames) \in 1..Len(u.frames)
        BY <1>2, <1>4, TopIs
      <4> QED BY <1>2, <4>1 DEF Stands, TopOf
    <3>4. g.start # None => g.brace < g.start /\ g.start <= Len(u.out) /\ g.begun
      BY <3>2, <3>3 DEF StandsAt
    <3> HIDE DEF g
    <3>5. /\ Based(t) /\ Still(u, t) /\ t.out = u.out /\ Len(t.frames) = Len(u.frames)
          /\ t.frames # <<>> /\ TopOf(t) = g
      BY <1>3, <1>4, <2>2, <3>2, <3>4, TopBased
    <3> QED BY <1>4, <1>5, <3>2, <3>5
  <2> QED BY <2>1, <2>2 DEF g
<1> HIDE DEF g
<1>7. pending.armed = FALSE
  <2>1. t.empty_pending = u.empty_pending
    BY <1>6 DEF Still
  <2>2. t.empty_pending.armed => t.empty_pending.frame = n - 1
    <3>1. u.empty_pending.armed => s.empty_pending.armed /\ u.empty_pending.frame = s.empty_pending.frame
      BY <1>2 DEF SameRest
    <3>2. s.empty_pending.armed => s.empty_pending.frame = n - 1
      BY DEF Closing, Placed, Armed
    <3> QED BY <2>1, <3>1, <3>2
  <2>3. t.empty_pending \in EmptyPending
    <3>1. t \in Machine
      BY <1>6, Bodies
    <3> QED BY <3>1, Fields
  <2>4. t.empty_pending.armed \in BOOLEAN
    BY <2>3, ArmedIs
  <2>5. CASE t.empty_pending.armed
    <3>1. t.empty_pending.frame >= n - 1
      BY <1>1, <2>2, <2>5
    <3> QED BY <2>5, <3>1
  <2>6. CASE ~t.empty_pending.armed
    BY <2>4, <2>6
  <2> QED BY <2>5, <2>6
<1>8. /\ t \in Machine /\ Sound(t) /\ Stands(t.out, t.frames, t.empty_marks)
  BY <1>6, Bodies
<1>9. /\ v \in Machine /\ v.out = t.out /\ v.emitted = t.emitted /\ v.frames = t.frames
      /\ v.pos = "AfterValue" /\ v.string = t.string /\ v.pending = t.pending
      /\ v.comment = t.comment /\ v.empty_pending = pending
      /\ v.empty_marks = t.empty_marks /\ v.paren_gate = t.paren_gate /\ v.garbage_run = t.garbage_run
  BY <1>8 DEF Machine, Positions
<1> HIDE DEF v
<1>10. Based(v)
  BY <1>8, <1>9 DEF Based, Sound
<1>11. SameRest(s, t)
  BY <1>2, <1>6 DEF SameRest, Still, SameReading
<1>12. Within(v)
  <2>1. s.paren_gate.kind = "none" /\ ~s.garbage_run
    BY GateIs DEF Closing
  <2> QED BY <1>6, <1>7, <1>9, <1>10, <1>11, <2>1 DEF Within, SameRest
<1>13. Bare(v)
  BY <1>9, <1>11 DEF Closing, Bare, SameRest, SameReading
<1>14. Ripe(v) => InFlight(v)
  <2>1. v.out = u.out /\ v.frames # <<>> /\ Len(v.frames) = n - 1
    BY <1>6, <1>9
  <2>2. TopOf(v).start = s.frames[n - 1].start
    BY <1>6, <1>9 DEF TopOf
  <2>3. SameSpans(v.empty_marks, s.empty_marks)
    BY <1>2, <1>6, <1>9 DEF Still
  <2> QED BY <1>1, <1>10, <2>1, <2>2, <2>3, ShutIsRipe
<1>15. Closing(arm_empty_pending(v, elem_paren))
  BY <1>9, <1>12, <1>13, <1>14, ArmPlaced
<1> QED BY <1>15 DEF v

\* The innermost frame closes.
LEMMA PopPlaced ==
  ASSUME NEW s, Closing(s)
  PROVE  Closing(pop_frame(s))
<1>1. CASE s.frames = <<>>
  BY <1>1 DEF pop_frame
<1>2. CASE s.frames # <<>>
  <2> DEFINE f        == TopOf(s)
             depth    == Len(s.frames) - 1
             trailing == s.pos = "Value" /\ f.count > 0
             t1 == [s EXCEPT !.frames = SubSeq(@, 1, depth),
                             !.empty_marks = [i \in DOMAIN @ |-> Verdict(@[i], depth, trailing)]]
             p1 == PopParen(t1, f)
             p2 == [m |-> PopObject(t1, f), groupish |-> FALSE]
             p3 == [m |-> Emit(t1, <<"]">>), groupish |-> FALSE]
             pp == IF f.kind = "Paren" THEN PopParen(t1, f)
                   ELSE [m |-> IF f.kind = "Obj" THEN PopObject(t1, f) ELSE Emit(t1, <<"]">>),
                         groupish |-> FALSE]
             u  == pp.m
             t2 == IF pp.groupish /\ depth > 0
                   THEN SetTop(u, [TopOf(u) EXCEPT !.groupish = TRUE]) ELSE u
             pending == IF depth = 0 \/ (t2.empty_pending.armed /\ t2.empty_pending.frame >= depth)
                        THEN [armed |-> FALSE] ELSE t2.empty_pending
             t3 == [t2 EXCEPT !.pos = "AfterValue", !.top_done = depth = 0, !.empty_pending = pending]
             left == Except(t3.empty_marks, {k \in Members(t3.empty_marks) : k.dropped = "keep"})
             gate == IF pp.groupish THEN [kind |-> "TailCheck"] ELSE t3.paren_gate
             t4 == IF depth > 0 THEN t3 ELSE [t3 EXCEPT !.empty_marks = left, !.paren_gate = gate]
             paren == f.kind = "Paren"
  <2>1. /\ Based(s) /\ Sound(s) /\ Len(s.frames) \in Nat \ {0} /\ f.kind \in Kinds
    <3>1. Based(s) /\ Sound(s)
      BY Bodies DEF Closing, Placed
    <3> QED BY <1>2, <3>1, TopIs, FrameFields
  <2>10. /\ depth \in Nat /\ (depth = 0 \/ depth > 0)
         /\ depth = 0 => ~(depth > 0) /\ (depth = 0) = TRUE
         /\ depth > 0 => (depth = 0) = FALSE
    <3>1. depth \in Nat
      BY <2>1
    <3> HIDE DEF depth
    <3> QED BY <3>1
  <2>2. pop_frame(s) = arm_empty_pending(t4, paren)
    BY <1>2 DEF pop_frame
  <2>3. Opened(s, t1)
    <3> HIDE DEF trailing
    <3> QED BY <1>2, <2>1, OpenedIs
  <2> HIDE DEF t1
  <2>4. Shut(s, u) /\ (pp.groupish => f.kind = "Paren")
    <3>1. CASE f.kind = "Paren"
      <4>1. pp = p1
        BY <3>1
      <4>2. Shut(s, p1.m)
        BY <1>2, <2>1, <2>3, <3>1, FrameShuts
      <4> QED BY <3>1, <4>1, <4>2
    <3>2. CASE f.kind = "Obj"
      <4>1. pp = p2
        BY <3>2
      <4>2. Shut(s, PopObject(t1, f))
        BY <1>2, <2>1, <2>3, <3>2, FrameShuts
      <4> HIDE DEF f
      <4> QED BY <4>1, <4>2
    <3>3. CASE f.kind = "Arr"
      <4>1. pp = p3
        BY <3>3
      <4>2. Shut(s, Emit(t1, <<"]">>))
        BY <1>2, <2>1, <2>3, FrameShuts
      <4> HIDE DEF f
      <4> QED BY <4>1, <4>2
    <3> QED BY <2>1, <3>1, <3>2, <3>3 DEF Kinds
  <2> HIDE DEF pp, p1, p2, p3
  <2>5. Sound(u) /\ u \in Machine /\ SameRest(s, u) /\ u.empty_marks \in Seq(Mark)
    <3>1. Sound(u) /\ SameRest(s, u)
      BY <2>4 DEF Shut
    <3> QED BY <3>1, Counts, Fields
  <2>6. s.paren_gate.kind = "none" /\ s.paren_gate \in Gate
    BY <1>2, <2>1, GateIs, Counts, Fields DEF Closing
  <2>7. paren \in BOOLEAN
    OBVIOUS
  <2>8. CASE depth = 0
    <3> DEFINE none == [armed |-> FALSE]
               w == [u EXCEPT !.pos = "AfterValue", !.top_done = TRUE, !.empty_pending = none,
                              !.empty_marks = left, !.paren_gate = gate]
    <3>1. t2 = u /\ pending = none /\ Len(s.frames) = 1
      <4>1. Len(s.frames) = 1
        BY <2>1, <2>8
      <4> HIDE DEF depth, u
      <4> QED BY <2>8, <2>10, <4>1
    <3> HIDE DEF t2, pending, u
    <3>2. t3 = [u EXCEPT !.pos = "AfterValue", !.top_done = TRUE, !.empty_pending = none]
      BY <2>8, <3>1
    <3>3. t3.empty_marks = u.empty_marks /\ t3.paren_gate = u.paren_gate
      <4> HIDE DEF t3
      <4> QED BY <2>5, <3>2 DEF Machine
    <3> DEFINE S == {k \in Members(t3.empty_marks) : k.dropped = "keep"}
    <3> HIDE DEF t3, S
    <3>4. left = Except(u.empty_marks, S)
      BY <3>3 DEF S
    <3>5. /\ left \in Seq(Mark) /\ (u.empty_marks = <<>> => left = <<>>)
          /\ \A k \in 1..Len(left) : \E l \in 1..Len(u.empty_marks) : left[k] = u.empty_marks[l]
      <4> HIDE DEF left
      <4> QED BY <2>5, <3>4, LeftIs
    <3> HIDE DEF left
    <3>6. /\ gate \in Gate
          /\ gate.kind = "none" \/ (gate.kind = "TailCheck" /\ f.kind = "Paren")
      <4>1. u.paren_gate = s.paren_gate
        BY <2>5 DEF SameRest
      <4>2. [kind |-> "TailCheck"] \in Gate
        BY Values
      <4> HIDE DEF f
      <4> QED BY <2>4, <2>6, <3>3, <4>1, <4>2
    <3> HIDE DEF gate
    <3>7. Closing(w)
      BY <1>2, <2>4, <3>1, <3>5, <3>6, RootCloses
    <3>8. t4 = [t3 EXCEPT !.empty_marks = left, !.paren_gate = gate]
      <4> HIDE DEF depth
      <4> QED BY <2>8, <2>10
    <3>9. t4 = w
      <4> HIDE DEF t4, none
      <4> QED BY <2>5, <3>2, <3>8 DEF Machine
    <3>10. t4.frames = <<>>
      <4>1. w.frames = u.frames
        BY <2>5 DEF Machine
      <4>2. u.frames = Front(s.frames)
        BY <2>4 DEF Shut
      <4>3. Len(Front(s.frames)) = 0 /\ Front(s.frames) \in Seq(Frame)
        BY <1>2, <2>1, <3>1, Bodies, FrontStands
      <4> HIDE DEF w, t4
      <4> QED BY <3>9, <4>1, <4>2, <4>3
    <3>11. arm_empty_pending(t4, paren) = t4
      <4> HIDE DEF t4, paren
      <4> QED BY <3>10 DEF arm_empty_pending
    <3> HIDE DEF t4, w, paren
    <3> QED BY <2>2, <3>7, <3>9, <3>11
  <2>9. CASE depth > 0
    <3> HIDE DEF u
    <3>1. Len(s.frames) > 1
      BY <2>1, <2>9
    <3>2. t2 \in {u, SetTop(u, [TopOf(u) EXCEPT !.groupish = TRUE])}
      OBVIOUS
    <3> HIDE DEF t2
    <3>3. pending = IF t2.empty_pending.armed /\ t2.empty_pending.frame >= Len(s.frames) - 1
                    THEN [armed |-> FALSE] ELSE t2.empty_pending
      <4>1. depth = Len(s.frames) - 1
        OBVIOUS
      <4> HIDE DEF depth
      <4>2. ~(depth = 0)
        BY <2>9, <2>10
      <4>3. pending = IF t2.empty_pending.armed /\ t2.empty_pending.frame >= depth
                      THEN [armed |-> FALSE] ELSE t2.empty_pending
        BY <4>2
      <4> HIDE DEF pending
      <4> QED BY <4>1, <4>3, Zenon
    <3>4. t4 = [t2 EXCEPT !.pos = "AfterValue", !.top_done = FALSE, !.empty_pending = pending]
      <4> HIDE DEF pending, t2, depth
      <4> QED BY <2>9, <2>10
    <3>5. pending \in EmptyPending
      <4>1. t2.empty_pending \in EmptyPending
        <5>1. SetTop(u, [TopOf(u) EXCEPT !.groupish = TRUE]).empty_pending = u.empty_pending
          BY <2>5 DEF SetTop, Machine
        <5>2. u.empty_pending \in EmptyPending
          BY <2>5, Fields
        <5> QED BY <3>2, <5>1, <5>2
      <4> HIDE DEF pending
      <4> QED BY <3>3, <4>1, Values
    <3> HIDE DEF pending
    <3>6. Closing(arm_empty_pending([t2 EXCEPT !.pos = "AfterValue", !.top_done = FALSE,
                                               !.empty_pending = pending], paren))
      <4> HIDE DEF paren
      <4> QED BY <1>2, <2>4, <2>7, <3>1, <3>2, <3>3, <3>5, InnerCloses
    <3> HIDE DEF t4, paren
    <3> QED BY <2>2, <3>4, <3>6
  <2> HIDE DEF depth
  <2> QED BY <2>8, <2>9, <2>10
<1> QED BY <1>1, <1>2

\* A closer closes what it matches, and closing goes on.
LEMMA ClosePlaced ==
  ASSUME NEW s, Closing(s), NEW c
  PROVE  Closing(close_up(s, c))
<1> DEFINE X == {t \in Machine : Closing(t)}
<1>1. s \in X /\ Len(s.frames) \in Nat
  BY Bodies DEF Closing, Placed
<1>2. \A x \in X : pop_frame(x) \in X
  BY PopPlaced, Bodies DEF Closing, Placed
<1>3. \A t \in X : Closing(t)
  OBVIOUS
<1> HIDE DEF X
<1> QED BY <1>1, <1>2, <1>3, CloseStays

-----------------------------------------------------------------------------
(* The handlers: each leaves a placed machine.                             *)

\* A machine that reads on where nothing is gated or thrown away.
Calm(s) == Placed(s) /\ ~s.garbage_run /\ s.paren_gate.kind = "none"

\* What it may do.
LEMMA CalmIs ==
  ASSUME NEW s, Calm(s), ~s.empty_pending.armed
  PROVE  /\ Based(s) /\ Reads(s) /\ s \in Machine /\ Sound(s)
         /\ (s.frames # <<>> => Within(s)) /\ (Bare(s) => Closing(s))
         /\ \A t \in Beside(s) : Reads(t) => Placed(t)
<1>1. /\ Based(s) /\ Reads(s) /\ (s.frames = <<>> /\ ~s.top_done => s.out = <<>>)
  BY DEF Calm, Placed
<1>2. s \in Machine /\ Sound(s)
  BY <1>1, Bodies
<1>3. s.frames # <<>> => Within(s)
  BY <1>1 DEF Calm, Within
<1>4. Bare(s) => Closing(s)
  BY DEF Calm, Closing
<1>5. ASSUME NEW t \in Beside(s), Reads(t) PROVE Placed(t)
  BY <1>1, <1>5, OtherReading DEF Calm
<1> QED BY <1>1, <1>2, <1>3, <1>4, <1>5

\* Nothing is deferred while something is being read.
LEMMA NotArmed ==
  ASSUME NEW s, Placed(s), ~Bare(s) \/ s.frames = <<>>
  PROVE  ~s.empty_pending.armed
BY DEF Placed, Armed, InFlight

\* A comment is of no member.
LEMMA CommentsPlaced ==
  ASSUME NEW s, Calm(s), ~s.empty_pending.armed, NEW x \in Comment
  PROVE  Placed([s EXCEPT !.comment = x])
<1> DEFINE t == [s EXCEPT !.comment = x]
<1>1. Based(s) /\ Reads(s) /\ s \in Machine
  BY CalmIs
<1>2. t \in Beside(s) /\ t.pos = s.pos /\ t.string = s.string /\ t.pending = s.pending
  BY <1>1, ReadingMoves
<1> HIDE DEF t
<1>3. (InFlight(t) <=> InFlight(s)) /\ (InObject(t) <=> InObject(s))
  BY <1>1, <1>2, BesideIs
<1>4. Reads(t)
  BY <1>1, <1>2, <1>3 DEF Reads, Busy, KeyAhead
<1>5. Placed(t)
  BY <1>2, <1>4, CalmIs
<1> QED BY <1>5 DEF t

\* A comment opens.
LEMMA OpenCommentPlaced ==
  ASSUME NEW s, Calm(s), ~s.empty_pending.armed, NEW c
  PROVE  Placed(OpenComment(s, c))
<1> DEFINE comment == IF c = "#" THEN hash_comment(s) ELSE [kind |-> "Slash"]
           t == [s EXCEPT !.comment = comment]
<1>1. OpenComment(s, c) = t
  BY DEF OpenComment
<1>2. s \in Machine /\ Sound(s)
  BY CalmIs
<1>3. t \in Machine
  <2>1. Keeps(s, OpenComment(s, c))
    BY <1>2, OpenCommentKeeps
  <2> HIDE DEF t
  <2> QED BY <1>1, <2>1 DEF Keeps, Sound
<1> HIDE DEF comment
<1>4. t.comment = comment
  BY <1>2 DEF Machine
<1>5. comment \in Comment
  <2> HIDE DEF t
  <2> QED BY <1>3, <1>4, Fields
<1> HIDE DEF t
<1> QED BY <1>1, <1>5, CommentsPlaced DEF t

\* A comment takes a character, or ends and hands it back.
LEMMA CommentPlaced ==
  ASSUME NEW s, Calm(s), s.comment.kind # "none", NEW c \in Token
  PROVE  Placed(feed_comment(s, c))
<1> DEFINE Ended == [s EXCEPT !.comment = [kind |-> "none"]]
<1>1. ~s.empty_pending.armed
  BY NotArmed DEF Calm, Bare
<1>2. s \in Machine /\ Sound(s) /\ s.comment \in Comment
  BY <1>1, CalmIs, Fields
<1>3. Placed(s) /\ \A x \in Comment : Placed([s EXCEPT !.comment = x])
  BY <1>1, CommentsPlaced DEF Calm
<1>4. Placed(Ended)
  BY <1>3, Values
<1>5. <<c>> \in Text
  BY Tokens
<1>6. Placed(Replay(Ended, <<c>>))
  <2> HIDE DEF Ended
  <2> QED BY <1>4, <1>5, Asides
<1>7. s.comment.kind \in {"Slash", "Line", "Hash", "Block"}
  BY <1>2 DEF Comment
<1>8. CASE s.comment.kind = "Hash"
  <2>1. feed_comment(s, c) \in {s, Replay(Ended, <<c>>)}
    BY <1>8 DEF feed_comment
  <2> QED BY <1>3, <1>6, <2>1
<1>9. CASE s.comment.kind = "Line"
  <2>1. feed_comment(s, c) \in {s, Ended}
    BY <1>9 DEF feed_comment
  <2> QED BY <1>3, <1>4, <2>1
<1>10. CASE s.comment.kind = "Block"
  <2> DEFINE x == [s.comment EXCEPT !.prev = c]
  <2>1. feed_comment(s, c) \in {Ended, [s EXCEPT !.comment = x]}
    BY <1>10 DEF feed_comment
  <2>2. s.comment \in [kind : {"Block"}, prev : Token]
    BY <1>2, <1>10 DEF Comment
  <2>3. x \in Comment
    BY <2>2 DEF Comment
  <2> HIDE DEF x
  <2> QED BY <1>3, <1>4, <2>1, <2>3
<1>11. CASE s.comment.kind = "Slash"
  <2> DEFINE x == [kind |-> "Line"]
             y == [kind |-> "Block", prev |-> "*"]
  <2>1. feed_comment(s, c) \in {Ended, [s EXCEPT !.comment = x], [s EXCEPT !.comment = y]}
    BY <1>11 DEF feed_comment
  <2>2. "*" \in Token
    BY DEF Token, Written
  <2>3. x \in Comment /\ y \in Comment
    BY <2>2, Values
  <2> HIDE DEF x, y
  <2> QED BY <1>3, <1>4, <2>1, <2>3
<1> QED BY <1>7, <1>8, <1>9, <1>10, <1>11

\* Inside a container, another position where nothing is read.
LEMMA PosPlaced ==
  ASSUME NEW s, Within(s), Bare(s), NEW pos \in Positions,
         pos \in {"Colon", "MemberValue"} => InFlight(s),
         pos \in {"Key", "Colon"} => InObject(s)
  PROVE  LET t == [s EXCEPT !.pos = pos]
         IN  Placed(t) /\ Within(t) /\ Bare(t) /\ Closing(t) /\ Reads(t)
<1> DEFINE t == [s EXCEPT !.pos = pos]
<1>1. Based(s)
  BY DEF Within
<1>2. s \in Machine
  BY <1>1, Bodies
<1>3. /\ t \in Beside(s) /\ t.pos = pos /\ t.string = s.string /\ t.pending = s.pending
      /\ t.comment = s.comment
  BY <1>2, ReadingMoves
<1> HIDE DEF t
<1>4. (InFlight(t) <=> InFlight(s)) /\ (InObject(t) <=> InObject(s)) /\ Within(t)
  BY <1>1, <1>3, BesideIs
<1>5. Bare(t)
  BY <1>3 DEF Bare
<1>6. Reads(t)
  BY <1>3, <1>4, <1>5 DEF Bare, Reads, Busy, KeyAhead
<1>7. Placed(t)
  BY <1>4, <1>6, GoesOn
<1>8. Closing(t)
  BY <1>4, <1>5, <1>7 DEF Closing, Within
<1> QED BY <1>4, <1>5, <1>6, <1>7, <1>8 DEF t

\* Inside a container, a token is written and another position follows.
LEMMA WrittenPlaced ==
  ASSUME NEW s, Within(s), Bare(s), NEW toks \in Text, NEW pos \in Positions,
         pos \in {"Colon", "MemberValue"} => InFlight(s),
         pos \in {"Key", "Colon"} => InObject(s)
  PROVE  LET t == [Emit(s, toks) EXCEPT !.pos = pos]
         IN  Placed(t) /\ Within(t) /\ Bare(t) /\ Closing(t) /\ Reads(t)
<1> DEFINE e == Emit(s, toks)
<1>1. Based(s)
  BY DEF Within
<1>2. /\ (InFlight(e) <=> InFlight(s)) /\ (InObject(e) <=> InObject(s))
      /\ SameReading(s, e) /\ Within(e)
  BY <1>1, EmitWithin
<1> HIDE DEF e
<1>3. Bare(e)
  BY <1>2, SameReadingIs
<1>4. LET t == [e EXCEPT !.pos = pos]
      IN  Placed(t) /\ Within(t) /\ Bare(t) /\ Closing(t) /\ Reads(t)
  BY <1>2, <1>3, PosPlaced
<1> QED BY <1>4 DEF e

\* Where a key is awaited.
LEMMA KeyPosPlaced ==
  ASSUME NEW s, Within(s), Reads(s), Bare(s), s.pos = "Key", NEW c \in Token
  PROVE  Placed(KeyPos(s, c))
<1>1. Placed(s) /\ Closing(s)
  BY GoesOn DEF Closing, Within
<1>2. InObject(s)
  BY DEF Reads, KeyAhead
<1>3. Placed(close_up(s, c))
  BY <1>1, ClosePlaced DEF Closing
<1>4. Placed(mark_body_colon(s))
  <2> DEFINE t == mark_body_colon(s)
  <2>1. Within(t) /\ SameReading(s, t) /\ (InObject(t) <=> InObject(s))
    BY NotesWithin
  <2> HIDE DEF t
  <2>2. Reads(t)
    <3>1. Bare(t) /\ t.pos = "Key"
      BY <2>1, SameReadingIs DEF SameReading
    <3> QED BY <1>2, <2>1, <3>1 DEF Reads, Bare, Busy, KeyAhead
  <2>3. Placed(t)
    BY <2>1, <2>2, GoesOn
  <2> QED BY <2>3 DEF t
<1>5. KeyPos(s, c) \in
        {close_up(s, c), mark_body_colon(s), open_string(begin_common(s), c, TRUE),
         WithPending(begin_common(s), WordPending(<<c>>, TRUE, FALSE)),
         WithPending(begin_common(s), NumPending(<<c>>, TRUE)), s}
  BY DEF KeyPos
<1>6. /\ Placed(open_string(begin_common(s), c, TRUE))
      /\ Placed(WithPending(begin_common(s), WordPending(<<c>>, TRUE, FALSE)))
      /\ Placed(WithPending(begin_common(s), NumPending(<<c>>, TRUE)))
  BY <1>2, MemberPlaced
<1> QED BY <1>1, <1>3, <1>4, <1>5, <1>6

\* The dangling member retracts, and the character is read again.
LEMMA DanglingPlaced ==
  ASSUME NEW s, Within(s), Bare(s), InFlight(s), InObject(s), NEW c \in Token
  PROVE  Placed(drop_dangling_member(s)) /\ Placed(Replay(drop_dangling_member(s), <<c>>))
<1> DEFINE t == drop_dangling_member(s)
<1>1. /\ Within(t) /\ t.pos = "Key" /\ t.string = s.string /\ t.pending = s.pending
      /\ t.comment = s.comment /\ InObject(t)
  BY RetractsWithin
<1> HIDE DEF t
<1>2. Reads(t)
  BY <1>1 DEF Reads, Bare, Busy, KeyAhead
<1>3. Placed(t)
  BY <1>1, <1>2, GoesOn
<1>4. <<c>> \in Text
  BY Tokens
<1>5. Placed(Replay(t, <<c>>))
  BY <1>3, <1>4, Asides
<1> QED BY <1>3, <1>5 DEF t

\* Where a colon is awaited.
LEMMA ColonPosPlaced ==
  ASSUME NEW s, Within(s), Reads(s), Bare(s), s.pos = "Colon", NEW c \in Token
  PROVE  Placed(ColonPos(s, c))
<1> DEFINE AtColon == [Emit(s, <<ColonTok>>) EXCEPT !.pos = "MemberValue"]
<1>1. Placed(s)
  BY GoesOn
<1>2. InObject(s) /\ InFlight(s)
  BY DEF Reads, KeyAhead, Busy
<1>3. Placed(Replay(drop_dangling_member(s), <<c>>))
  BY <1>2, DanglingPlaced
<1>4. ColonPos(s, c) \in
        {AtColon, Replay(drop_dangling_member(s), <<c>>), Replay(AtColon, <<c>>), s}
  BY DEF ColonPos
<1>5. Placed(AtColon)
  <2>1. <<ColonTok>> \in Text
    BY Tokens
  <2>2. "MemberValue" \in Positions
    BY Values
  <2> HIDE DEF AtColon
  <2>3. "MemberValue" \notin {"Key", "Colon"}
    OBVIOUS
  <2>4. LET t == [Emit(s, <<ColonTok>>) EXCEPT !.pos = "MemberValue"]
        IN  Placed(t)
    BY <1>2, <2>1, <2>2, <2>3, WrittenPlaced
  <2> QED BY <2>4 DEF AtColon
<1> HIDE DEF AtColon
<1>6. <<c>> \in Text
  BY Tokens
<1>7. Placed(Replay(AtColon, <<c>>))
  BY <1>5, <1>6, Asides
<1> QED BY <1>1, <1>3, <1>4, <1>5, <1>7

\* Behind a value, or where one is awaited in an array: a comma is noted.
LEMMA CommaPlaced ==
  ASSUME NEW s, Within(s), Bare(s), s.pos \in {"Value", "AfterValue"}
  PROVE  /\ Placed(note_comma(s)) /\ Within(note_comma(s)) /\ Bare(note_comma(s))
         /\ (InObject(note_comma(s)) <=> InObject(s))
         /\ s.pos = "Value" => Placed([note_comma(s) EXCEPT !.garbage_run = TRUE])
<1> DEFINE t == note_comma(s)
           u == [t EXCEPT !.garbage_run = TRUE]
<1>1. Within(t) /\ SameReading(s, t) /\ (InObject(t) <=> InObject(s))
  BY NotesWithin
<1> HIDE DEF t
<1>2. Bare(t) /\ t.pos = s.pos
  BY <1>1, SameReadingIs DEF SameReading
<1>3. Reads(t)
  BY <1>2 DEF Reads, Bare, Busy, KeyAhead
<1>4. Placed(t)
  BY <1>1, <1>3, GoesOn
<1>5. ASSUME s.pos = "Value" PROVE Placed(u)
  <2>1. Based(t) /\ t \in Machine /\ Sound(t)
    BY <1>1, Bodies DEF Within
  <2>2. u \in Like(t)
    BY <2>1, FieldsMove
  <2>3. /\ u.out = t.out /\ u.frames = t.frames /\ u.empty_marks = t.empty_marks
        /\ u.empty_pending = t.empty_pending /\ u.paren_gate = t.paren_gate
        /\ u.pos = t.pos /\ u.string = t.string /\ u.pending = t.pending
        /\ u.comment = t.comment /\ u.top_done = t.top_done
    BY <2>1 DEF Machine
  <2> HIDE DEF u
  <2>4. Sound(u)
    BY <2>1, <2>2, LikeKeeps, KeptIsSound
  <2>5. Based(u)
    BY <2>1, <2>3, <2>4 DEF Based
  <2>6. Bare(u)
    BY <1>2, <2>3 DEF Bare
  <2>7. Reads(u)
    BY <1>2, <1>5, <2>3, <2>6 DEF Reads, Bare, Busy, KeyAhead
  <2>8. /\ ~u.empty_pending.armed /\ u.frames # <<>> /\ u.paren_gate.kind = "none"
        /\ u.pos = "Value"
    BY <1>1, <1>2, <1>5, <2>3 DEF Within
  <2> QED BY <2>5, <2>6, <2>7, <2>8 DEF Placed
<1>6. Placed(t) /\ Within(t) /\ Bare(t) /\ (InObject(t) <=> InObject(s))
  BY <1>1, <1>2, <1>4
<1> QED BY <1>5, <1>6 DEF t

\* Where a value is awaited.
LEMMA ValuePosPlaced ==
  ASSUME NEW s0, Within(s0), Reads(s0), Bare(s0), s0.pos \in {"Value", "MemberValue"},
         NEW c \in Token
  PROVE  Placed(ValuePos(s0, c))
<1> DEFINE healed == s0.pos = "MemberValue" /\ c \in Closers \cup {","}
           quoted == [Emit(s0, <<"\"", "\"">>) EXCEPT !.pos = "AfterValue"]
           s == IF healed THEN quoted ELSE s0
<1>1. Placed(s0) /\ Closing(s0)
  BY GoesOn DEF Closing, Within
<1>2. Placed(quoted) /\ Within(quoted) /\ Bare(quoted) /\ Closing(quoted) /\ quoted.pos = "AfterValue"
  <2> DEFINE toks == <<"\"", "\"">>
  <2>1. toks \in Text /\ "AfterValue" \in Positions
    BY Tokens, Values
  <2>2. quoted = [Emit(s0, toks) EXCEPT !.pos = "AfterValue"]
    OBVIOUS
  <2> HIDE DEF toks, quoted
  <2>2a. /\ "AfterValue" \notin {"Colon", "MemberValue"} /\ "AfterValue" \notin {"Key", "Colon"}
    OBVIOUS
  <2>3. Placed(quoted) /\ Within(quoted) /\ Bare(quoted) /\ Closing(quoted)
    BY <2>1, <2>2, <2>2a, WrittenPlaced
  <2>4. Emit(s0, toks) \in Machine
    <3>1. Based(Emit(s0, toks))
      BY <2>1, EmitWithin DEF Within
    <3> QED BY <3>1, Bodies
  <2>5. quoted.pos = "AfterValue"
    BY <2>2, <2>4 DEF Machine
  <2> QED BY <2>3, <2>5
<1>3. \/ c \in Closers /\ ValuePos(s0, c) = close_up(s, c)
      \/ /\ c = "," /\ s.pos = "Value"
         /\ ValuePos(s0, c) = [note_comma(s) EXCEPT !.garbage_run = TRUE]
      \/ c = "," /\ ValuePos(s0, c) = note_comma(s)
      \/ s.pos = "MemberValue" /\ ValuePos(s0, c) = feed_structure_value(s, c)
      \/ s.pos = "Value" /\ ValuePos(s0, c) = feed_structure_value(begin_common(s), c)
      \/ ValuePos(s0, c) = s
  <2>1. ValuePos(s0, c) =
          CASE c \in Closers -> close_up(s, c)
            [] c = "," /\ s.pos = "Value" -> [note_comma(s) EXCEPT !.garbage_run = TRUE]
            [] c = "," /\ s.pos # "Value" -> note_comma(s)
            [] is_value_start(c) /\ s.pos = "MemberValue" -> feed_structure_value(s, c)
            [] is_value_start(c) /\ s.pos = "Value" -> feed_structure_value(begin_common(s), c)
            [] OTHER -> s
    BY DEF ValuePos
  <2> HIDE DEF s, healed, quoted
  <2> QED BY <2>1
<1>4. Placed(s) /\ Within(s) /\ Bare(s) /\ Closing(s)
  <2> HIDE DEF healed, quoted
  <2> QED BY <1>1, <1>2
<1>5. /\ s.pos \in {"Value", "MemberValue", "AfterValue"} /\ (s.pos = "Value" => s = s0)
      /\ (s.pos = "MemberValue" => s = s0 /\ ~healed)
      /\ (c = "," => s.pos # "MemberValue")
  <2> HIDE DEF quoted
  <2> QED BY <1>2
<1> HIDE DEF s, healed, quoted
<1>6. Placed(close_up(s, c))
  BY <1>4, ClosePlaced DEF Closing
<1>7. c = "," => Placed(note_comma(s))
  BY <1>4, <1>5, CommaPlaced
<1>8. c = "," /\ s.pos = "Value" => Placed([note_comma(s) EXCEPT !.garbage_run = TRUE])
  BY <1>4, <1>5, CommaPlaced
<1>9. s.pos = "MemberValue" => Placed(feed_structure_value(s, c))
  <2> SUFFICES ASSUME s.pos = "MemberValue" PROVE Placed(feed_structure_value(s, c))
    OBVIOUS
  <2>1. InFlight(s)
    BY <1>5 DEF Reads, Busy
  <2>2. s.pos \notin {"Key", "Colon"}
    OBVIOUS
  <2> QED BY <1>4, <2>1, <2>2, ValuePlaced
<1>10. s.pos = "Value" => Placed(feed_structure_value(begin_common(s), c))
  <2> SUFFICES ASSUME s.pos = "Value" PROVE Placed(feed_structure_value(begin_common(s), c))
    OBVIOUS
  <2>1. s.pos \notin {"Key", "Colon"}
    OBVIOUS
  <2> QED BY <1>4, <2>1, MemberPlaced
<1> QED BY <1>3, <1>4, <1>6, <1>7, <1>8, <1>9, <1>10

\* Behind a value.
LEMMA AfterValuePosPlaced ==
  ASSUME NEW s, Within(s), Bare(s), s.pos = "AfterValue", NEW c \in Token
  PROVE  Placed(AfterValuePos(s, c))
<1> DEFINE pos == IF InObject(s) THEN "Key" ELSE "Value"
           n == note_comma(s)
           t == [n EXCEPT !.pos = pos]
<1>1. Reads(s)
  BY BareReads
<1>2. Placed(s) /\ Closing(s)
  BY <1>1, GoesOn DEF Closing, Within
<1>3. Placed(close_up(s, c))
  BY <1>2, ClosePlaced DEF Closing
<1>4. s.pos \notin {"Key", "Colon"}
  OBVIOUS
<1>5. /\ Placed(feed_structure_value(begin_common(s), c))
      /\ InObject(s) =>
           /\ Placed(open_string(begin_common(s), c, TRUE))
           /\ Placed(WithPending(begin_common(s), WordPending(<<c>>, TRUE, FALSE)))
           /\ Placed(WithPending(begin_common(s), NumPending(<<c>>, TRUE)))
  BY <1>4, MemberPlaced
<1>6. AfterValuePos(s, c) \in
        {t, close_up(s, c), open_string(begin_common(s), c, TRUE),
         WithPending(begin_common(s), WordPending(<<c>>, TRUE, FALSE)),
         WithPending(begin_common(s), NumPending(<<c>>, TRUE)),
         feed_structure_value(begin_common(s), c), s}
  BY DEF AfterValuePos
<1>6a. ~InObject(s) =>
         AfterValuePos(s, c) \in {t, close_up(s, c), feed_structure_value(begin_common(s), c), s}
  BY DEF AfterValuePos
<1>7. pos \in Positions /\ pos \notin {"Colon", "MemberValue"} /\ (pos \in {"Key", "Colon"} => InObject(s))
  BY Values
<1>8. Within(n) /\ Bare(n) /\ (InObject(n) <=> InObject(s))
  BY CommaPlaced
<1> HIDE DEF pos, n
<1>9. Placed(t)
  BY <1>7, <1>8, PosPlaced
<1> HIDE DEF t
<1> QED BY <1>2, <1>3, <1>5, <1>6, <1>6a, <1>9

\* A character inside a container.
LEMMA StructurePlaced ==
  ASSUME NEW s, Calm(s), Bare(s), s.frames # <<>>, NEW c \in Token,
         s.empty_pending.armed => c \in Whitespace
  PROVE  Placed(feed_structure(s, c))
<1>1. CASE c \in Whitespace
  <2>1. c \notin {"#", "/"}
    BY <1>1 DEF Whitespace
  <2>1a. feed_structure(s, c) = s
    BY <1>1, <2>1 DEF feed_structure
  <2> QED BY <2>1a DEF Calm
<1>2. CASE c \notin Whitespace
  <2>1. ~s.empty_pending.armed
    BY <1>2
  <2>2. Within(s) /\ Reads(s) /\ s \in Machine
    BY <2>1, CalmIs
  <2>3. s.pos \in {"Key", "Colon", "Value", "MemberValue", "AfterValue"}
    BY <2>2, Fields DEF Positions
  <2>4. \/ feed_structure(s, c) = OpenComment(s, c)
        \/ s.pos = "Key" /\ feed_structure(s, c) = KeyPos(s, c)
        \/ s.pos = "Colon" /\ feed_structure(s, c) = ColonPos(s, c)
        \/ s.pos = "AfterValue" /\ feed_structure(s, c) = AfterValuePos(s, c)
        \/ s.pos \in {"Value", "MemberValue"} /\ feed_structure(s, c) = ValuePos(s, c)
    BY <1>2, <2>3 DEF feed_structure
  <2>5. Placed(OpenComment(s, c))
    BY <2>1, OpenCommentPlaced
  <2>6. s.pos = "Key" => Placed(KeyPos(s, c))
    BY <2>2, KeyPosPlaced
  <2>7. s.pos = "Colon" => Placed(ColonPos(s, c))
    BY <2>2, ColonPosPlaced
  <2>8. s.pos = "AfterValue" => Placed(AfterValuePos(s, c))
    BY <2>2, AfterValuePosPlaced
  <2>9. s.pos \in {"Value", "MemberValue"} => Placed(ValuePos(s, c))
    BY <2>2, ValuePosPlaced
  <2> QED BY <2>4, <2>5, <2>6, <2>7, <2>8, <2>9
<1> QED BY <1>1, <1>2

-----------------------------------------------------------------------------
(* The pending tokens.                                                     *)

\* Where nothing is read any more, only the position decides.
LEMMA RestPlaced ==
  ASSUME NEW s, Within(s), NEW t \in Beside(s), Bare(t),
         t.pos \in {"Colon", "MemberValue"} => InFlight(s),
         t.pos \in {"Key", "Colon"} => InObject(s)
  PROVE  Placed(t) /\ Within(t)
<1>1. Based(s)
  BY DEF Within
<1>2. (InFlight(t) <=> InFlight(s)) /\ (InObject(t) <=> InObject(s)) /\ Within(t)
  BY <1>1, BesideIs
<1>3. Reads(t)
  BY <1>2 DEF Bare, Reads, Busy, KeyAhead
<1> QED BY <1>2, <1>3, GoesOn

\* A pending token is of the member in flight; without it nothing is read.
LEMMA IdleIs ==
  ASSUME NEW s, Calm(s), s.comment.kind = "none", s.pending.kind \in {"Num", "Word"}
  PROVE  LET idle == [s EXCEPT !.pending = NoPending]
         IN  /\ Within(idle) /\ Bare(idle) /\ InFlight(idle) /\ (InObject(idle) <=> InObject(s))
             /\ idle.pos = s.pos
             /\ Within(s) /\ InFlight(s) /\ ~s.string.open /\ s \in Machine
             /\ (s.pending.key => InObject(s)) /\ (s.pos \in {"Key", "Colon"} => InObject(s))
<1> DEFINE idle == [s EXCEPT !.pending = NoPending]
<1>1. ~Bare(s) /\ Placed(s)
  BY DEF Bare, Calm
<1>2. ~s.empty_pending.armed
  BY <1>1, NotArmed
<1>3. Reads(s) /\ s \in Machine /\ Based(s)
  BY <1>2, CalmIs
<1>4. /\ InFlight(s) /\ ~s.string.open
      /\ (s.pending.key => InObject(s)) /\ (s.pos \in {"Key", "Colon"} => InObject(s))
  BY <1>3 DEF Reads, Busy, KeyAhead
<1>5. Within(s)
  BY <1>2, <1>4, CalmIs DEF InFlight
<1>6. /\ idle \in Beside(s) /\ idle.pos = s.pos /\ idle.string = s.string
      /\ idle.pending = NoPending /\ idle.comment = s.comment
  <2>1. NoPending \in Pending
    BY Values
  <2> HIDE DEF idle
  <2>2. idle = WithPending(s, NoPending)
    BY DEF WithPending, idle
  <2> QED BY <1>3, <2>1, <2>2, ReadingMoves
<1> HIDE DEF idle
<1>7. (InFlight(idle) <=> InFlight(s)) /\ (InObject(idle) <=> InObject(s)) /\ Within(idle)
  BY <1>3, <1>5, <1>6, BesideIs
<1>8. Bare(idle)
  <2>1. NoPending.kind = "none"
    BY DEF NoPending
  <2> QED BY <1>4, <1>6, <2>1 DEF Bare
<1> QED BY <1>3, <1>4, <1>5, <1>6, <1>7, <1>8 DEF idle

\* The member in flight retracts, where no value was.
LEMMA GonePlaced ==
  ASSUME NEW s, Within(s), Bare(s), InFlight(s)
  PROVE  Placed([retract_in_flight_member(s) EXCEPT !.pos = "AfterValue"])
<1> DEFINE t == retract_in_flight_member(s)
<1>1. Within(t) /\ SameReading(s, t)
  BY RetractsWithin
<1> HIDE DEF t
<1>2. Bare(t)
  BY <1>1, SameReadingIs
<1>3. "AfterValue" \in Positions
  BY Values
<1>4. "AfterValue" \notin {"Colon", "MemberValue"} /\ "AfterValue" \notin {"Key", "Colon"}
  OBVIOUS
<1>5. Placed([t EXCEPT !.pos = "AfterValue"])
  BY <1>1, <1>2, <1>3, <1>4, PosPlaced
<1> QED BY <1>5 DEF t

\* A value is written.
LEMMA ValuedPlaced ==
  ASSUME NEW s, Within(s), Bare(s), NEW toks \in Text
  PROVE  Placed([Emit(s, toks) EXCEPT !.pos = "AfterValue"])
<1>1. "AfterValue" \in Positions
  BY Values
<1>2. "AfterValue" \notin {"Colon", "MemberValue"} /\ "AfterValue" \notin {"Key", "Colon"}
  OBVIOUS
<1> QED BY <1>1, <1>2, WrittenPlaced

\* A number run ends as a key, a value or nothing.
LEMMA FinishPlaced ==
  ASSUME NEW s, Within(s), Bare(s), InFlight(s), NEW text \in Text, NEW key \in BOOLEAN,
         key => InObject(s)
  PROVE  Placed(finish_number(s, text, key))
<1> DEFINE name == DropUntil(NoUnderscore(text), Alnum)
           toks == StrTok(name)
           t1 == Emit(s, toks)
           u1 == [t1 EXCEPT !.last_key_empty = FALSE, !.pos = "Colon"]
           u2 == [retract_in_flight_member(s) EXCEPT !.pos = "AfterValue"]
           u3 == [Emit(s, render_number_value(text)) EXCEPT !.pos = "AfterValue"]
<1>1. toks \in Text /\ render_number_value(text) \in Text
  BY Pieces, Renderings
<1>2. \/ key /\ finish_number(s, text, key) \in {drop_dangling_member(s), u1}
      \/ ~key /\ finish_number(s, text, key) \in {u2, u3}
  BY DEF finish_number
<1>3. Placed(u2) /\ Placed(u3)
  BY <1>1, GonePlaced, ValuedPlaced
<1>4. key => Placed(drop_dangling_member(s))
  <2>1. "e" \in Token
    BY Tokens
  <2> QED BY <2>1, DanglingPlaced
<1> HIDE DEF u2, u3, toks
<1>5. key => Placed(u1)
  <2> SUFFICES ASSUME key PROVE Placed(u1)
    OBVIOUS
  <2>1. Based(s)
    BY DEF Within
  <2>2. /\ Based(t1) /\ (InFlight(t1) <=> InFlight(s)) /\ (InObject(t1) <=> InObject(s))
        /\ SameReading(s, t1) /\ Within(t1)
    BY <1>1, <2>1, EmitWithin
  <2>3. t1 \in Machine
    BY <2>2, Bodies
  <2> HIDE DEF t1
  <2>4. /\ u1 \in Like(t1) /\ u1.pos = "Colon" /\ u1.string = t1.string
        /\ u1.pending = t1.pending /\ u1.comment = t1.comment
        /\ u1.empty_marks = t1.empty_marks /\ u1.empty_pending = t1.empty_pending
        /\ u1.garbage_run = t1.garbage_run /\ u1.paren_gate = t1.paren_gate
        /\ u1.top_done = t1.top_done
    BY <2>3, Values DEF Machine, Like
  <2> HIDE DEF u1
  <2>5. u1 \in Beside(t1)
    BY <2>4 DEF Beside
  <2>6. Bare(u1)
    BY <2>2, <2>4 DEF Bare, SameReading
  <2> QED BY <2>2, <2>5, <2>6, RestPlaced
<1> HIDE DEF u1
<1> QED BY <1>2, <1>3, <1>4, <1>5

\* A character of a number run.
LEMMA NumberPlaced ==
  ASSUME NEW s, Calm(s), s.comment.kind = "none", s.pending.kind = "Num", NEW c \in Token
  PROVE  Placed(feed_number(s, c))
<1> DEFINE p    == s.pending
           more == Append(p.text, c)
           run  == IF p.key THEN p.text ELSE Rolled(p.text)
           back == SubSeq(p.text, Len(run) + 1, Len(p.text))
           idle == [s EXCEPT !.pending = NoPending]
           gone == [retract_in_flight_member(idle) EXCEPT !.pos = "AfterValue"]
           rest == IF run = <<>> THEN <<c>> ELSE Append(back, c)
<1>0. /\ Within(idle) /\ Bare(idle) /\ InFlight(idle) /\ (InObject(idle) <=> InObject(s))
      /\ Within(s) /\ InFlight(s) /\ ~s.string.open /\ s \in Machine
      /\ (p.key => InObject(s)) /\ (s.pos \in {"Key", "Colon"} => InObject(s))
  BY IdleIs
<1>1. p \in Pending
  BY <1>0, Fields
<1>2. p \in NumSet
  BY <1>1, PendingKinds
<1>3. p.text \in Text /\ p.key \in BOOLEAN
  BY <1>2 DEF NumSet
<1>5. more \in Text /\ run \in Text
  BY <1>3, Joins, Pieces
<1>6. rest \in Text
  <2> HIDE DEF run
  <2>1. Len(run) \in Nat /\ Len(p.text) \in Nat
    BY <1>3, <1>5, TextIs
  <2>2. back \in Text
    BY <1>3, <2>1, Joins
  <2> HIDE DEF back
  <2>3. Append(back, c) \in Text /\ <<c>> \in Text
    BY <2>2, Joins, Tokens
  <2> QED BY <2>3
<1>7. feed_number(s, c) \in
        {WithPending(s, NumPending(more, p.key)), WithPending(s, WordPending(p.text, TRUE, TRUE)),
         WithPending(s, WordPending(more, TRUE, TRUE)), WithPending(s, NumPending(more, FALSE)),
         WithPending(s, WordPending(more, FALSE, TRUE)), Replay(gone, <<c>>),
         Replay(finish_number(idle, run, p.key), rest)}
  BY DEF feed_number
<1>7a. ~p.key =>
         feed_number(s, c) \in
           {WithPending(s, NumPending(more, p.key)), WithPending(s, NumPending(more, FALSE)),
            WithPending(s, WordPending(more, FALSE, TRUE)), Replay(gone, <<c>>),
            Replay(finish_number(idle, run, p.key), rest)}
  BY DEF feed_number
<1> HIDE DEF p, more, run, rest, idle
<1>8. Placed(gone)
  BY <1>0, GonePlaced
<1>9. Placed(finish_number(idle, run, p.key))
  BY <1>0, <1>3, <1>5, FinishPlaced
<1>10. <<c>> \in Text
  BY Tokens
<1> HIDE DEF gone
<1>11. Placed(Replay(gone, <<c>>)) /\ Placed(Replay(finish_number(idle, run, p.key), rest))
  BY <1>6, <1>8, <1>9, <1>10, Asides
<1>12. /\ Placed(WithPending(s, NumPending(more, p.key)))
       /\ Placed(WithPending(s, NumPending(more, FALSE)))
       /\ Placed(WithPending(s, WordPending(more, FALSE, TRUE)))
  BY <1>0, <1>3, <1>5, TokenPlaced
<1>13. p.key => /\ Placed(WithPending(s, WordPending(p.text, TRUE, TRUE)))
                /\ Placed(WithPending(s, WordPending(more, TRUE, TRUE)))
  BY <1>0, <1>3, <1>5, TokenPlaced
<1> QED BY <1>7, <1>7a, <1>11, <1>12, <1>13

\* A key is written with its colon.
LEMMA CommitPlaced ==
  ASSUME NEW s, Calm(s), s.comment.kind = "none", s.pending.kind \in {"Num", "Word"},
         NEW name \in Text
  PROVE  /\ Placed(CommitKey(s, name))
         /\ Placed([CommitKey(s, name) EXCEPT !.last_key_empty = FALSE])
<1> DEFINE toks == StrTok(name) \o <<ColonTok>>
           t == Emit(s, toks)
           u == [t EXCEPT !.pos = "MemberValue", !.pending = NoPending]
           v == [u EXCEPT !.last_key_empty = FALSE]
<1>0. Within(s) /\ InFlight(s) /\ ~s.string.open /\ Based(s)
  BY IdleIs DEF Within
<1>1. StrTok(name) \in Text /\ <<ColonTok>> \in Text
  BY Pieces, Tokens
<1>2. toks \in Text
  BY <1>1, Joins
<1>3. CommitKey(s, name) = u
  BY DEF CommitKey
<1> HIDE DEF toks
<1>4. /\ Based(t) /\ InFlight(t) /\ SameReading(s, t) /\ Within(t)
  BY <1>0, <1>2, EmitWithin
<1> HIDE DEF t
<1>5. t \in Machine
  BY <1>4, Bodies
<1>6. /\ u \in Beside(t) /\ u.pos = "MemberValue" /\ u.string = t.string
      /\ u.pending = NoPending /\ u.comment = t.comment
  <2>1. /\ u \in Like(t) /\ u.pos = "MemberValue" /\ u.string = t.string
        /\ u.pending = NoPending /\ u.comment = t.comment
        /\ u.empty_marks = t.empty_marks /\ u.empty_pending = t.empty_pending
        /\ u.garbage_run = t.garbage_run /\ u.paren_gate = t.paren_gate
        /\ u.top_done = t.top_done
    BY <1>5, Values DEF Machine, Like
  <2> HIDE DEF u
  <2> QED BY <2>1 DEF Beside
<1> HIDE DEF u
<1>7. Bare(u)
  <2>1. NoPending.kind = "none"
    BY DEF NoPending
  <2> QED BY <1>0, <1>4, <1>6, <2>1 DEF Bare, SameReading
<1>8. Placed(u) /\ Within(u)
  <2>1. u.pos \notin {"Key", "Colon"}
    BY <1>6
  <2> QED BY <1>4, <1>6, <1>7, <2>1, RestPlaced
<1>9. Placed(v)
  <2>1. u \in Machine
    BY <1>8, Bodies DEF Within
  <2>2. /\ v \in Like(u) /\ v.pos = u.pos /\ v.string = u.string
        /\ v.pending = u.pending /\ v.comment = u.comment
        /\ v.empty_marks = u.empty_marks /\ v.empty_pending = u.empty_pending
        /\ v.garbage_run = u.garbage_run /\ v.paren_gate = u.paren_gate
        /\ v.top_done = u.top_done
    BY <2>1, Values DEF Machine, Like
  <2> HIDE DEF v
  <2>3. v \in Beside(u) /\ SameReading(u, v)
    BY <2>2 DEF Beside, SameReading
  <2> QED BY <1>8, <2>3, Aside
<1> QED BY <1>3, <1>8, <1>9

\* A character of an unquoted key.
LEMMA KeyWordPlaced ==
  ASSUME NEW s, Calm(s), s.comment.kind = "none", s.pending.kind = "Word", s.pending.key,
         NEW c \in Token
  PROVE  Placed(key_word(s, c))
<1> DEFINE p    == s.pending
           idle == [s EXCEPT !.pending = NoPending]
           name == KeyName(p.text)
           more == [p EXCEPT !.text = Append(@, c)]
           keep == WithPending(s, more)
           drop == Replay(drop_dangling_member(idle), <<c>>)
           committed == [CommitKey(s, name) EXCEPT !.last_key_empty = FALSE]
<1>0. /\ Within(idle) /\ Bare(idle) /\ InFlight(idle) /\ (InObject(idle) <=> InObject(s))
      /\ Within(s) /\ InFlight(s) /\ ~s.string.open /\ s \in Machine /\ InObject(s)
  BY IdleIs
<1>1. p \in Pending
  BY <1>0, Fields
<1>2. p \in WordSet
  BY <1>1, PendingKinds
<1>3. p.text \in Text
  BY <1>2 DEF WordSet
<1>4. name \in Text /\ Append(p.text, c) \in Text
  BY <1>3, Pieces, Joins DEF KeyName
<1>5. more \in WordSet
  BY <1>2, <1>4 DEF WordSet
<1>6. more \in Pending
  BY <1>5 DEF Pending
<1>7. key_word(s, c) \in {drop, committed, CommitKey(s, name), keep}
  BY DEF key_word
<1>8. Placed(drop)
  <2> HIDE DEF idle
  <2> QED BY <1>0, DanglingPlaced
<1>9. Placed(committed) /\ Placed(CommitKey(s, name))
  <2> HIDE DEF name
  <2> QED BY <1>4, CommitPlaced
<1> HIDE DEF idle, more, name
<1>10. Placed(keep)
  BY <1>0, <1>6, PendingPlaced
<1> HIDE DEF drop, committed, keep
<1> QED BY <1>7, <1>8, <1>9, <1>10

\* A character of an unquoted value.
LEMMA ValueWordPlaced ==
  ASSUME NEW s, Calm(s), s.comment.kind = "none", s.pending.kind = "Word", NEW c \in Token
  PROVE  Placed(value_word(s, c))
<1> DEFINE p    == s.pending
           idle == [s EXCEPT !.pending = NoPending]
           w    == Trim(p.text)
           commas == GluedComma(p)
           i    == FirstOf(commas)
           head == render_word(Trim(SubSeq(p.text, 1, i - 1)), TRUE)
           rest == Trim(SubSeq(p.text, i + 1, Len(p.text)))
           e    == Emit(idle, head)
           t    == begin_common(e)
           split == Replay(WithPending(t, WordPending(rest, TRUE, FALSE)), <<c>>)
           valued == [Emit(idle, render_word(w, p.born)) EXCEPT !.pos = "AfterValue"]
           literal == [Emit(idle, keyword_or_str(w)) EXCEPT !.pos = "AfterValue"]
           more == [p EXCEPT !.text = Append(@, c)]
<1>0. /\ Within(idle) /\ Bare(idle) /\ InFlight(idle) /\ (InObject(idle) <=> InObject(s))
      /\ Within(s) /\ InFlight(s) /\ ~s.string.open /\ s \in Machine
      /\ (p.key => InObject(s)) /\ (s.pos \in {"Key", "Colon"} => InObject(s))
  BY IdleIs
<1>1. p \in Pending
  BY <1>0, Fields
<1>2. p \in WordSet
  BY <1>1, PendingKinds
<1>3. p.text \in Text /\ p.born \in BOOLEAN
  BY <1>2 DEF WordSet
<1>4. w \in Text /\ Append(p.text, c) \in Text
  BY <1>3, Pieces, Joins
<1>5. more \in WordSet /\ more.key = p.key
  BY <1>2, <1>4 DEF WordSet
<1>6. more \in Pending
  BY <1>5 DEF Pending
<1>7. \/ value_word(s, c) = split /\ \E k \in commas : SplitsAt(s, p, k)
      \/ value_word(s, c) \in
           {Replay(valued, <<c>>), Replay(literal, <<c>>), WithPending(s, more)}
  BY DEF value_word
<1>8. <<c>> \in Text
  BY Tokens
<1>9. render_word(w, p.born) \in Text /\ keyword_or_str(w) \in Text
  BY <1>3, <1>4, Renderings
<1> HIDE DEF idle
<1>10. Placed(valued) /\ Placed(literal)
  BY <1>0, <1>9, ValuedPlaced
<1>11. CASE value_word(s, c) \in
              {Replay(valued, <<c>>), Replay(literal, <<c>>), WithPending(s, more)}
  <2>1. Placed(WithPending(s, more))
    <3> HIDE DEF more, p
    <3>1. more.key => InObject(s)
      BY <1>0, <1>5
    <3> QED BY <1>0, <1>6, <3>1, PendingPlaced
  <2> HIDE DEF valued, literal, more
  <2>2. Placed(Replay(valued, <<c>>)) /\ Placed(Replay(literal, <<c>>))
    BY <1>8, <1>10, Asides
  <2> QED BY <1>11, <2>1, <2>2
<1>12. CASE value_word(s, c) = split /\ \E k \in commas : SplitsAt(s, p, k)
  <2>0. InObject(s) /\ commas # {}
    BY <1>12 DEF SplitsAt
  <2>1. Len(p.text) \in Nat /\ DOMAIN p.text = 1..Len(p.text)
    BY <1>3, TextIs
  <2>2. commas \in SUBSET (1..Len(p.text))
    BY <2>1 DEF GluedComma
  <2> HIDE DEF commas
  <2>3. i \in 1..Len(p.text)
    BY <2>0, <2>1, <2>2, Extremes
  <2> HIDE DEF i, p
  <2>4. i - 1 \in Nat /\ i - 1 <= Len(p.text) /\ i + 1 \in Nat \ {0}
    BY <2>1, <2>3
  <2>5. SubSeq(p.text, 1, i - 1) \in Text /\ SubSeq(p.text, i + 1, Len(p.text)) \in Text
    BY <1>3, <2>1, <2>4, Joins
  <2>6. Trim(SubSeq(p.text, 1, i - 1)) \in Text /\ rest \in Text
    BY <2>5, Pieces
  <2>7. head \in Text
    BY <2>6, Renderings
  <2> HIDE DEF head, rest
  <2>8. Based(idle)
    BY <1>0 DEF Within
  <2>9. Within(e) /\ SameReading(idle, e) /\ InObject(e)
    BY <1>0, <2>0, <2>7, <2>8, EmitWithin
  <2> HIDE DEF e
  <2>10. Within(t) /\ SameReading(e, t) /\ InFlight(t) /\ InObject(t)
    BY <2>9, BeginWithin
  <2> HIDE DEF t
  <2>11. ~t.string.open
    BY <1>0, <2>9, <2>10 DEF Bare, SameReading
  <2>12. Placed(WithPending(t, WordPending(rest, TRUE, FALSE)))
    BY <2>6, <2>10, <2>11, TokenPlaced
  <2>13. Placed(split)
    BY <1>8, <2>12, Asides
  <2> QED BY <1>12, <2>13
<1> HIDE DEF valued, literal, more, split
<1> QED BY <1>7, <1>11, <1>12

-----------------------------------------------------------------------------
(* The top level.                                                          *)

\* Another token is read, where no member is.
LEMMA TopReads ==
  ASSUME NEW s, Calm(s), ~s.empty_pending.armed, ~s.string.open,
         NEW x \in Pending, x.kind \notin {"Num", "Word"}
  PROVE  Placed([s EXCEPT !.pending = x])
<1> DEFINE t == [s EXCEPT !.pending = x]
<1>1. Based(s) /\ Reads(s) /\ s \in Machine
  BY CalmIs
<1>2. /\ t \in Beside(s) /\ t.pos = s.pos /\ t.string = s.string
      /\ t.pending = x /\ t.comment = s.comment
  <2>1. t = WithPending(s, x)
    BY DEF WithPending
  <2> HIDE DEF t
  <2> QED BY <1>1, <2>1, ReadingMoves
<1> HIDE DEF t
<1>3. (InFlight(t) <=> InFlight(s)) /\ (InObject(t) <=> InObject(s))
  BY <1>1, <1>2, BesideIs
<1>4. Reads(t)
  BY <1>1, <1>2, <1>3 DEF Reads, Busy, KeyAhead
<1>5. Placed(t)
  BY <1>2, <1>4, CalmIs
<1> QED BY <1>5 DEF t

\* Prose: the text is no longer clean, and a bracket is read again.
LEMMA ProsePlaced ==
  ASSUME NEW s, Placed(s), NEW c \in Token
  PROVE  Placed([s EXCEPT !.top_clean = FALSE]) /\ Placed(Prose(s, c))
<1> DEFINE u == [s EXCEPT !.top_clean = FALSE]
<1>1. Placed(u)
  BY Asides
<1>2. Prose(s, c) \in {u, Replay(u, <<c>>)}
  BY DEF Prose
<1> HIDE DEF u
<1>3. <<c>> \in Text
  BY Tokens
<1>4. Placed(Replay(u, <<c>>))
  BY <1>1, <1>3, Asides
<1>5. Placed(u) /\ Placed(Prose(s, c))
  BY <1>1, <1>2, <1>4
<1> QED BY <1>5 DEF u

\* A character of a provisional scalar at the top level.
LEMMA TopPendingPlaced ==
  ASSUME NEW s, Calm(s), s.comment.kind = "none", ~s.string.open,
         s.pending.kind \in {"TopNum", "TopWord", "TopStr"}, NEW c \in Token
  PROVE  Placed(feed_top_pending(s, c))
<1> DEFINE p     == s.pending
           none  == [s EXCEPT !.pending = NoPending]
           lost  == Prose(none, c)
           ended == [p EXCEPT !.done = TRUE]
           Put1(x) == [s EXCEPT !.pending = x]
           grown == [p EXCEPT !.text = Append(@, c)]
           shut  == [p EXCEPT !.buf = Append(@, "\""), !.done = TRUE]
           more  == [p EXCEPT !.buf = Append(@, Escaped(c))]
           over  == [s EXCEPT !.top_clean = FALSE, !.pending = NoPending]
<1>0. ~s.empty_pending.armed
  BY NotArmed DEF Calm, Bare
<1>1. s \in Machine /\ Based(s) /\ Reads(s) /\ p \in Pending
  BY <1>0, CalmIs, Fields
<1>2. p \in TopSet \/ p \in StrSet
  BY <1>1, PendingKinds
<1>3. \A x \in Pending : x.kind \notin {"Num", "Word"} => Placed([s EXCEPT !.pending = x])
  BY <1>0, TopReads
<1>4. Placed(none)
  <2>1. NoPending \in Pending /\ NoPending.kind \notin {"Num", "Word"}
    BY Values DEF NoPending
  <2> QED BY <1>3, <2>1
<1>5. Placed(lost)
  <2> HIDE DEF none
  <2> QED BY <1>4, ProsePlaced
<1>6. Placed(over)
  <2>1. /\ over \in Like(s) /\ over.pos = s.pos /\ over.string = s.string
        /\ over.pending = NoPending /\ over.comment = s.comment
        /\ over.empty_marks = s.empty_marks /\ over.empty_pending = s.empty_pending
        /\ over.garbage_run = s.garbage_run /\ over.paren_gate = s.paren_gate
        /\ over.top_done = s.top_done
    BY <1>1, Values DEF Machine, Like
  <2> HIDE DEF over
  <2>2. over \in Beside(s)
    BY <2>1 DEF Beside
  <2>3. (InFlight(over) <=> InFlight(s)) /\ (InObject(over) <=> InObject(s))
    BY <1>1, <2>2, BesideIs
  <2>4. over.pending.kind = "none"
    BY <2>1 DEF NoPending
  <2>5. Reads(over)
    BY <1>1, <2>1, <2>3, <2>4 DEF Reads, Busy, KeyAhead
  <2> QED BY <1>0, <2>2, <2>5, CalmIs
<1>7. ended \in Pending /\ ended.kind = p.kind
  BY <1>2 DEF Pending, TopSet, StrSet
<1>8. p \in TopSet => grown \in Pending /\ grown.kind = p.kind
  <2> SUFFICES ASSUME p \in TopSet PROVE grown \in Pending /\ grown.kind = p.kind
    OBVIOUS
  <2>1. p.text \in Text
    BY DEF TopSet
  <2>2. Append(p.text, c) \in Text
    BY <2>1, Joins
  <2>3. grown \in TopSet /\ grown.kind = p.kind
    BY <2>2 DEF TopSet
  <2> QED BY <2>3 DEF Pending
<1>9. p \in StrSet => shut \in Pending /\ more \in Pending /\ shut.kind = p.kind /\ more.kind = p.kind
  <2> SUFFICES ASSUME p \in StrSet
               PROVE shut \in Pending /\ more \in Pending /\ shut.kind = p.kind /\ more.kind = p.kind
    OBVIOUS
  <2>1. p.buf \in Text
    BY DEF StrSet
  <2>2. "\"" \in Token /\ Escaped(c) \in Token
    BY Tokens
  <2>3. Append(p.buf, "\"") \in Text /\ Append(p.buf, Escaped(c)) \in Text
    BY <2>1, <2>2, Joins
  <2>4. shut \in StrSet /\ more \in StrSet /\ shut.kind = p.kind /\ more.kind = p.kind
    BY <2>3 DEF StrSet
  <2> QED BY <2>4 DEF Pending
<1>10. TopRun(s, c) \in {over, Put1(grown)}
  BY DEF TopRun
<1>10a. p.kind \notin {"Num", "Word"}
  OBVIOUS
<1>11. CASE p \in TopSet
  <2>1. p.kind \in {"TopNum", "TopWord"}
    BY <1>11 DEF TopSet
  <2>2. feed_top_pending(s, c) \in {Put1(ended), TopRun(s, c), lost}
    BY <2>1 DEF feed_top_pending
  <2>3. grown \in Pending /\ grown.kind = p.kind
    BY <1>8, <1>11
  <2> HIDE DEF p, grown, ended, lost, over
  <2>4. Placed(Put1(grown)) /\ Placed(Put1(ended))
    BY <1>3, <1>7, <1>10a, <2>3
  <2> QED BY <1>5, <1>6, <1>10, <2>2, <2>4
<1>12. CASE p \in StrSet
  <2>1. p.kind = "TopStr"
    BY <1>12 DEF StrSet
  <2>2. feed_top_pending(s, c) \in {Put1(ended), Put1(shut), Put1(more), lost}
    BY <2>1 DEF feed_top_pending
  <2>3. shut \in Pending /\ more \in Pending /\ shut.kind = p.kind /\ more.kind = p.kind
    BY <1>9, <1>12
  <2> HIDE DEF p, shut, more, ended, lost
  <2>4. Placed(Put1(shut)) /\ Placed(Put1(more)) /\ Placed(Put1(ended))
    BY <1>3, <1>7, <1>10a, <2>3
  <2> QED BY <1>5, <2>2, <2>4
<1> QED BY <1>2, <1>11, <1>12

\* A character of whatever token is pending.
LEMMA AnyPendingPlaced ==
  ASSUME NEW s, Calm(s), s.comment.kind = "none", ~s.string.open, s.pending.kind # "none",
         NEW c \in Token
  PROVE  Placed(feed_pending(s, c))
<1>0. s \in Machine /\ s.pending \in Pending
  <2>1. s \in Machine
    BY Bodies DEF Calm, Placed
  <2> QED BY <2>1, Fields
<1>2. s.pending.kind \in {"Num", "Word", "TopNum", "TopWord", "TopStr"}
  BY <1>0, PendingKinds
<1>3. CASE s.pending.kind = "Num"
  BY <1>3, NumberPlaced DEF feed_pending
<1>4. CASE s.pending.kind = "Word"
  BY <1>4, KeyWordPlaced, ValueWordPlaced DEF feed_pending
<1>5. CASE s.pending.kind \in {"TopNum", "TopWord", "TopStr"}
  BY <1>5, TopPendingPlaced DEF feed_pending
<1> QED BY <1>2, <1>3, <1>4, <1>5

\* The same text, frames and marks.
LEMMA AlikeIs ==
  ASSUME NEW s, Based(s), NEW t \in Like(s), t.empty_marks = s.empty_marks
  PROVE  Based(t) /\ (InFlight(t) <=> InFlight(s)) /\ (InObject(t) <=> InObject(s))
<1>1. t.out = s.out /\ t.frames = s.frames
  BY DEF Like
<1>2. Sound(t)
  BY Bodies, LikeKeeps, KeptIsSound
<1>3. Based(t)
  BY <1>1, <1>2 DEF Based
<1>4. (InFlight(t) <=> InFlight(s)) /\ (InObject(t) <=> InObject(s))
  BY <1>1 DEF InFlight, InObject, TopOf
<1> QED BY <1>3, <1>4

\* At the top level a gate opens or shuts.
LEMMA GatePlaced ==
  ASSUME NEW s, Placed(s), s.frames = <<>>, NEW gate \in Gate,
         gate.kind = "none" \/ (gate.kind = "FirstChar" /\ ~s.top_done)
  PROVE  Placed([s EXCEPT !.paren_gate = gate])
<1> DEFINE t == [s EXCEPT !.paren_gate = gate]
<1>1. Based(s) /\ s \in Machine
  BY Bodies DEF Placed
<1>2. /\ t \in Like(s) /\ t.pos = s.pos /\ t.string = s.string /\ t.pending = s.pending
      /\ t.comment = s.comment /\ t.out = s.out /\ t.frames = s.frames
      /\ t.empty_marks = s.empty_marks /\ t.empty_pending = s.empty_pending
      /\ t.garbage_run = s.garbage_run /\ t.paren_gate = gate /\ t.top_done = s.top_done
  BY <1>1 DEF Machine, Like
<1> HIDE DEF t
<1>3. Based(t) /\ (InFlight(t) <=> InFlight(s)) /\ (InObject(t) <=> InObject(s))
  BY <1>1, <1>2, AlikeIs
<1>4. Reads(t)
  BY <1>2, <1>3 DEF Placed, Reads, Busy, KeyAhead
<1>5. /\ ~t.empty_pending.armed /\ ~t.garbage_run /\ t.frames = <<>>
      /\ (~t.top_done => t.out = <<>>)
  BY <1>2, NotArmed DEF Placed
<1>6. (t.paren_gate.kind = "FirstChar" => ~t.top_done) /\ t.paren_gate.kind # "TailCheck"
  BY <1>2
<1>7. Placed(t)
  BY <1>3, <1>4, <1>5, <1>6 DEF Placed
<1> QED BY <1>7 DEF t

\* An opening bracket begins no string, number or word.
LEMMA OpenersApart ==
  \A c \in Opener : c \notin Quotes /\ c \notin Letters /\ c \notin NumberLead
BY Zenon DEF Opener, Quotes, Letters, NumberLead, Digits

\* A top-level bracket opens the root.
LEMMA RootPlaced ==
  ASSUME NEW s, Calm(s), Bare(s), s.frames = <<>>, s.out = <<>>, NEW c \in Opener
  PROVE  Placed(feed_structure_value(s, c))
<1>1. ~s.empty_pending.armed /\ Placed(s)
  BY NotArmed DEF Calm
<1>2. c \notin Quotes /\ c \notin Letters /\ c \notin NumberLead
  BY OpenersApart
<1>3. feed_structure_value(s, c) \in
        {open_container(s, "Obj"), open_container(s, "Arr"), open_container(s, "Paren"), s}
  BY <1>2 DEF feed_structure_value
<1>4. {"Obj", "Arr", "Paren"} \subseteq Kinds
  BY DEF Kinds
<1>5. \A kind \in Kinds : Placed(open_container(s, kind))
  <2>1. /\ ~s.string.open /\ s.pending.kind \notin {"Num", "Word"}
        /\ ~s.garbage_run /\ s.paren_gate.kind = "none"
    BY DEF Bare, Calm
  <2> QED BY <1>1, <2>1, OpenPlaced
<1>6. /\ Placed(open_container(s, "Obj")) /\ Placed(open_container(s, "Arr"))
      /\ Placed(open_container(s, "Paren"))
  BY <1>4, <1>5
<1> QED BY <1>1, <1>3, <1>6

\* A character at the top level.
LEMMA TopPlaced ==
  ASSUME NEW s, Calm(s), Bare(s), s.frames = <<>>, NEW c \in Token
  PROVE  Placed(feed_top(s, c))
<1> DEFINE gate == [kind |-> "FirstChar", buf |-> <<>>]
           str  == [kind |-> "TopStr", buf |-> <<"\"">>, delim |-> c, done |-> FALSE]
           num  == [kind |-> "TopNum", text |-> <<c>>, done |-> FALSE]
           word == [kind |-> "TopWord", text |-> <<c>>, done |-> FALSE]
<1>0. ~s.empty_pending.armed /\ Placed(s)
  BY NotArmed DEF Calm
<1>1. /\ s \in Machine /\ Based(s) /\ Reads(s) /\ ~s.string.open
  BY <1>0, CalmIs DEF Bare
<1>2. CASE s.top_done
  <2>1. feed_top(s, c) \in {OpenComment(s, c), s}
    BY <1>2 DEF feed_top
  <2> QED BY <1>0, <2>1, OpenCommentPlaced
<1>3. CASE ~s.top_done
  <2>0. s.out = <<>>
    BY <1>0, <1>3 DEF Placed
  <2>1. <<c>> \in Text /\ <<"\"">> \in Text /\ <<>> \in Text
    BY Tokens
  <2>2. str \in Pending /\ num \in Pending /\ word \in Pending
    BY <2>1 DEF Pending, StrSet, TopSet
  <2>3. str.kind \notin {"Num", "Word"} /\ num.kind \notin {"Num", "Word"} /\ word.kind \notin {"Num", "Word"}
    OBVIOUS
  <2>4. gate \in Gate /\ gate.kind = "FirstChar"
    BY <2>1, Values
  <2>5. feed_top(s, c) \in
          {feed_structure_value(s, c), s, [s EXCEPT !.paren_gate = gate], WithPending(s, str),
           WithPending(s, num), WithPending(s, word), [s EXCEPT !.top_clean = FALSE]}
    BY <1>3 DEF feed_top
  <2>5a. c \notin {"{", "["} =>
           feed_top(s, c) \in
             {s, [s EXCEPT !.paren_gate = gate], WithPending(s, str), WithPending(s, num),
              WithPending(s, word), [s EXCEPT !.top_clean = FALSE]}
    BY <1>3 DEF feed_top
  <2> HIDE DEF gate, str, num, word
  <2>6. /\ Placed(WithPending(s, str)) /\ Placed(WithPending(s, num)) /\ Placed(WithPending(s, word))
    BY <1>0, <1>1, <2>2, <2>3, TopReads DEF WithPending
  <2>7. Placed([s EXCEPT !.top_clean = FALSE])
    BY <1>0, Asides
  <2>8. Placed([s EXCEPT !.paren_gate = gate])
    BY <1>0, <1>3, <2>4, GatePlaced
  <2>9. c \in {"{", "["} => Placed(feed_structure_value(s, c))
    <3>1. c \in {"{", "["} => c \in Opener
      BY Zenon DEF Opener
    <3>2. c \in Opener => Placed(feed_structure_value(s, c))
      BY <2>0, RootPlaced
    <3> QED BY Zenon, <3>1, <3>2
  <2> QED BY Zenon, <1>0, <2>5, <2>5a, <2>6, <2>7, <2>8, <2>9
<1> QED BY <1>2, <1>3

-----------------------------------------------------------------------------
(* One entry of process.                                                   *)

\* A piece of the member in flight is written.
LEMMA EmitPlaced ==
  ASSUME NEW s, Within(s), Reads(s), NEW toks \in Text
  PROVE  Placed(Emit(s, toks))
<1> DEFINE t == Emit(s, toks)
<1>1. Based(s)
  BY DEF Within
<1>2. /\ (InFlight(t) <=> InFlight(s)) /\ (InObject(t) <=> InObject(s))
      /\ SameReading(s, t) /\ Within(t)
  BY <1>1, EmitWithin
<1> HIDE DEF t
<1>3. Reads(t)
  BY <1>2, SameReadingIs DEF Reads, SameReading
<1>4. Placed(t)
  BY <1>2, <1>3, GoesOn
<1> QED BY <1>4 DEF t

\* A character of a string.
LEMMA InStringPlaced ==
  ASSUME NEW s0, Calm(s0), s0.comment.kind = "none", s0.string.open, NEW c \in Token
  PROVE  Placed(feed_string(s0, c))
<1> DEFINE s  == [s0 EXCEPT !.string_raw_tail = c]
           u  == [s EXCEPT !.string = [open |-> FALSE]]
           t  == Emit(u, <<"\"">>)
           empty == s.last_string_start = Len(t.out) - 1
           t1 == [t EXCEPT !.pos = "Colon", !.last_key_empty = empty]
           t2 == [t EXCEPT !.pos = "AfterValue"]
<1>1. ~s0.empty_pending.armed
  BY NotArmed DEF Calm, Bare
<1>2. s0 \in Machine /\ Reads(s0) /\ Based(s0)
  BY <1>1, CalmIs
<1>3. InFlight(s0) /\ (KeyAhead(s0) => InObject(s0)) /\ s0.pending.kind = "none"
  BY <1>2 DEF Reads, Busy
<1>4. Within(s0)
  BY <1>1, <1>3, CalmIs DEF InFlight
<1>5. \/ feed_string(s0, c) = Emit(s, <<Escaped(c)>>)
      \/ s.string.is_key /\ feed_string(s0, c) = arm_empty_pending(t1, FALSE)
      \/ feed_string(s0, c) = arm_empty_pending(t2, FALSE)
  BY DEF feed_string
<1>6. s \in Beside(s0) /\ SameReading(s0, s)
  <2>1. /\ s \in Like(s0) /\ s.pos = s0.pos /\ s.string = s0.string
        /\ s.pending = s0.pending /\ s.comment = s0.comment
        /\ s.empty_marks = s0.empty_marks /\ s.empty_pending = s0.empty_pending
        /\ s.garbage_run = s0.garbage_run /\ s.paren_gate = s0.paren_gate
        /\ s.top_done = s0.top_done
    BY <1>2 DEF Machine, Like
  <2> HIDE DEF s
  <2> QED BY <2>1 DEF Beside, SameReading
<1> HIDE DEF s
<1>7. /\ Based(s) /\ (InFlight(s) <=> InFlight(s0)) /\ (InObject(s) <=> InObject(s0)) /\ Within(s)
  BY <1>2, <1>4, <1>6, BesideIs
<1>8. Reads(s) /\ s \in Machine
  BY <1>2, <1>6, <1>7, SameReadingIs, Bodies DEF Reads, SameReading
<1>9. Placed(Emit(s, <<Escaped(c)>>))
  <2>1. <<Escaped(c)>> \in Text
    BY Tokens
  <2> QED BY <1>7, <1>8, <2>1, EmitPlaced
<1>10. /\ u \in Beside(s) /\ u.pos = s.pos /\ u.string = [open |-> FALSE]
       /\ u.pending = s.pending /\ u.comment = s.comment
  <2>1. [open |-> FALSE] \in StringSet
    BY Values
  <2> QED BY <1>8, <2>1, ReadingMoves
<1> HIDE DEF u
<1>11. /\ Based(u) /\ Within(u) /\ InFlight(u) /\ (InObject(u) <=> InObject(s0)) /\ Bare(u)
  BY <1>3, <1>6, <1>7, <1>10, BesideIs DEF SameReading, Bare
<1>12. /\ Based(t) /\ Within(t) /\ InFlight(t) /\ (InObject(t) <=> InObject(s0)) /\ Bare(t)
  <2> DEFINE quote == <<"\"">>
  <2>1. quote \in Text
    BY Tokens
  <2>2. t = Emit(u, quote)
    OBVIOUS
  <2> HIDE DEF t, quote
  <2>3. /\ Based(t) /\ Within(t) /\ InFlight(t) /\ (InObject(t) <=> InObject(u)) /\ SameReading(u, t)
    BY <1>11, <2>1, <2>2, EmitWithin
  <2> QED BY <1>11, <2>3, SameReadingIs
<1>13. empty \in BOOLEAN
  OBVIOUS
<1> HIDE DEF t, empty
<1>14. t \in Machine
  BY <1>12, Bodies
<1>15. s.string.is_key => Placed(arm_empty_pending(t1, FALSE))
  <2> SUFFICES ASSUME s.string.is_key PROVE Placed(arm_empty_pending(t1, FALSE))
    OBVIOUS
  <2>1. InObject(t)
    BY <1>3, <1>6, <1>12 DEF KeyAhead, SameReading
  <2>2. /\ t1 \in Like(t) /\ t1.pos = "Colon" /\ t1.string = t.string
        /\ t1.pending = t.pending /\ t1.comment = t.comment
        /\ t1.empty_marks = t.empty_marks /\ t1.empty_pending = t.empty_pending
        /\ t1.garbage_run = t.garbage_run /\ t1.paren_gate = t.paren_gate
        /\ t1.top_done = t.top_done
    BY <1>13, <1>14, Values DEF Machine, Like
  <2> HIDE DEF t1
  <2>3. t1 \in Beside(t)
    BY <2>2 DEF Beside
  <2>4. Bare(t1)
    BY <1>12, <2>2 DEF Bare
  <2>5. Placed(t1)
    BY <1>12, <2>1, <2>2, <2>3, <2>4, RestPlaced
  <2>6. InObject(t1)
    BY <1>12, <2>1, <2>3, BesideIs
  <2>7. arm_empty_pending(t1, FALSE) = t1
    <3>1. TopOf(t1).kind = "Obj"
      BY <2>6 DEF InObject
    <3> QED BY <3>1 DEF arm_empty_pending
  <2> QED BY <2>5, <2>7
<1>16. Placed(arm_empty_pending(t2, FALSE))
  <2>1. /\ t2 \in Beside(t) /\ t2.pos = "AfterValue" /\ t2.string = t.string
        /\ t2.pending = t.pending /\ t2.comment = t.comment
    BY <1>14, Values, ReadingMoves
  <2> HIDE DEF t2
  <2>2. Within(t2) /\ InFlight(t2)
    BY <1>12, <2>1, BesideIs
  <2>3. Bare(t2)
    BY <1>12, <2>1 DEF Bare
  <2>4. Closing(arm_empty_pending(t2, FALSE))
    BY <2>1, <2>2, <2>3, ArmPlaced
  <2> QED BY <2>4 DEF Closing
<1> QED BY <1>5, <1>9, <1>15, <1>16

\* The run of garbage is over.
LEMMA CleanPlaced ==
  ASSUME NEW s, Placed(s)
  PROVE  LET t == [s EXCEPT !.garbage_run = FALSE]
         IN  Placed(t) /\ SameReading(s, t) /\ ~t.garbage_run
<1> DEFINE t == [s EXCEPT !.garbage_run = FALSE]
<1>1. Based(s) /\ s \in Machine
  BY Bodies DEF Placed
<1>2. /\ t \in Like(s) /\ t.pos = s.pos /\ t.string = s.string /\ t.pending = s.pending
      /\ t.comment = s.comment /\ t.out = s.out /\ t.frames = s.frames
      /\ t.empty_marks = s.empty_marks /\ t.empty_pending = s.empty_pending
      /\ ~t.garbage_run /\ t.paren_gate = s.paren_gate /\ t.top_done = s.top_done
  BY <1>1 DEF Machine, Like
<1> HIDE DEF t
<1>3. Based(t) /\ (InFlight(t) <=> InFlight(s)) /\ (InObject(t) <=> InObject(s))
  BY <1>1, <1>2, AlikeIs
<1>4. SameReading(s, t)
  BY <1>2 DEF SameReading
<1>5. Reads(t)
  BY <1>3, <1>4, SameReadingIs DEF Placed, Reads, SameReading
<1>6. t.empty_pending.armed => Armed(t)
  <2> SUFFICES ASSUME t.empty_pending.armed PROVE Armed(t)
    OBVIOUS
  <2>1. Armed(s)
    BY <1>2 DEF Placed
  <2> QED BY <1>2, <1>3, <1>4, <2>1, SameReadingIs DEF Armed, TopOf
<1>7. Placed(t)
  BY <1>2, <1>3, <1>5, <1>6 DEF Placed
<1> QED BY <1>2, <1>4, <1>7 DEF t

\* The characters of the objects are counted.
LEMMA CountPlaced ==
  ASSUME NEW s, Placed(s), NEW frames \in Seq(Frame), Len(frames) = Len(s.frames),
         \A i \in 1..Len(s.frames) :
           /\ frames[i].kind = s.frames[i].kind /\ frames[i].brace = s.frames[i].brace
           /\ frames[i].start = s.frames[i].start /\ frames[i].begun = s.frames[i].begun
  PROVE  LET t == [s EXCEPT !.frames = frames]
         IN  Placed(t) /\ SameReading(s, t) /\ t.empty_pending = s.empty_pending
             /\ t.garbage_run = s.garbage_run /\ t.paren_gate = s.paren_gate
<1> DEFINE t == [s EXCEPT !.frames = frames]
<1>1. Based(s) /\ s \in Machine /\ Sound(s) /\ s.out \in Text /\ s.frames \in Seq(Frame)
      /\ s.empty_marks \in Seq(Mark) /\ Stands(s.out, s.frames, s.empty_marks)
      /\ Len(s.frames) \in Nat
  BY Bodies DEF Placed
<1>2. /\ t \in Machine /\ t.pos = s.pos /\ t.string = s.string /\ t.pending = s.pending
      /\ t.comment = s.comment /\ t.out = s.out /\ t.frames = frames /\ t.emitted = s.emitted
      /\ t.empty_marks = s.empty_marks /\ t.empty_pending = s.empty_pending
      /\ t.garbage_run = s.garbage_run /\ t.paren_gate = s.paren_gate /\ t.top_done = s.top_done
  BY <1>1 DEF Machine
<1> HIDE DEF t
<1>3. Sound(t)
  BY <1>1, <1>2 DEF Sound
<1>4. frames = <<>> <=> s.frames = <<>>
  BY <1>1
<1>5. Stands(t.out, t.frames, t.empty_marks)
  <2> DEFINE f == s.frames[Len(s.frames)]
  <2>1. s.frames # <<>> => (f.start # None => f.brace < f.start /\ f.start <= Len(s.out) /\ f.begun)
    BY <1>1 DEF Stands, StandsAt
  <2>2. s.frames # <<>> => Len(s.frames) \in 1..Len(s.frames)
    BY <1>1
  <2>3. s.frames # <<>> =>
          LET g == frames[Len(s.frames)]
          IN  g.start # None => g.brace < g.start /\ g.start <= Len(s.out) /\ g.begun
    BY <2>1, <2>2
  <2>4. \A i \in 1..(Len(s.frames) - 1) : frames[i].start = s.frames[i].start
    BY <1>1
  <2>5. \A i \in 1..Len(s.frames) :
           /\ frames[i].kind = s.frames[i].kind /\ frames[i].brace = s.frames[i].brace
           /\ s.frames[i].begun => frames[i].begun
    OBVIOUS
  <2>6. Stands(s.out, frames, s.empty_marks)
    BY <1>1, <2>3, <2>4, <2>5, FramesStand
  <2> QED BY <1>2, <2>6
<1>6. Based(t)
  BY <1>3, <1>5 DEF Based
<1>7. s.frames # <<>> =>
        TopOf(t).start = TopOf(s).start /\ TopOf(t).kind = TopOf(s).kind
  BY <1>1, <1>2, <1>4 DEF TopOf
<1>8. (InFlight(t) <=> InFlight(s)) /\ (InObject(t) <=> InObject(s))
  BY <1>2, <1>4, <1>7 DEF InFlight, InObject
<1>9. SameReading(s, t)
  BY <1>2 DEF SameReading
<1>10. Reads(t)
  BY <1>8, <1>9, SameReadingIs DEF Placed, Reads, SameReading
<1>11. t.empty_pending.armed => Armed(t)
  <2> SUFFICES ASSUME t.empty_pending.armed PROVE Armed(t)
    OBVIOUS
  <2>1. Armed(s)
    BY <1>2 DEF Placed
  <2>2. s.frames # <<>>
    BY <2>1 DEF Armed, InFlight
  <2>3. (\A i \in 1..Len(s.frames) : s.frames[i].kind # "Paren")
          => \A i \in 1..Len(t.frames) : t.frames[i].kind # "Paren"
    BY <1>2
  <2>4. Len(t.frames) = Len(s.frames) /\ TopOf(t).start = TopOf(s).start /\ (Bare(t) <=> Bare(s))
    BY <1>2, <1>7, <1>9, <2>2, SameReadingIs
  <2> QED BY <1>2, <1>8, <2>1, <2>3, <2>4 DEF Armed
<1>12. Bare(t) <=> Bare(s)
  BY <1>9, SameReadingIs
<1>13. Placed(t)
  BY <1>2, <1>4, <1>6, <1>10, <1>11, <1>12 DEF Placed
<1> QED BY <1>2, <1>9, <1>13 DEF t

\* A counted machine is calm.
LEMMA CountedIsCalm ==
  ASSUME NEW s0, Placed(s0), s0.paren_gate.kind = "none", NEW c
  PROVE  LET s == Counted(s0, c)
         IN  Calm(s) /\ s.empty_pending = s0.empty_pending
<1> DEFINE over == [s0 EXCEPT !.garbage_run = FALSE]
           s == Counted(s0, c)
<1>1. s0 \in Machine
  BY Bodies DEF Placed
<1>2. Placed(over) /\ SameReading(s0, over) /\ ~over.garbage_run
  BY CleanPlaced
<1> HIDE DEF over
<1>3. PICK frames : CountsFrames(s0, s, frames)
  BY <1>1, CountedIs
<1> HIDE DEF s
<1>4. s = [over EXCEPT !.frames = frames] /\ over.frames = s0.frames
        /\ over.empty_pending = s0.empty_pending /\ over.paren_gate = s0.paren_gate
  BY <1>1, <1>3 DEF Machine, CountsFrames, over
<1>5. LET t == [over EXCEPT !.frames = frames]
      IN  /\ Placed(t) /\ t.empty_pending = over.empty_pending
          /\ t.garbage_run = over.garbage_run /\ t.paren_gate = over.paren_gate
  BY <1>2, <1>3, <1>4, CountPlaced DEF CountsFrames
<1>6. Calm(s) /\ s.empty_pending = s0.empty_pending
  BY <1>2, <1>4, <1>5 DEF Calm
<1> QED BY <1>6 DEF s

\* A character inside the machine: counted, then dispatched.
LEMMA InnerPlaced ==
  ASSUME NEW s0, Placed(s0), s0.paren_gate.kind = "none", NEW c \in Token,
         s0.empty_pending.armed => c \in Whitespace
  PROVE  Placed(process_inner(s0, c))
<1> DEFINE over == [s0 EXCEPT !.garbage_run = FALSE]
           s == Counted(s0, c)
<1>1. Placed(over) /\ SameReading(s0, over) /\ ~over.garbage_run
  BY CleanPlaced
<1>2. InnerOf(s0, s, over, process_inner(s0, c), c)
  BY InnerIs
<1>3. s0.garbage_run => Placed(pop_frame(over))
  <2> SUFFICES ASSUME s0.garbage_run PROVE Placed(pop_frame(over))
    OBVIOUS
  <2>1. Bare(s0)
    BY DEF Placed
  <2> HIDE DEF over
  <2>2. Closing(over)
    BY <1>1, <2>1, SameReadingIs DEF Closing
  <2> QED BY <2>2, PopPlaced DEF Closing
<1>4. Calm(s) /\ s.empty_pending = s0.empty_pending
  BY CountedIsCalm
<1> HIDE DEF s, over
<1>5. Placed(s) /\ ~s.garbage_run /\ s.paren_gate.kind = "none"
  BY <1>4 DEF Calm
<1>6. /\ s.comment.kind # "none" => Placed(feed_comment(s, c))
      /\ s.comment.kind = "none" /\ s.string.open => Placed(feed_string(s, c))
      /\ s.comment.kind = "none" /\ ~s.string.open /\ s.pending.kind # "none"
           => Placed(feed_pending(s, c))
  BY <1>4, CommentPlaced, InStringPlaced, AnyPendingPlaced
<1>7. s.comment.kind = "none" /\ ~s.string.open /\ s.pending.kind = "none" =>
        /\ s.frames = <<>> => Placed(feed_top(s, c))
        /\ s.frames # <<>> => Placed(feed_structure(s, c))
  BY <1>4, <1>5, TopPlaced, StructurePlaced DEF Bare
<1> QED BY <1>2, <1>3, <1>6, <1>7 DEF InnerOf

\* The first characters behind a top-level paren decide what it is.
LEMMA FirstCharPlaced ==
  ASSUME NEW s0, Placed(s0), s0.paren_gate.kind = "FirstChar", NEW c \in Token
  PROVE  Placed(paren_gate_first_char(s0, c))
<1> DEFINE s    == [s0 EXCEPT !.paren_gate = [kind |-> "none"]]
           buf  == Append(s0.paren_gate.buf, c)
           gate == [kind |-> "FirstChar", buf |-> buf]
           hold == [s EXCEPT !.paren_gate = gate]
           unclean == [s EXCEPT !.top_clean = FALSE]
           group   == open_container(s, "Paren")
<1>1. s0 \in Machine /\ s0.paren_gate \in Gate
  <2>1. s0 \in Machine
    BY Bodies DEF Placed
  <2> QED BY <2>1, Fields
<1>2. s0.paren_gate.buf \in Text
  BY <1>1 DEF Gate
<1>3. buf \in Text /\ <<c>> \in Text
  BY <1>2, Joins, Tokens
<1>4. paren_gate_first_char(s0, c) \in
        {hold, Replay(group, buf), Replay(group, <<c>>), Replay(unclean, buf), Replay(unclean, <<c>>)}
  BY DEF paren_gate_first_char
<1>5. s0.frames = <<>> /\ ~s0.top_done
  BY DEF Placed
<1>6. /\ Placed(s) /\ s.frames = <<>> /\ ~s.top_done /\ s.paren_gate.kind = "none"
  <2>1. [kind |-> "none"] \in Gate
    BY Values
  <2>2. Placed(s)
    BY <1>5, <2>1, GatePlaced
  <2>3. s.frames = s0.frames /\ s.top_done = s0.top_done /\ s.paren_gate = [kind |-> "none"]
    BY <1>1 DEF Machine
  <2> HIDE DEF s
  <2> QED BY <1>5, <2>2, <2>3
<1> HIDE DEF s, buf
<1>7. gate \in Gate /\ gate.kind = "FirstChar"
  BY <1>3, Values
<1> HIDE DEF gate
<1>8. Placed(hold)
  BY <1>6, <1>7, GatePlaced
<1> HIDE DEF hold
<1>9. Placed(unclean)
  BY <1>6, Asides
<1>10. Placed(group)
  <2>1. "Paren" \in Kinds
    BY DEF Kinds
  <2>2. ~Busy(s) /\ ~s.garbage_run /\ s.out = <<>>
    BY <1>6 DEF Placed, Reads, InFlight
  <2>3. ~s.string.open /\ s.pending.kind \notin {"Num", "Word"}
    BY <2>2 DEF Busy
  <2>4. ~s.empty_pending.armed
    BY <1>6, NotArmed
  <2> QED BY <1>6, <2>1, <2>2, <2>3, <2>4, OpenPlaced
<1> HIDE DEF unclean, group
<1>11. /\ Placed(Replay(group, buf)) /\ Placed(Replay(group, <<c>>))
       /\ Placed(Replay(unclean, buf)) /\ Placed(Replay(unclean, <<c>>))
  BY <1>3, <1>9, <1>10, Asides
<1> QED BY <1>4, <1>8, <1>11

\* Nothing stands in nothing.
LEMMA NothingStands == Stands(<<>>, <<>>, <<>>)
BY DEF Stands

\* The undecided top-level paren looks first.
LEMMA DispatchPlaced ==
  ASSUME NEW s, Placed(s), NEW c \in Token, s.empty_pending.armed => c \in Whitespace
  PROVE  Placed(gate_or_inner(s, c))
<1> DEFINE none == [s EXCEPT !.paren_gate = [kind |-> "none"]]
           bare == [s EXCEPT !.paren_gate = [kind |-> "none"], !.out = <<>>, !.emitted = 0,
                             !.top_clean = FALSE]
<1>1. s \in Machine /\ s.paren_gate \in Gate /\ Based(s) /\ Sound(s)
  <2>1. s \in Machine /\ Based(s) /\ Sound(s)
    BY Bodies DEF Placed
  <2> QED BY <2>1, Fields
<1>2. s.paren_gate.kind \in {"none", "TailCheck", "FirstChar"}
  BY <1>1 DEF Gate
<1>3. \/ /\ s.paren_gate.kind = "FirstChar"
         /\ gate_or_inner(s, c) \in {s, paren_gate_first_char(s, c)}
      \/ /\ s.paren_gate.kind = "TailCheck"
         /\ gate_or_inner(s, c) \in {none, s, Replay(bare, <<c>>)}
      \/ /\ s.paren_gate.kind = "none"
         /\ gate_or_inner(s, c) = Settle(process_inner(s, c), c)
  BY <1>2 DEF gate_or_inner
<1>4. CASE s.paren_gate.kind = "none"
  <2>1. Placed(process_inner(s, c))
    BY <1>4, InnerPlaced
  <2>2. Placed(Settle(process_inner(s, c), c))
    BY <2>1, Asides
  <2> QED BY <1>3, <1>4, <2>2
<1>5. CASE s.paren_gate.kind = "FirstChar"
  <2> HIDE DEF none, bare
  <2> QED BY <1>3, <1>5, FirstCharPlaced
<1>6. CASE s.paren_gate.kind = "TailCheck"
  <2>1. s.frames = <<>> /\ s.empty_marks = <<>> /\ ~s.empty_pending.armed
    BY <1>6, NotArmed DEF Placed
  <2>2. Placed(none)
    <3>1. [kind |-> "none"] \in Gate
      BY Values
    <3> QED BY <2>1, <3>1, GatePlaced
  <2>3. Placed(bare)
    <3>1. <<>> \in Text /\ Len(<<>>) = 0
      BY Tokens
    <3>2. /\ bare \in Machine /\ bare.emitted = 0 /\ bare.out = <<>> /\ bare.frames = s.frames
          /\ bare.pos = s.pos /\ bare.string = s.string /\ bare.pending = s.pending
          /\ bare.comment = s.comment /\ bare.empty_marks = s.empty_marks
          /\ bare.empty_pending = s.empty_pending /\ bare.garbage_run = s.garbage_run
          /\ bare.top_done = s.top_done /\ bare.paren_gate = [kind |-> "none"]
      BY <1>1, <3>1, Values DEF Machine
    <3> HIDE DEF bare
    <3>3. Sound(bare)
      BY <1>1, <3>1, <3>2 DEF Sound
    <3>4. Based(bare)
      BY <2>1, <3>2, <3>3, NothingStands DEF Based
    <3>5. ~Busy(bare) /\ ~KeyAhead(bare)
      <4>1. ~Busy(s) /\ ~KeyAhead(s)
        BY <2>1 DEF Placed, Reads, InFlight, InObject
      <4> QED BY <3>2, <4>1 DEF Busy, KeyAhead
    <3>6. Reads(bare)
      BY <3>5 DEF Reads, Busy
    <3>7. ~bare.garbage_run /\ bare.paren_gate.kind = "none"
      BY <2>1, <3>2 DEF Placed
    <3> QED BY <2>1, <3>2, <3>4, <3>6, <3>7 DEF Placed
  <2> HIDE DEF none, bare
  <2>4. Placed(Replay(bare, <<c>>))
    BY <2>3, Asides, Tokens
  <2> QED BY <1>3, <1>6, <2>2, <2>4
<1> QED BY <1>2, <1>4, <1>5, <1>6

\* A decision that is taken leaves the machine where it was.
LEMMA Disarmed ==
  ASSUME NEW s0, Placed(s0), NEW p \in EmptyPending,
         p.armed => /\ s0.empty_pending.armed /\ p.start = s0.empty_pending.start
                    /\ p.end = s0.empty_pending.end /\ p.frame = s0.empty_pending.frame
                    /\ p.never_defers = s0.empty_pending.never_defers
  PROVE  LET t == [s0 EXCEPT !.empty_pending = p, !.replay = <<>>]
         IN  /\ Placed(t) /\ SameReading(s0, t) /\ t.frames = s0.frames /\ t.out = s0.out
             /\ t.empty_marks = s0.empty_marks /\ t.empty_pending = p
             /\ t.paren_gate = s0.paren_gate /\ t.garbage_run = s0.garbage_run
             /\ t.top_done = s0.top_done
<1> DEFINE t == [s0 EXCEPT !.empty_pending = p, !.replay = <<>>]
<1>1. Based(s0) /\ s0 \in Machine
  BY Bodies DEF Placed
<1>2. /\ t \in Like(s0) /\ t.pos = s0.pos /\ t.string = s0.string /\ t.pending = s0.pending
      /\ t.comment = s0.comment /\ t.out = s0.out /\ t.frames = s0.frames
      /\ t.empty_marks = s0.empty_marks /\ t.empty_pending = p
      /\ t.garbage_run = s0.garbage_run /\ t.paren_gate = s0.paren_gate
      /\ t.top_done = s0.top_done
  BY <1>1, Tokens DEF Machine, Like
<1> HIDE DEF t
<1>3. Based(t) /\ (InFlight(t) <=> InFlight(s0)) /\ (InObject(t) <=> InObject(s0))
  BY <1>1, <1>2, AlikeIs
<1>4. SameReading(s0, t)
  BY <1>2 DEF SameReading
<1>5. Bare(t) <=> Bare(s0)
  BY <1>4, SameReadingIs
<1>6. Reads(t)
  BY <1>3, <1>4, SameReadingIs DEF Placed, Reads, SameReading
<1>7. p.armed => Armed(t)
  <2> SUFFICES ASSUME p.armed PROVE Armed(t)
    OBVIOUS
  <2>1. Armed(s0)
    BY DEF Placed
  <2>2. Spans(t.out, p)
    BY <1>2, <2>1 DEF Armed, Spans
  <2>3. TopOf(t) = TopOf(s0)
    BY <1>2 DEF TopOf
  <2> QED BY <1>2, <1>3, <1>5, <2>1, <2>2, <2>3 DEF Armed
<1>8. Placed(t)
  BY <1>2, <1>3, <1>5, <1>6, <1>7 DEF Placed
<1> QED BY <1>2, <1>4, <1>8 DEF t

\* A mark is noted for the last element.
LEMMA MarkedPlaced ==
  ASSUME NEW s, Placed(s), NEW p \in ArmedSet, InFlight(s), p.start = TopOf(s).start,
         Spans(s.out, p), \A i \in 1..Len(s.frames) : s.frames[i].kind # "Paren",
         s.pos = "AfterValue", Bare(s), ~s.empty_pending.armed,
         NEW mark \in Mark, mark.start = p.start, mark.end = p.end
  PROVE  LET t == [s EXCEPT !.empty_marks = Append(@, mark)]
         IN  Placed(t) /\ ~t.empty_pending.armed
<1> DEFINE marks == Append(s.empty_marks, mark)
           t == [s EXCEPT !.empty_marks = marks]
<1>1. /\ Based(s) /\ s \in Machine /\ Sound(s) /\ s.out \in Text /\ s.frames \in Seq(Frame)
      /\ s.empty_marks \in Seq(Mark) /\ Stands(s.out, s.frames, s.empty_marks)
  BY Bodies DEF Placed
<1>2. marks \in Seq(Mark)
  BY <1>1
<1>3. s.frames # <<>>
  BY DEF InFlight
<1>4. Stands(s.out, s.frames, marks)
  <2>1. Spans(s.out, mark)
    BY DEF Spans
  <2>2. mark.start = s.frames[Len(s.frames)].start
    BY DEF TopOf
  <2> QED BY <1>1, <1>3, <2>1, <2>2, MarkStands
<1> HIDE DEF marks
<1>5. /\ t \in Like(s) /\ t.pos = s.pos /\ t.string = s.string /\ t.pending = s.pending
      /\ t.comment = s.comment /\ t.out = s.out /\ t.frames = s.frames
      /\ t.empty_marks = marks /\ t.empty_pending = s.empty_pending
      /\ t.garbage_run = s.garbage_run /\ t.paren_gate = s.paren_gate
      /\ t.top_done = s.top_done
  BY <1>1, <1>2 DEF Machine, Like
<1> HIDE DEF t
<1>6. Sound(t)
  BY <1>1, <1>5, LikeKeeps, KeptIsSound
<1>7. Based(t)
  BY <1>4, <1>5, <1>6 DEF Based
<1>8. Bare(t) /\ t.pos = "AfterValue"
  BY <1>5 DEF Bare
<1>9. Reads(t)
  BY <1>8, BareReads
<1>10. /\ ~t.empty_pending.armed /\ t.frames # <<>>
       /\ (t.garbage_run => t.pos = "Value") /\ t.paren_gate.kind = "none"
  BY <1>3, <1>5, GateIs DEF Placed
<1>11. Placed(t)
  BY <1>7, <1>8, <1>9, <1>10 DEF Placed
<1> QED BY <1>10, <1>11 DEF t, marks

\* A deferred empty element is dropped.
LEMMA SkipPlaced ==
  ASSUME NEW s, Within(s), InFlight(s), s.pos = "AfterValue", Bare(s)
  PROVE  Placed(SkipDrop(s, TopOf(s).start))
<1> DEFINE t == drop_marked_member(s, TopOf(s).start)
<1>1. SkipDrop(s, TopOf(s).start) = t
  BY DEF SkipDrop, InFlight
<1>2. Within(t) /\ SameReading(s, t)
  BY RetractsWithin
<1> HIDE DEF t
<1>3. Bare(t) /\ t.pos = "AfterValue"
  BY <1>2, SameReadingIs DEF SameReading
<1>4. Placed(t)
  BY <1>2, <1>3, BareReads, GoesOn
<1> QED BY <1>1, <1>4

\* The pending decision goes, is kept with the white space that was seen, or becomes a
\* mark, or its element goes: things stand.
Undecided(s) == [s EXCEPT !.empty_pending = [armed |-> FALSE], !.replay = <<>>]
SpaceSeen(s) == [Undecided(s) EXCEPT !.empty_pending = [s.empty_pending EXCEPT !.ws_seen = TRUE]]
MarkOf(p) ==
  [start |-> p.start, end |-> p.end, was_first |-> p.was_first, frame |-> p.frame,
   dropped |-> "open"]
Marked(s) == [Undecided(s) EXCEPT !.empty_marks = Append(@, MarkOf(s.empty_pending))]

LEMMA DecisionPlaced ==
  ASSUME NEW s0, Placed(s0)
  PROVE  /\ Placed(Undecided(s0)) /\ ~Undecided(s0).empty_pending.armed
         /\ s0.empty_pending.armed =>
              /\ Placed(SpaceSeen(s0))
              /\ ~s0.empty_pending.never_defers =>
                   Placed(Marked(s0)) /\ ~Marked(s0).empty_pending.armed
              /\ Placed(SkipDrop(Undecided(s0), s0.empty_pending.start))
<1> DEFINE p == s0.empty_pending
           s == Undecided(s0)
           mark == MarkOf(p)
           seen   == [p EXCEPT !.ws_seen = TRUE]
<1>1. s0 \in Machine /\ p \in EmptyPending
  <2>1. s0 \in Machine
    BY Bodies DEF Placed
  <2> QED BY <2>1, Fields
<1>2. /\ Placed(s) /\ SameReading(s0, s) /\ s.frames = s0.frames /\ s.out = s0.out
      /\ s.empty_marks = s0.empty_marks /\ s.empty_pending = [armed |-> FALSE]
      /\ s.paren_gate = s0.paren_gate /\ s.garbage_run = s0.garbage_run
  <2> DEFINE none == [armed |-> FALSE]
  <2>1. none \in EmptyPending /\ ~none.armed
    BY DEF EmptyPending
  <2>2. s = [s0 EXCEPT !.empty_pending = none, !.replay = <<>>]
    BY DEF Undecided
  <2> HIDE DEF none, s
  <2>3. /\ Placed(s) /\ SameReading(s0, s) /\ s.frames = s0.frames /\ s.out = s0.out
        /\ s.empty_marks = s0.empty_marks /\ s.empty_pending = none
        /\ s.paren_gate = s0.paren_gate /\ s.garbage_run = s0.garbage_run
    BY <2>1, <2>2, Disarmed
  <2> QED BY <2>3 DEF none
<1>3. s = [s0 EXCEPT !.empty_pending = [armed |-> FALSE], !.replay = <<>>]
  BY DEF Undecided
<1> HIDE DEF s
<1>4. SUFFICES ASSUME p.armed
               PROVE  /\ Placed(SpaceSeen(s0))
                      /\ ~p.never_defers => Placed(Marked(s0)) /\ ~Marked(s0).empty_pending.armed
                      /\ Placed(SkipDrop(s, p.start))
  BY <1>2 DEF s
<1>5. p \in ArmedSet
  BY <1>1, <1>4 DEF EmptyPending
<1>6. mark \in Mark /\ mark.start = p.start /\ mark.end = p.end
  BY <1>5 DEF ArmedSet, Mark, MarkOf
<1>7. /\ seen \in EmptyPending /\ seen.start = p.start /\ seen.end = p.end
      /\ seen.frame = p.frame /\ seen.never_defers = p.never_defers
  BY <1>5 DEF ArmedSet, EmptyPending
<1>8. Armed(s0)
  BY <1>4 DEF Placed
<1>9. /\ InFlight(s) /\ TopOf(s) = TopOf(s0) /\ s.pos = "AfterValue" /\ Bare(s)
       /\ ~s.empty_pending.armed
  <2>1. Bare(s) <=> Bare(s0)
    BY <1>2, SameReadingIs
  <2> QED BY <1>2, <1>8, <2>1 DEF Armed, InFlight, TopOf, SameReading
<1>10. p.start = TopOf(s).start /\ Spans(s.out, p)
       /\ (~p.never_defers => \A i \in 1..Len(s.frames) : s.frames[i].kind # "Paren")
  BY <1>2, <1>8, <1>9 DEF Armed
<1>11. SpaceSeen(s0) = [s0 EXCEPT !.empty_pending = seen, !.replay = <<>>]
  <2> HIDE DEF p, seen
  <2>1. SpaceSeen(s0) = [s EXCEPT !.empty_pending = seen]
    BY DEF SpaceSeen, s, p, seen
  <2>2. s \in Machine /\ <<>> \in Text
    BY <1>1, <1>3, Tokens DEF Machine, EmptyPending
  <2> QED BY <1>1, <1>3, <2>1, <2>2 DEF Machine
<1>12. Placed(SpaceSeen(s0))
  <2>1. /\ s0.empty_pending.armed /\ seen.start = s0.empty_pending.start
        /\ seen.end = s0.empty_pending.end /\ seen.frame = s0.empty_pending.frame
        /\ seen.never_defers = s0.empty_pending.never_defers
    BY <1>4, <1>7
  <2> HIDE DEF seen
  <2>2. LET t == [s0 EXCEPT !.empty_pending = seen, !.replay = <<>>] IN Placed(t)
    BY <1>7, <2>1, Disarmed
  <2> QED BY <1>11, <2>2
<1>13. ~p.never_defers => Placed(Marked(s0)) /\ ~Marked(s0).empty_pending.armed
  <2>1. Marked(s0) = [s EXCEPT !.empty_marks = Append(@, mark)]
    BY DEF Marked, s
  <2> HIDE DEF mark, p
  <2> QED BY <1>2, <1>5, <1>6, <1>9, <1>10, <2>1, MarkedPlaced
<1>14. Placed(SkipDrop(s, p.start))
  <2> HIDE DEF p
  <2>1. Within(s)
    <3>1. s.frames # <<>>
      BY <1>9 DEF InFlight
    <3>2. s.paren_gate.kind = "none"
      BY <1>2, <3>1, GateIs
    <3>3. Based(s) /\ ~s.garbage_run
      BY <1>2, <1>9 DEF Placed
    <3> QED BY <1>9, <3>1, <3>2, <3>3 DEF Within
  <2> QED BY <1>9, <1>10, <2>1, SkipPlaced
<1> QED BY <1>12, <1>13, <1>14

\* Whatever the character: where things stand, they stand.
LEMMA ProcessPlaced ==
  ASSUME NEW s0, Placed(s0), NEW c \in Token
  PROVE  Placed(process(s0, c))
<1> DEFINE p == s0.empty_pending
           skip == SkipDrop(Undecided(s0), p.start)
<1>1. \/ process(s0, c) = gate_or_inner(Undecided(s0), c)
      \/ /\ p.armed
         /\ \/ ~p.never_defers /\ process(s0, c) = gate_or_inner(Marked(s0), c)
            \/ c \in Whitespace /\ process(s0, c) = gate_or_inner(SpaceSeen(s0), c)
            \/ process(s0, c) \in {Replay(skip, <<c>>), Settle(skip, c)}
  BY DEF process, Undecided, Marked, MarkOf, SpaceSeen
<1>2. Placed(gate_or_inner(Undecided(s0), c))
  BY DecisionPlaced, DispatchPlaced
<1>3. p.armed =>
        /\ ~p.never_defers => Placed(gate_or_inner(Marked(s0), c))
        /\ c \in Whitespace => Placed(gate_or_inner(SpaceSeen(s0), c))
  BY DecisionPlaced, DispatchPlaced
<1>4. p.armed => Placed(Replay(skip, <<c>>)) /\ Placed(Settle(skip, c))
  BY DecisionPlaced, Asides, Tokens
<1> HIDE DEF skip
<1> QED BY <1>1, <1>2, <1>3, <1>4

-----------------------------------------------------------------------------
(* The session's offsets.                                                  *)

\* Between two entries of process the machine is placed; after end() no frame is open.
PlacedInv ==
  /\ SessionInv
  /\ finished => m.frames = <<>>
  /\ ~finished => Placed(m)

\* A fresh machine is placed.
LEMMA FreshIsPlaced == Placed(Fresh)
<1>1. /\ Fresh.out = <<>> /\ Fresh.frames = <<>> /\ Fresh.empty_marks = <<>>
      /\ Fresh.pos = "Value" /\ ~Fresh.string.open /\ Fresh.pending.kind = "none"
      /\ ~Fresh.empty_pending.armed /\ ~Fresh.garbage_run /\ Fresh.paren_gate.kind = "none"
  BY DEF Fresh, NoPending
<1>2. Based(Fresh)
  BY <1>1, FreshIsSound, NothingStands DEF Based
<1>3. Reads(Fresh)
  BY <1>1 DEF Reads, Busy, KeyAhead
<1> QED BY <1>1, <1>2, <1>3 DEF Placed

\* Nothing that stands depends on the delta cursor.
LEMMA CursorPlaced ==
  ASSUME NEW s, Placed(s), NEW n \in Nat, n <= Len(s.out)
  PROVE  Placed([s EXCEPT !.emitted = n])
<1> DEFINE t == [s EXCEPT !.emitted = n]
<1>1. /\ Based(s) /\ s \in Machine /\ Sound(s) /\ Reads(s)
  BY Bodies DEF Placed
<1>2. /\ t \in Machine /\ t.emitted = n /\ t.pos = s.pos /\ t.string = s.string
      /\ t.pending = s.pending /\ t.comment = s.comment /\ t.out = s.out /\ t.frames = s.frames
      /\ t.empty_marks = s.empty_marks /\ t.empty_pending = s.empty_pending
      /\ t.garbage_run = s.garbage_run /\ t.paren_gate = s.paren_gate /\ t.top_done = s.top_done
  BY <1>1 DEF Machine
<1> HIDE DEF t
<1>3. Sound(t)
  BY <1>1, <1>2 DEF Sound
<1>4. Based(t)
  BY <1>1, <1>2, <1>3 DEF Based
<1>5. (InFlight(t) <=> InFlight(s)) /\ (InObject(t) <=> InObject(s)) /\ TopOf(t) = TopOf(s)
  BY <1>2 DEF InFlight, InObject, TopOf
<1>6. SameReading(s, t)
  BY <1>2 DEF SameReading
<1>7. Reads(t) /\ (Bare(t) <=> Bare(s))
  BY <1>1, <1>5, <1>6, SameReadingIs DEF Reads, SameReading
<1>8. t.empty_pending.armed => Armed(t)
  <2> SUFFICES ASSUME t.empty_pending.armed PROVE Armed(t)
    OBVIOUS
  <2>1. Armed(s)
    BY <1>2 DEF Placed
  <2> QED BY <1>2, <1>5, <1>7, <2>1 DEF Armed
<1>9. Placed(t)
  BY <1>2, <1>4, <1>7, <1>8 DEF Placed
<1> QED BY <1>9 DEF t

\* A finished machine has no frame open.
LEMMA FinalFrames ==
  ASSUME NEW s, Sound(s)
  PROVE  Finalized(s).frames = <<>>
<1>1. s \in Machine
  BY Counts
<1> QED BY <1>1 DEF Finalized, Machine

\* The session starts placed.
LEMMA InitPlaced == Init => PlacedInv
<1> SUFFICES ASSUME Init PROVE PlacedInv
  OBVIOUS
<1>1. m = Fresh /\ ~finished
  BY DEF Init
<1> QED BY <1>1, InitSession, FreshIsPlaced DEF PlacedInv

\* Every call and every step of one leaves it placed.
LEMMA NextPlaced == PlacedInv /\ [Next]_vars => PlacedInv'
<1> SUFFICES ASSUME PlacedInv, [Next]_vars PROVE PlacedInv'
  OBVIOUS
<1>1. SessionInv /\ SessionInv' /\ (finished => m.frames = <<>>) /\ (~finished => Placed(m))
  BY NextSession DEF PlacedInv
<1>2. ASSUME m' = m, finished' = finished PROVE PlacedInv'
  BY <1>1, <1>2 DEF PlacedInv
<1>3. ASSUME NEW chunk \in caller.chunks, Push(chunk) PROVE PlacedInv'
  BY <1>2, <1>3 DEF Push
<1>4. CASE PushRefused
  BY <1>2, <1>4 DEF PushRefused
<1>5. CASE Step
  <2> DEFINE c == Head(todo)
             t == process(m, c)
  <2>1. /\ todo \in Text /\ todo # <<>> /\ ~finished /\ finished' = finished
        /\ m' = Replay(t, <<>>)
    BY <1>1, <1>5 DEF SessionInv, Step, Replay
  <2>2. c \in Token
    BY <2>1 DEF Text
  <2> HIDE DEF c
  <2>3. Placed(t)
    BY <1>1, <2>1, <2>2, ProcessPlaced
  <2> HIDE DEF t
  <2>4. Placed(m')
    BY <2>1, <2>3, Asides, Tokens
  <2> QED BY <1>1, <2>1, <2>4 DEF PlacedInv
<1>6. CASE PushReturns
  <2>1. finished' = finished /\ m' = [m EXCEPT !.emitted = Len(m.out)]
    BY <1>6 DEF PushReturns
  <2>2. m \in Machine /\ Len(m.out) \in Nat
    BY <1>1, Counts DEF SessionInv
  <2>3. ~finished => Placed(m')
    <3>1. Len(m.out) <= Len(m.out)
      BY <2>2
    <3> QED BY <1>1, <2>1, <2>2, <3>1, CursorPlaced
  <2>4. finished => m'.frames = <<>>
    BY <1>1, <2>1, <2>2 DEF Machine
  <2> QED BY <1>1, <2>1, <2>3, <2>4 DEF PlacedInv
<1>7. CASE PushFails
  BY <1>2, <1>7 DEF PushFails
<1>8. CASE End
  <2>1. finished' = TRUE /\ m' = IF finished THEN m ELSE Finalized(m)
    BY <1>8 DEF End
  <2>2. m'.frames = <<>>
    BY <1>1, <2>1, FinalFrames DEF SessionInv
  <2> QED BY <1>1, <2>1, <2>2 DEF PlacedInv
<1>9. CASE Reset
  BY <1>1, <1>9, FreshIsPlaced DEF Reset, PlacedInv
<1>10. CASE UNCHANGED vars
  BY <1>2, <1>10 DEF vars
<1> QED BY <1>3, <1>4, <1>5, <1>6, <1>7, <1>8, <1>9, <1>10 DEF Next

\* Where things stand, every offset of the session holds.
LEMMA PlacedHolds == PlacedInv => OffsetsHold
<1> SUFFICES ASSUME PlacedInv PROVE OffsetsHold
  OBVIOUS
<1>1. SessionInv /\ (finished => m.frames = <<>>) /\ (~finished => Placed(m))
  BY DEF PlacedInv
<1>2. TypeOK
  BY <1>1, SessionShapes
<1>3. /\ m.frames \in Seq(Frame) /\ m.empty_marks \in Seq(Mark) /\ Len(m.out) \in Nat
      /\ m.out \in Text
  BY <1>1, Counts, Fields DEF SessionInv
<1>4. CASE finished
  <2>1. m.frames = <<>> /\ DOMAIN m.frames = {}
    BY <1>1, <1>4
  <2> QED BY <1>2, <1>4, <2>1 DEF OffsetsHold, FramesInOrder, MarksSpanEmpties
<1>5. CASE ~finished
  <2>1. Stands(m.out, m.frames, m.empty_marks) /\ (m.empty_pending.armed => Armed(m))
    BY <1>1, <1>5 DEF Placed, Based
  <2>2. /\ DOMAIN m.frames = 1..Len(m.frames) /\ DOMAIN m.empty_marks = 1..Len(m.empty_marks)
        /\ Len(m.frames) \in Nat
    BY <1>3
  <2>3. FramesInOrder
    <3> SUFFICES ASSUME NEW i \in 1..Len(m.frames)
                 PROVE  LET f == m.frames[i] IN
                        /\ f.brace < Len(m.out)
                        /\ m.out[f.brace + 1] = Bracket(f.kind)
                        /\ f.start # None => f.start \in (f.brace + 1)..Len(m.out)
                        /\ i < Len(m.frames) => f.start # None /\ f.start <= m.frames[i + 1].brace
      BY <2>2, Zenon DEF FramesInOrder, Bracket
    <3> DEFINE f == m.frames[i]
    <3>1. StandsAt(m.out, f)
      BY <2>1 DEF Stands
    <3>2. f.brace \in Nat /\ f.start \in Nat \cup {None}
      BY <1>3, Placements
    <3>3. f.start # None => f.start \in (f.brace + 1)..Len(m.out)
      BY <1>3, <3>1, <3>2 DEF StandsAt, None
    <3>4. i < Len(m.frames) => f.start # None /\ f.start <= m.frames[i + 1].brace
      <4> SUFFICES ASSUME i < Len(m.frames) PROVE Nests(f, m.frames[i + 1])
        BY DEF Nests
      <4>1. i + 1 \in 1..Len(m.frames) /\ i \in 1..((i + 1) - 1)
        BY <2>2
      <4>2. \A j \in 1..Len(m.frames) : \A k \in 1..(j - 1) : Nests(m.frames[k], m.frames[j])
        BY <2>1 DEF Stands
      <4> QED BY <4>1, <4>2, Zenon
    <3> QED BY <3>1, <3>3, <3>4 DEF StandsAt
  <2>4. MarksSpanEmpties
    <3>1. \A e : Spans(m.out, e) => SpansEmpty(e)
      BY DEF Spans, SpansEmpty
    <3>2. \A k \in 1..Len(m.empty_marks) : Spans(m.out, m.empty_marks[k])
      BY <2>1 DEF Stands
    <3>3. m.empty_pending.armed => Spans(m.out, m.empty_pending)
      BY <2>1 DEF Armed
    <3> QED BY <2>2, <3>1, <3>2, <3>3 DEF MarksSpanEmpties
  <2> QED BY <1>2, <2>3, <2>4 DEF OffsetsHold
<1> QED BY <1>4, <1>5

\* Every offset the session keeps stays true of the text, under all its drains,
\* truncations and deferred drops, for every text, every cut into chunks and
\* every cap: the bracket of an open frame stands where the frame says, its
\* member in flight behind it and the next frame inside that member, and what a
\* mark or a deferred decision would take is one strictly empty element.
THEOREM OffsetsStand == Spec => []OffsetsHold
<1>1. Spec => []PlacedInv
  BY InitPlaced, NextPlaced, PTL DEF Spec
<1> QED BY <1>1, PlacedHolds, PTL

-----------------------------------------------------------------------------
(* A push runs out: what is weighed, and how little the helpers weigh.     *)

\* The fields of the struct, whatever they hold.
Names ==
  {"out", "frames", "pos", "string", "pending", "comment", "top_clean", "top_done",
   "last_string_start", "string_raw_tail", "prev_char_ws", "empty_marks", "empty_pending",
   "last_key_empty", "garbage_run", "paren_gate", "emitted", "error", "replay"}
Struct(s) == s = [x \in Names |-> s[x]]

\* A machine is a struct.
LEMMA MachineIsStruct ==
  ASSUME NEW s \in Machine
  PROVE  Struct(s)
BY DEF Machine, Struct, Names

\* A number of more than one character may be read again in part, so it weighs more
\* than a push of one character; a key word may come of a word, so it weighs less.
Weight == 20
PosWeight(s) == IF s.pos = "AfterValue" THEN 0 ELSE IF s.pos = "Colon" THEN 2 ELSE 1
PendingWeight(p) ==
  IF p.kind = "none" THEN 0
  ELSE IF p.kind = "Num" /\ Len(p.text) > 1 THEN Weight + 1
  ELSE IF p.kind = "Word" /\ p.key THEN 3 ELSE 4
CommentWeight(s) == IF s.comment.kind = "none" THEN 0 ELSE 2
ArmedWeight(s)   == IF s.empty_pending.armed THEN 1 ELSE 0
GateWeight(g) ==
  IF g.kind = "none" THEN 0 ELSE IF g.kind = "TailCheck" THEN 1
  ELSE 8 + (Weight - 1) * Len(g.buf)
Load(s) == PosWeight(s) + PendingWeight(s.pending) + CommentWeight(s) + ArmedWeight(s)
Heft(s) == Load(s) + GateWeight(s.paren_gate)

\* Nothing that is weighed differs.
Even(s, t) ==
  /\ Struct(t) /\ t.replay = s.replay /\ t.pos = s.pos /\ t.pending = s.pending
  /\ t.comment = s.comment /\ t.empty_pending = s.empty_pending /\ t.paren_gate = s.paren_gate

\* The edits of the text and of the top frame weigh nothing.
LEMMA EditsAreEven ==
  ASSUME NEW s, Struct(s)
  PROVE  /\ \A toks : Even(s, Emit(s, toks))
         /\ \A f : Even(s, SetTop(s, f))
         /\ \A n : Even(s, Truncate(s, n))
BY DEF Emit, SetTop, Truncate, Even, Struct, Names

\* One after another.
LEMMA EvenOn ==
  ASSUME NEW s, NEW t, NEW u, Even(s, t), Even(t, u)
  PROVE  Even(s, u)
BY DEF Even

\* The members begin, retract and note at no weight.
LEMMA MembersAreEven ==
  ASSUME NEW s, Struct(s)
  PROVE  /\ Even(s, s) /\ Even(s, begin_common(s)) /\ Even(s, note_comma(s))
         /\ Even(s, mark_body_colon(s)) /\ Even(s, retract_in_flight_member(s))
         /\ \A n : Even(s, DropMember(s, n)) /\ Even(s, drop_marked_member(s, n))
<1>1. Even(s, s)
  BY DEF Even
<1>2. Even(s, begin_common(s))
  <2> DEFINE t == IF TopOf(s).count > 0 THEN Emit(s, <<SepTok>>) ELSE s
  <2>1. Even(s, t)
    BY <1>1, EditsAreEven
  <2>2. \E f : begin_common(s) \in {s, SetTop(t, f)}
    BY DEF begin_common
  <2> HIDE DEF t
  <2>3. \A f : Even(s, SetTop(t, f))
    BY <2>1, EditsAreEven, EvenOn DEF Even
  <2> QED BY <1>1, <2>2, <2>3
<1>3. Even(s, note_comma(s)) /\ Even(s, mark_body_colon(s))
  BY <1>1, EditsAreEven DEF note_comma, mark_body_colon
<1>4. ASSUME NEW n PROVE Even(s, DropMember(s, n))
  <2> DEFINE t == Truncate(s, n)
  <2>1. Even(s, t) /\ Struct(t)
    BY EditsAreEven DEF Even
  <2>2. \E f : DropMember(s, n) = SetTop(t, f)
    BY DEF DropMember
  <2> HIDE DEF t
  <2> QED BY <2>1, <2>2, EditsAreEven, EvenOn
<1>5. ASSUME NEW n, NEW f PROVE Even(s, SetTop(DropMember(s, n), f))
  BY <1>4, EditsAreEven, EvenOn DEF Even
<1>6. Even(s, retract_in_flight_member(s))
  BY <1>1, <1>5 DEF retract_in_flight_member
<1>7. ASSUME NEW n PROVE Even(s, drop_marked_member(s, n))
  BY <1>1, <1>5 DEF drop_marked_member
<1> QED BY <1>1, <1>2, <1>3, <1>4, <1>6, <1>7

\* A dangling member leaves a key to be read, if there is a member.
LEMMA DanglingWeighs ==
  ASSUME NEW s, Struct(s)
  PROVE  LET t == drop_dangling_member(s)
         IN  /\ Struct(t) /\ t.replay = s.replay /\ t.pending = s.pending /\ t.comment = s.comment
             /\ t.empty_pending = s.empty_pending /\ t.paren_gate = s.paren_gate
             /\ t.pos = IF s.frames = <<>> \/ TopOf(s).start = None THEN s.pos ELSE "Key"
<1>1. CASE s.frames = <<>> \/ TopOf(s).start = None
  BY <1>1 DEF drop_dangling_member
<1>2. CASE ~(s.frames = <<>> \/ TopOf(s).start = None)
  <2> DEFINE t == DropMember(s, TopOf(s).start)
  <2>1. Even(s, t)
    BY MembersAreEven
  <2>2. drop_dangling_member(s) = [t EXCEPT !.pos = "Key"]
    BY <1>2 DEF drop_dangling_member
  <2> HIDE DEF t
  <2>3. LET u == [t EXCEPT !.pos = "Key"]
        IN  /\ Struct(u) /\ u.replay = s.replay /\ u.pending = s.pending /\ u.comment = s.comment
            /\ u.empty_pending = s.empty_pending /\ u.paren_gate = s.paren_gate /\ u.pos = "Key"
    BY <2>1 DEF Even, Struct, Names
  <2> QED BY <1>2, <2>2, <2>3
<1> QED BY <1>1, <1>2

\* What is read besides is a short token, and the gate has taken nothing in.
ShortToken(p) == ~(p.kind = "Num" /\ Len(p.text) > 1)
EmptyGate(g)  == g.kind \in {"none", "TailCheck"} \/ (g.kind = "FirstChar" /\ g.buf = <<>>)
Brief(s, t) ==
  /\ Struct(t) /\ t.replay = s.replay
  /\ (t.pending = s.pending \/ ShortToken(t.pending))
  /\ (t.paren_gate = s.paren_gate \/ EmptyGate(t.paren_gate))

\* One after another.
LEMMA BriefOn ==
  ASSUME NEW s, NEW t, NEW u, Brief(s, t), Brief(t, u)
  PROVE  Brief(s, u)
BY DEF Brief

\* What weighs nothing is brief.
LEMMA EvenIsBrief ==
  ASSUME NEW s, NEW t, Even(s, t)
  PROVE  Brief(s, t)
BY DEF Even, Brief

\* The fields a handler sets beside.
LEMMA FieldsAreBrief ==
  ASSUME NEW s, Struct(s)
  PROVE  /\ \A x : Brief(s, [s EXCEPT !.pos = x])
         /\ \A x : Brief(s, [s EXCEPT !.comment = x])
         /\ \A x : Brief(s, [s EXCEPT !.top_clean = x])
         /\ \A x : Brief(s, [s EXCEPT !.empty_pending = x])
         /\ \A x : Brief(s, [s EXCEPT !.garbage_run = x])
         /\ \A x : Brief(s, [s EXCEPT !.error = x])
         /\ \A x, y : Brief(s, [s EXCEPT !.pos = x, !.frames = y])
         /\ \A x : ShortToken(x) => Brief(s, WithPending(s, x))
         /\ \A x : EmptyGate(x) => Brief(s, [s EXCEPT !.paren_gate = x])
BY DEF Brief, Struct, Names, WithPending

\* Strings and containers open, and an empty element is armed.
LEMMA OpensAreBrief ==
  ASSUME NEW s, Struct(s)
  PROVE  /\ \A d, k : Brief(s, open_string(s, d, k))
         /\ \A k : Brief(s, open_container(s, k))
         /\ \A p : Brief(s, arm_empty_pending(s, p))
<1>1. \A d, k : Brief(s, open_string(s, d, k))
  <2> TAKE d, k
  <2> DEFINE t == Emit(s, <<"\"">>)
             new == [open |-> TRUE, delim |-> d, is_key |-> k]
             at == IF k THEN "Key" ELSE t.pos
  <2>1. Brief(s, t) /\ Struct(t)
    BY EditsAreEven, EvenIsBrief DEF Brief
  <2>2. open_string(s, d, k) = [t EXCEPT !.last_string_start = Len(s.out), !.string_raw_tail = "",
                                         !.pos = at, !.string = new]
    BY DEF open_string
  <2> HIDE DEF t, new, at
  <2>3. Brief(t, [t EXCEPT !.last_string_start = Len(s.out), !.string_raw_tail = "",
                           !.pos = at, !.string = new])
    BY <2>1 DEF Brief, Struct, Names
  <2> QED BY <2>1, <2>2, <2>3, BriefOn
<1>2. ASSUME NEW k PROVE Brief(s, open_container(s, k))
  <2> DEFINE t == Emit(s, <<IF k = "Obj" THEN "{" ELSE "[">>)
  <2>1. Brief(s, t) /\ Struct(t)
    BY EditsAreEven, EvenIsBrief DEF Brief
  <2>2. PICK x, y : \/ open_container(s, k) = [s EXCEPT !.error = TRUE]
                    \/ open_container(s, k) = [t EXCEPT !.pos = x, !.frames = y]
    BY Zenon DEF open_container
  <2> HIDE DEF t
  <2>3. Brief(s, [s EXCEPT !.error = TRUE])
    BY FieldsAreBrief
  <2>4. Brief(t, [t EXCEPT !.pos = x, !.frames = y])
    BY <2>1, FieldsAreBrief
  <2> DEFINE u == [s EXCEPT !.error = TRUE]
             w == [t EXCEPT !.pos = x, !.frames = y]
  <2>5. (open_container(s, k) = u \/ open_container(s, k) = w) /\ Brief(s, u) /\ Brief(t, w)
    BY <2>2, <2>3, <2>4
  <2> HIDE DEF u, w
  <2>6. Brief(s, w)
    BY <2>1, <2>5, BriefOn
  <2> QED BY <2>5, <2>6
<1>3. ASSUME NEW p PROVE Brief(s, arm_empty_pending(s, p))
  <2>1. PICK x : \/ arm_empty_pending(s, p) = s
                 \/ arm_empty_pending(s, p) = [s EXCEPT !.empty_pending = x]
    BY Zenon DEF arm_empty_pending
  <2>2. Brief(s, s)
    BY DEF Brief
  <2>3. Brief(s, [s EXCEPT !.empty_pending = x])
    BY FieldsAreBrief
  <2> QED BY <2>1, <2>2, <2>3
<1> QED BY <1>1, <1>2, <1>3

\* A token is drained.
LEMMA DrainIsBrief ==
  ASSUME NEW s, Struct(s), NEW pos, NEW tok
  PROVE  Brief(s, DrainOne(s, pos, tok))
<1> DEFINE t == [s EXCEPT !.out = SubSeq(@, 1, pos) \o SubSeq(@, pos + 2, Len(@)),
                         !.emitted = LessOf(@, pos)]
<1>1. Brief(s, s)
  BY DEF Brief
<1>2. Brief(s, t) /\ Struct(t)
  BY DEF Brief, Struct, Names
<1> HIDE DEF t
<1>3. PICK x, y : shift_deferred_spans(t, pos) = [t EXCEPT !.empty_marks = x, !.empty_pending = y]
  BY Zenon DEF shift_deferred_spans
<1>4. Brief(t, shift_deferred_spans(t, pos))
  BY <1>2, <1>3 DEF Brief, Struct, Names
<1>5. DrainOne(s, pos, tok) \in {s, shift_deferred_spans(t, pos)}
  BY Zenon DEF DrainOne, t
<1> QED BY <1>1, <1>2, <1>4, <1>5, BriefOn

\* A frame pops.
LEMMA PopIsBrief ==
  ASSUME NEW s, Struct(s)
  PROVE  Brief(s, pop_frame(s))
<1> DEFINE f        == TopOf(s)
           depth    == Len(s.frames) - 1
           trailing == s.pos = "Value" /\ f.count > 0
           t1 == [s EXCEPT !.frames = SubSeq(@, 1, depth),
                           !.empty_marks = [i \in DOMAIN @ |-> Verdict(@[i], depth, trailing)]]
           pp == IF f.kind = "Paren" THEN PopParen(t1, f)
                 ELSE [m |-> IF f.kind = "Obj" THEN PopObject(t1, f) ELSE Emit(t1, <<"]">>),
                       groupish |-> FALSE]
           t2 == IF pp.groupish /\ depth > 0
                 THEN SetTop(pp.m, [TopOf(pp.m) EXCEPT !.groupish = TRUE]) ELSE pp.m
           t3 == [t2 EXCEPT !.pos = "AfterValue", !.top_done = depth = 0,
                    !.empty_pending = IF depth = 0 \/ (@.armed /\ @.frame >= depth)
                                      THEN [armed |-> FALSE] ELSE @]
           gate == IF pp.groupish THEN [kind |-> "TailCheck"] ELSE t3.paren_gate
           t4 == IF depth > 0 THEN t3 ELSE
                 [t3 EXCEPT !.empty_marks = Except(@, {x \in Members(@) : x.dropped = "keep"}),
                            !.paren_gate = IF pp.groupish THEN [kind |-> "TailCheck"] ELSE @]
<1>1. pop_frame(s) = IF s.frames = <<>> THEN s ELSE arm_empty_pending(t4, f.kind = "Paren")
  BY DEF pop_frame
<1>2. Brief(s, s)
  BY DEF Brief
<1>3. Brief(s, t1) /\ Struct(t1)
  <2>1. \A x, y : Brief(s, [s EXCEPT !.frames = x, !.empty_marks = y])
    BY DEF Brief, Struct, Names
  <2> QED BY <2>1 DEF Brief
<1> HIDE DEF t1
<1>4. Brief(s, pp.m) /\ Struct(pp.m)
  <2>1. \A tok : Brief(t1, DrainOne(t1, f.brace, tok)) /\ Struct(DrainOne(t1, f.brace, tok))
    BY <1>3, DrainIsBrief DEF Brief
  <2>2. \A x : Brief(t1, Emit(t1, x))
    BY <1>3, EditsAreEven, EvenIsBrief
  <2>3. \A tok, x : Brief(t1, Emit(DrainOne(t1, f.brace, tok), x))
    BY <2>1, EditsAreEven, EvenIsBrief, BriefOn
  <2>4. Brief(t1, PopParen(t1, f).m)
    BY <2>1, <2>2 DEF PopParen
  <2>5. Brief(t1, PopObject(t1, f))
    BY <2>2, <2>3 DEF PopObject
  <2>6. Brief(t1, pp.m)
    BY <2>2, <2>4, <2>5
  <2> HIDE DEF pp
  <2> QED BY <1>3, <2>6, BriefOn DEF Brief
<1> HIDE DEF pp
<1>5. Brief(s, t2) /\ Struct(t2)
  <2>1. \A x : Brief(pp.m, SetTop(pp.m, x)) /\ Struct(SetTop(pp.m, x))
    BY <1>4, EditsAreEven, EvenIsBrief DEF Brief
  <2> QED BY <1>4, <2>1, BriefOn
<1> HIDE DEF t2
<1>6. Brief(s, t3) /\ Struct(t3)
  <2>1. PICK x, y, z : t3 = [t2 EXCEPT !.pos = x, !.top_done = y, !.empty_pending = z]
    BY Zenon
  <2> HIDE DEF t3
  <2>2. Brief(t2, t3)
    BY <1>5, <2>1 DEF Brief, Struct, Names
  <2> HIDE DEF t3
  <2> QED BY <1>5, <2>2, BriefOn DEF Brief
<1> HIDE DEF t3
<1>7. Brief(s, t4) /\ Struct(t4)
  <2>1. \A x, y : LET u == [t3 EXCEPT !.empty_marks = x, !.paren_gate = y]
                 IN  /\ Struct(u) /\ u.replay = t3.replay /\ u.pending = t3.pending
                     /\ u.paren_gate = y
    BY <1>6 DEF Struct, Names
  <2>2. gate = t3.paren_gate \/ EmptyGate(gate)
    BY DEF EmptyGate
  <2>3. PICK x : t4 = t3 \/ t4 = [t3 EXCEPT !.empty_marks = x, !.paren_gate = gate]
    BY Zenon
  <2> HIDE DEF t4, gate
  <2>4. Brief(t3, [t3 EXCEPT !.empty_marks = x, !.paren_gate = gate])
    BY <2>1, <2>2 DEF Brief
  <2>5. Brief(s, t4)
    BY <1>6, <2>3, <2>4, BriefOn
  <2> QED BY <2>5 DEF Brief
<1> HIDE DEF t4, f
<1>8. \A p : Brief(s, arm_empty_pending(t4, p))
  BY <1>7, OpensAreBrief, BriefOn
<1> QED BY <1>1, <1>2, <1>8

\* A closer closes what it matches.
LEMMA CloseIsBrief ==
  ASSUME NEW s, Closing(s), NEW c
  PROVE  Brief(s, close_up(s, c))
<1> DEFINE X == {t \in Machine : Closing(t) /\ Brief(s, t)}
<1>1. s \in X /\ Len(s.frames) \in Nat
  <2>1. s \in Machine /\ Len(s.frames) \in Nat
    BY Bodies DEF Closing, Placed
  <2> QED BY <2>1, MachineIsStruct DEF Brief
<1>2. \A x \in X : pop_frame(x) \in X
  <2> TAKE x \in X
  <2>1. Closing(pop_frame(x))
    BY PopPlaced
  <2>2. pop_frame(x) \in Machine
    BY <2>1, Bodies DEF Closing, Placed
  <2>3. Brief(x, pop_frame(x))
    BY MachineIsStruct, PopIsBrief
  <2>4. Brief(s, pop_frame(x))
    BY <2>3, BriefOn
  <2> QED BY <2>1, <2>2, <2>4
<1>3. \A t \in X : Brief(s, t)
  OBVIOUS
<1> HIDE DEF X
<1> QED BY <1>1, <1>2, <1>3, CloseStays

-----------------------------------------------------------------------------
(* A push runs out: each entry weighs less than it takes.                  *)

\* A gate holds back at most four characters.
GateHolds(s) == s.paren_gate.kind = "FirstChar" => Len(s.paren_gate.buf) <= 4

\* With one character taken, what is left weighs less.
Falls(s, t) ==
  /\ Heft(t) + Weight * Len(t.replay) < Weight + Heft(s)
  /\ GateHolds(t)

\* The parts of the load.
LEMMA LoadIs ==
  ASSUME NEW s
  PROVE  /\ PosWeight(s) \in 0..2 /\ CommentWeight(s) \in {0, 2} /\ ArmedWeight(s) \in {0, 1}
         /\ PendingWeight(s.pending) \in {0, 3, 4, Weight + 1}
         /\ Load(s) \in Nat
<1>1. PosWeight(s) \in 0..2 /\ CommentWeight(s) \in {0, 2} /\ ArmedWeight(s) \in {0, 1}
  BY DEF PosWeight, CommentWeight, ArmedWeight
<1>2. PendingWeight(s.pending) \in {0, 3, 4, Weight + 1}
  BY DEF PendingWeight
<1>3. Load(s) \in Nat
  BY <1>1, <1>2 DEF Load, Weight
<1> QED BY <1>1, <1>2, <1>3

\* The weight of a gate.
LEMMA GateWeighs ==
  ASSUME NEW s \in Machine
  PROVE  GateWeight(s.paren_gate) \in Nat
<1>1. s.paren_gate \in Gate
  BY Fields
<1>2. CASE s.paren_gate.kind = "FirstChar"
  <2>1. Len(s.paren_gate.buf) \in Nat
    BY <1>1, <1>2, TextIs DEF Gate
  <2> QED BY <1>2, <2>1 DEF GateWeight, Weight
<1>3. CASE s.paren_gate.kind # "FirstChar"
  BY <1>1, <1>3 DEF Gate, GateWeight
<1> QED BY <1>2, <1>3

\* What is brief falls: it takes its character and reads nothing again.
LEMMA BriefFalls ==
  ASSUME NEW s \in Machine, GateHolds(s), s.replay = <<>>, NEW t, Brief(s, t)
  PROVE  Falls(s, t)
<1>1. GateWeight(s.paren_gate) \in Nat
  BY GateWeighs
<1>2. t.paren_gate = s.paren_gate \/ EmptyGate(t.paren_gate)
  BY DEF Brief
<1>3. GateWeight(t.paren_gate) = GateWeight(s.paren_gate) \/ GateWeight(t.paren_gate) \in {0, 1, 8}
  BY <1>2 DEF EmptyGate, GateWeight, Weight
<1>4. GateHolds(t)
  BY <1>2 DEF EmptyGate, GateHolds
<1>5. PendingWeight(t.pending) = PendingWeight(s.pending) \/ PendingWeight(t.pending) \in {0, 3, 4}
  <2>1. t.pending = s.pending \/ ShortToken(t.pending)
    BY DEF Brief
  <2>2. ASSUME ShortToken(t.pending) PROVE PendingWeight(t.pending) \in {0, 3, 4}
    BY <2>2 DEF ShortToken, PendingWeight
  <2> QED BY <2>1, <2>2
<1>6. Len(t.replay) = 0
  BY DEF Brief
<1>7. Heft(t) < Weight + Heft(s)
  <2>1. Load(t) <= Load(s) + 9
    BY <1>5, LoadIs DEF Load, Weight
  <2>2. GateWeight(t.paren_gate) <= GateWeight(s.paren_gate) + 8
    BY <1>1, <1>3
  <2> QED BY <1>1, <1>3, <2>1, <2>2, LoadIs DEF Heft, Weight
<1>8. Heft(t) \in Nat /\ Heft(s) \in Nat
  BY <1>1, <1>3, LoadIs DEF Heft
<1> QED BY <1>4, <1>6, <1>7, <1>8 DEF Falls, Weight

\* What is read again comes with a smaller load, and no gate is set.
LEMMA AgainFalls ==
  ASSUME NEW s \in Machine, GateHolds(s), NEW t, Len(t.replay) = 1,
         t.paren_gate = s.paren_gate \/ t.paren_gate.kind = "none", Load(t) < Load(s)
  PROVE  Falls(s, t)
<1>1. GateWeight(s.paren_gate) \in Nat /\ Load(s) \in Nat /\ Load(t) \in Nat
  BY GateWeighs, LoadIs
<1>2. GateWeight(t.paren_gate) \in Nat /\ GateWeight(t.paren_gate) <= GateWeight(s.paren_gate)
  BY <1>1 DEF GateWeight
<1>3. GateHolds(t)
  BY DEF GateHolds
<1> QED BY <1>1, <1>2, <1>3 DEF Falls, Heft, Weight

\* What is read again is all that changes.
LEMMA ReplayWeighs ==
  ASSUME NEW s, Struct(s), NEW x
  PROVE  LET t == Replay(s, x)
         IN  /\ Struct(t) /\ t.replay = x /\ t.paren_gate = s.paren_gate /\ Load(t) = Load(s)
<1> DEFINE t == Replay(s, x)
<1>1. /\ Struct(t) /\ t.replay = x /\ t.paren_gate = s.paren_gate /\ t.pos = s.pos
      /\ t.pending = s.pending /\ t.comment = s.comment /\ t.empty_pending = s.empty_pending
  BY DEF Replay, Struct, Names
<1> HIDE DEF t
<1>2. Load(t) = Load(s)
  BY <1>1 DEF Load, PosWeight, CommentWeight, ArmedWeight
<1> QED BY <1>1, <1>2 DEF t

\* A comment opens.
LEMMA OpenCommentIsBrief ==
  ASSUME NEW s, Struct(s), NEW c
  PROVE  Brief(s, OpenComment(s, c))
<1>1. PICK x : OpenComment(s, c) = [s EXCEPT !.comment = x]
  BY Zenon DEF OpenComment
<1>2. Brief(s, [s EXCEPT !.comment = x])
  BY FieldsAreBrief
<1> QED BY <1>1, <1>2

\* A comment takes its characters in, or gives back the one that ends it.
LEMMA CommentFalls ==
  ASSUME NEW s \in Machine, GateHolds(s), s.replay = <<>>, s.comment.kind # "none", NEW c
  PROVE  Falls(s, feed_comment(s, c))
<1> DEFINE none == [kind |-> "none"]
           Ended == [s EXCEPT !.comment = none]
<1>1. Struct(s) /\ Struct(Ended) /\ Brief(s, s)
  BY MachineIsStruct DEF Struct, Names, Brief
<1>2. /\ Ended.pos = s.pos /\ Ended.pending = s.pending /\ Ended.comment = none
      /\ Ended.empty_pending = s.empty_pending /\ Ended.paren_gate = s.paren_gate
  BY <1>1 DEF Struct, Names
<1>3. s.comment \in Comment
  BY Fields
<1>3a. s.comment.kind \in {"Hash", "Line", "Block", "Slash"}
  BY <1>3 DEF Comment
<1>4. \/ feed_comment(s, c) = Replay(Ended, <<c>>)
      \/ \E x : feed_comment(s, c) = [s EXCEPT !.comment = x]
      \/ feed_comment(s, c) = s
  <2>1. s.comment.kind = "Block" /\ ~(s.comment.prev = "*" /\ c = "/") =>
          \E x : feed_comment(s, c) = [s EXCEPT !.comment = x]
    <3> SUFFICES ASSUME s.comment.kind = "Block", ~(s.comment.prev = "*" /\ c = "/")
                 PROVE  \E x : feed_comment(s, c) = [s EXCEPT !.comment = x]
      OBVIOUS
    <3>1. feed_comment(s, c) = [s EXCEPT !.comment.prev = c]
      BY DEF feed_comment
    <3>2. [s EXCEPT !.comment.prev = c] = [s EXCEPT !.comment = [s.comment EXCEPT !.prev = c]]
      OBVIOUS
    <3> QED BY <3>1, <3>2
  <2>2. s.comment.kind = "Block" /\ s.comment.prev = "*" /\ c = "/" => feed_comment(s, c) = Ended
    BY DEF feed_comment
  <2>3. s.comment.kind = "Hash" => feed_comment(s, c) \in {Replay(Ended, <<c>>), s}
    BY DEF feed_comment
  <2>4. s.comment.kind = "Line" => feed_comment(s, c) \in {Ended, s}
    BY DEF feed_comment
  <2>5. s.comment.kind = "Slash" =>
          \/ feed_comment(s, c) = Ended
          \/ feed_comment(s, c) = [s EXCEPT !.comment = [kind |-> "Line"]]
          \/ feed_comment(s, c) = [s EXCEPT !.comment = [kind |-> "Block", prev |-> "*"]]
    BY DEF feed_comment
  <2> QED BY <1>3a, <2>1, <2>2, <2>3, <2>4, <2>5
<1> HIDE DEF Ended
<1>5. Falls(s, Replay(Ended, <<c>>))
  <2> DEFINE t == Replay(Ended, <<c>>)
  <2>1. Struct(t) /\ t.replay = <<c>> /\ t.paren_gate = Ended.paren_gate /\ Load(t) = Load(Ended)
    BY <1>1, ReplayWeighs
  <2> HIDE DEF t
  <2>2. Len(t.replay) = 1
    BY <2>1
  <2>3. Load(Ended) < Load(s)
    <3>1. /\ PosWeight(Ended) = PosWeight(s) /\ ArmedWeight(Ended) = ArmedWeight(s)
          /\ PendingWeight(Ended.pending) = PendingWeight(s.pending)
      BY <1>2 DEF PosWeight, ArmedWeight
    <3>2. CommentWeight(Ended) = 0 /\ CommentWeight(s) = 2
      BY <1>2 DEF CommentWeight
    <3> QED BY <3>1, <3>2, LoadIs DEF Load, Weight
  <2>4. Falls(s, t)
    BY <1>2, <2>1, <2>2, <2>3, AgainFalls
  <2> QED BY <2>4 DEF t
<1>6. \A x : Brief(s, [s EXCEPT !.comment = x])
  BY <1>1, FieldsAreBrief
<1>7. ASSUME NEW x, feed_comment(s, c) = [s EXCEPT !.comment = x]
      PROVE  Falls(s, feed_comment(s, c))
  <2>1. Brief(s, feed_comment(s, c))
    BY <1>6, <1>7
  <2> QED BY <2>1, BriefFalls
<1>8. Falls(s, s)
  BY <1>1, BriefFalls
<1> QED BY <1>4, <1>5, <1>7, <1>8

\* A value begins.
LEMMA ValueIsBrief ==
  ASSUME NEW s, Struct(s), NEW c
  PROVE  Brief(s, feed_structure_value(s, c))
<1>1. feed_structure_value(s, c) \in
        {open_container(s, "Obj"), open_container(s, "Arr"), open_container(s, "Paren"),
         open_string(s, c, FALSE), WithPending(s, NumPending(<<c>>, FALSE)),
         WithPending(s, WordPending(<<c>>, FALSE, FALSE)), s}
  BY DEF feed_structure_value
<1>2. \A k, b : /\ ShortToken(WordPending(<<c>>, k, b)) /\ ShortToken(NumPending(<<c>>, k))
  BY DEF ShortToken, WordPending, NumPending
<1>3. Brief(s, s)
  BY DEF Brief
<1>4. Brief(s, WithPending(s, WordPending(<<c>>, FALSE, FALSE)))
  BY <1>2, FieldsAreBrief
<1>5. Brief(s, WithPending(s, NumPending(<<c>>, FALSE)))
  BY <1>2, FieldsAreBrief
<1> QED BY <1>1, <1>3, <1>4, <1>5, OpensAreBrief

\* A member begins.
LEMMA MemberIsBrief ==
  ASSUME NEW s, Struct(s), NEW c
  PROVE  LET t == begin_common(s)
         IN  /\ Brief(s, t) /\ Brief(s, feed_structure_value(t, c))
             /\ Brief(s, open_string(t, c, TRUE))
             /\ Brief(s, WithPending(t, WordPending(<<c>>, TRUE, FALSE)))
             /\ Brief(s, WithPending(t, NumPending(<<c>>, TRUE)))
<1> DEFINE t == begin_common(s)
<1>1. Brief(s, t) /\ Struct(t)
  BY MembersAreEven, EvenIsBrief DEF Brief
<1> HIDE DEF t
<1>2. ShortToken(WordPending(<<c>>, TRUE, FALSE)) /\ ShortToken(NumPending(<<c>>, TRUE))
  BY DEF ShortToken, WordPending, NumPending
<1>3. Brief(t, WithPending(t, WordPending(<<c>>, TRUE, FALSE)))
  BY <1>1, <1>2, FieldsAreBrief
<1>4. Brief(t, WithPending(t, NumPending(<<c>>, TRUE)))
  BY <1>1, <1>2, FieldsAreBrief
<1>5. Brief(t, feed_structure_value(t, c)) /\ Brief(t, open_string(t, c, TRUE))
  BY <1>1, ValueIsBrief, OpensAreBrief
<1>6. /\ Brief(s, feed_structure_value(t, c)) /\ Brief(s, open_string(t, c, TRUE))
      /\ Brief(s, WithPending(t, WordPending(<<c>>, TRUE, FALSE)))
      /\ Brief(s, WithPending(t, NumPending(<<c>>, TRUE)))
  BY <1>1, <1>3, <1>4, <1>5, BriefOn
<1> QED BY <1>1, <1>6 DEF t

\* The handlers of a position read nothing again, but for a colon's.  At a key.
LEMMA KeyPosIsBrief ==
  ASSUME NEW s, Closing(s), NEW c
  PROVE  Brief(s, KeyPos(s, c))
<1>1. Struct(s)
  BY Bodies, MachineIsStruct DEF Closing, Placed
<1>2. KeyPos(s, c) \in
        {close_up(s, c), mark_body_colon(s), open_string(begin_common(s), c, TRUE),
         WithPending(begin_common(s), WordPending(<<c>>, TRUE, FALSE)),
         WithPending(begin_common(s), NumPending(<<c>>, TRUE)), s}
  BY DEF KeyPos
<1>3. Brief(s, s) /\ Brief(s, mark_body_colon(s)) /\ Brief(s, close_up(s, c))
  BY <1>1, MembersAreEven, EvenIsBrief, CloseIsBrief DEF Brief
<1> QED BY <1>1, <1>2, <1>3, MemberIsBrief

\* Behind a value.
LEMMA AfterValuePosIsBrief ==
  ASSUME NEW s, Closing(s), NEW c
  PROVE  Brief(s, AfterValuePos(s, c))
<1> DEFINE t == note_comma(s)
           next == IF InObject(s) THEN "Key" ELSE "Value"
<1>1. Struct(s)
  BY Bodies, MachineIsStruct DEF Closing, Placed
<1>2. AfterValuePos(s, c) \in
        {[t EXCEPT !.pos = next], close_up(s, c), open_string(begin_common(s), c, TRUE),
         WithPending(begin_common(s), WordPending(<<c>>, TRUE, FALSE)),
         WithPending(begin_common(s), NumPending(<<c>>, TRUE)),
         feed_structure_value(begin_common(s), c), s}
  BY DEF AfterValuePos
<1> HIDE DEF next
<1>3. Brief(s, s) /\ Brief(s, t) /\ Struct(t) /\ Brief(s, close_up(s, c))
  BY <1>1, MembersAreEven, EvenIsBrief, CloseIsBrief DEF Brief
<1> HIDE DEF t
<1>4. Brief(t, [t EXCEPT !.pos = next])
  BY <1>3, FieldsAreBrief
<1>5. Brief(s, [t EXCEPT !.pos = next])
  BY <1>3, <1>4, BriefOn
<1> QED BY <1>1, <1>2, <1>3, <1>5, MemberIsBrief

\* A missing member value is written where a closer or a comma stands for it.
LEMMA HealedCloses ==
  ASSUME NEW s, Within(s), Bare(s)
  PROVE  LET t == [Emit(s, <<"\"", "\"">>) EXCEPT !.pos = "AfterValue"]
         IN  Closing(t) /\ Brief(s, t) /\ t.replay = s.replay
<1> DEFINE toks == <<"\"", "\"">>
           t == [Emit(s, toks) EXCEPT !.pos = "AfterValue"]
<1>1. toks \in Text /\ "AfterValue" \in Positions
  BY Tokens, Values
<1>2. "AfterValue" \notin {"Colon", "MemberValue"} /\ "AfterValue" \notin {"Key", "Colon"}
  OBVIOUS
<1>3. Struct(s)
  BY Bodies, MachineIsStruct DEF Within
<1> HIDE DEF toks
<1>4. Closing(t)
  BY <1>1, <1>2, WrittenPlaced
<1> DEFINE u == Emit(s, toks)
<1>5. Brief(s, u) /\ Struct(u)
  BY <1>3, EditsAreEven, EvenIsBrief DEF Brief
<1>6. t = [u EXCEPT !.pos = "AfterValue"]
  OBVIOUS
<1> HIDE DEF u, t
<1>7. Brief(u, [u EXCEPT !.pos = "AfterValue"])
  BY <1>5, FieldsAreBrief
<1>8. Brief(s, t) /\ t.replay = s.replay
  BY <1>5, <1>6, <1>7, BriefOn DEF Brief
<1> QED BY <1>4, <1>8 DEF t, toks

\* Where a value is awaited.
LEMMA ValuePosIsBrief ==
  ASSUME NEW s0, Within(s0), Reads(s0), Bare(s0), NEW c
  PROVE  Brief(s0, ValuePos(s0, c))
<1> DEFINE quoted == [Emit(s0, <<"\"", "\"">>) EXCEPT !.pos = "AfterValue"]
           s == IF s0.pos = "MemberValue" /\ c \in Closers \cup {","} THEN quoted ELSE s0
           t == note_comma(s)
<1>1. Closing(s0)
  BY GoesOn DEF Closing, Within
<1>2. Closing(s) /\ Brief(s0, s) /\ Struct(s)
  <2>1. Closing(quoted) /\ Brief(s0, quoted)
    BY HealedCloses
  <2> HIDE DEF quoted
  <2>2. Brief(s0, s0)
    BY <1>1, Bodies, MachineIsStruct DEF Closing, Placed, Brief
  <2>3. Closing(s) /\ Brief(s0, s)
    BY <1>1, <2>1, <2>2
  <2> HIDE DEF s
  <2> QED BY <2>3 DEF Brief
<1>3. ValuePos(s0, c) \in
        {close_up(s, c), [t EXCEPT !.garbage_run = TRUE], t, feed_structure_value(s, c),
         feed_structure_value(begin_common(s), c), s}
  BY DEF ValuePos
<1> HIDE DEF s, quoted
<1>4. Brief(s, t) /\ Struct(t) /\ Brief(s, close_up(s, c)) /\ Brief(s, s)
  BY <1>2, MembersAreEven, EvenIsBrief, CloseIsBrief DEF Brief
<1> HIDE DEF t
<1>5. Brief(t, [t EXCEPT !.garbage_run = TRUE])
  BY <1>4, FieldsAreBrief
<1>6. Brief(s, [t EXCEPT !.garbage_run = TRUE])
  BY <1>4, <1>5, BriefOn
<1>7. Brief(s, ValuePos(s0, c))
  BY <1>2, <1>3, <1>4, <1>6, ValueIsBrief, MemberIsBrief
<1> QED BY <1>2, <1>7, BriefOn

\* Behind a key: a colon that is read or stands for one leads to the member's value, and
\* a key without one goes, with what stood behind it to be read again.
LEMMA ColonPosFalls ==
  ASSUME NEW s \in Machine, GateHolds(s), s.replay = <<>>, s.pos = "Colon", InFlight(s), NEW c
  PROVE  Falls(s, ColonPos(s, c))
<1> DEFINE e == Emit(s, <<ColonTok>>)
           AtColon == [e EXCEPT !.pos = "MemberValue"]
           gone == drop_dangling_member(s)
<1>1. Struct(s) /\ Brief(s, s)
  BY MachineIsStruct DEF Brief
<1>2. ColonPos(s, c) \in {AtColon, Replay(gone, <<c>>), Replay(AtColon, <<c>>), s}
  BY DEF ColonPos
<1>3. Even(s, e) /\ Struct(e)
  BY <1>1, EditsAreEven DEF Even
<1> HIDE DEF e
<1>4. /\ Struct(AtColon) /\ AtColon.pos = "MemberValue" /\ AtColon.pending = s.pending
      /\ AtColon.comment = s.comment /\ AtColon.empty_pending = s.empty_pending
      /\ AtColon.paren_gate = s.paren_gate /\ AtColon.replay = s.replay
  BY <1>3 DEF Even, Struct, Names
<1>5. /\ Struct(gone) /\ gone.pos = "Key" /\ gone.pending = s.pending
      /\ gone.comment = s.comment /\ gone.empty_pending = s.empty_pending
      /\ gone.paren_gate = s.paren_gate /\ gone.replay = s.replay
  BY <1>1, DanglingWeighs DEF InFlight
<1> HIDE DEF AtColon, gone
<1>6. ASSUME NEW t, Struct(t), t.pos # "Colon", t.pending = s.pending, t.comment = s.comment,
             t.empty_pending = s.empty_pending, t.paren_gate = s.paren_gate
      PROVE  Falls(s, Replay(t, <<c>>))
  <2> DEFINE u == Replay(t, <<c>>)
  <2>1. u.replay = <<c>> /\ u.paren_gate = t.paren_gate /\ Load(u) = Load(t)
    BY <1>6, ReplayWeighs
  <2> HIDE DEF u
  <2>2. /\ CommentWeight(t) = CommentWeight(s) /\ ArmedWeight(t) = ArmedWeight(s)
        /\ PendingWeight(t.pending) = PendingWeight(s.pending)
    BY <1>6 DEF CommentWeight, ArmedWeight
  <2>3. PosWeight(s) = 2 /\ PosWeight(t) < 2
    BY <1>6 DEF PosWeight
  <2>4. Load(t) < Load(s)
    BY <2>2, <2>3, LoadIs DEF Load, Weight
  <2>5. Len(u.replay) = 1
    BY <2>1
  <2>6. Falls(s, u)
    BY <1>6, <2>1, <2>4, <2>5, AgainFalls
  <2> QED BY <2>6 DEF u
<1>7. Falls(s, Replay(AtColon, <<c>>)) /\ Falls(s, Replay(gone, <<c>>))
  BY <1>4, <1>5, <1>6
<1>8. Brief(s, AtColon)
  BY <1>4 DEF Brief
<1>9. Falls(s, s) /\ Falls(s, AtColon)
  BY <1>1, <1>8, BriefFalls
<1> QED BY <1>2, <1>7, <1>9

\* Inside a container, between tokens.
LEMMA StructureFalls ==
  ASSUME NEW s, Calm(s), Bare(s), s.frames # <<>>, GateHolds(s), s.replay = <<>>,
         NEW c, s.empty_pending.armed => c \in Whitespace
  PROVE  Falls(s, feed_structure(s, c))
<1>1. s \in Machine
  BY Bodies DEF Calm, Placed
<1>2. Struct(s) /\ Brief(s, s)
  BY <1>1, MachineIsStruct DEF Brief
<1>3. CASE c \in Whitespace
  <2>1. c \notin {"#", "/"}
    BY <1>3 DEF Whitespace
  <2>2. feed_structure(s, c) = s
    BY <1>3, <2>1 DEF feed_structure
  <2> QED BY <1>1, <1>2, <2>2, BriefFalls
<1>4. CASE c \notin Whitespace
  <2>1. ~s.empty_pending.armed
    BY <1>4
  <2>2. Within(s) /\ Reads(s) /\ Closing(s)
    BY <2>1, CalmIs
  <2>3. s.pos \in {"Key", "Colon", "Value", "MemberValue", "AfterValue"}
    BY <1>1, Fields DEF Positions
  <2>4. \/ feed_structure(s, c) = OpenComment(s, c)
        \/ s.pos = "Key" /\ feed_structure(s, c) = KeyPos(s, c)
        \/ s.pos = "Colon" /\ feed_structure(s, c) = ColonPos(s, c)
        \/ s.pos = "AfterValue" /\ feed_structure(s, c) = AfterValuePos(s, c)
        \/ s.pos \in {"Value", "MemberValue"} /\ feed_structure(s, c) = ValuePos(s, c)
    BY <1>4, <2>3 DEF feed_structure
  <2>5. CASE s.pos = "Colon" /\ feed_structure(s, c) = ColonPos(s, c)
    <3>1. InFlight(s)
      BY <2>2, <2>5 DEF Reads, Busy
    <3> QED BY <1>1, <2>5, <3>1, ColonPosFalls
  <2>6. Brief(s, OpenComment(s, c))
    BY <1>2, OpenCommentIsBrief
  <2>7. Brief(s, KeyPos(s, c))
    BY <2>2, KeyPosIsBrief
  <2>8. Brief(s, AfterValuePos(s, c))
    BY <2>2, AfterValuePosIsBrief
  <2>9. Brief(s, ValuePos(s, c))
    BY <2>2, ValuePosIsBrief
  <2>10. CASE Brief(s, feed_structure(s, c))
    BY <1>1, <2>10, BriefFalls
  <2> QED BY <2>4, <2>5, <2>6, <2>7, <2>8, <2>9, <2>10
<1> QED BY <1>3, <1>4

\* At the top level, between tokens.
LEMMA TopIsBrief ==
  ASSUME NEW s, Struct(s), NEW c
  PROVE  Brief(s, feed_top(s, c))
<1> DEFINE gate == [kind |-> "FirstChar", buf |-> <<>>]
           str == [kind |-> "TopStr", buf |-> <<"\"">>, delim |-> c, done |-> FALSE]
           num == [kind |-> "TopNum", text |-> <<c>>, done |-> FALSE]
           word == [kind |-> "TopWord", text |-> <<c>>, done |-> FALSE]
<1>1. feed_top(s, c) \in
        {OpenComment(s, c), s, feed_structure_value(s, c), [s EXCEPT !.paren_gate = gate],
         WithPending(s, str), WithPending(s, num), WithPending(s, word),
         [s EXCEPT !.top_clean = FALSE]}
  BY DEF feed_top
<1>2. EmptyGate(gate) /\ ShortToken(str) /\ ShortToken(num) /\ ShortToken(word)
  BY DEF EmptyGate, ShortToken
<1> HIDE DEF gate, str, num, word
<1>3. Brief(s, s) /\ Brief(s, OpenComment(s, c)) /\ Brief(s, feed_structure_value(s, c))
  BY OpenCommentIsBrief, ValueIsBrief DEF Brief
<1>4. Brief(s, [s EXCEPT !.paren_gate = gate]) /\ Brief(s, [s EXCEPT !.top_clean = FALSE])
  BY <1>2, FieldsAreBrief
<1>5. Brief(s, WithPending(s, str)) /\ Brief(s, WithPending(s, num)) /\ Brief(s, WithPending(s, word))
  BY <1>2, FieldsAreBrief
<1> QED BY <1>1, <1>3, <1>4, <1>5

\* A token is over and what ended it is read again, from a machine that weighs no more
\* in anything else but the position.
LEMMA TokenGoes ==
  ASSUME NEW s \in Machine, GateHolds(s), NEW t, Struct(t), NEW c,
         t.comment = s.comment, t.empty_pending = s.empty_pending, t.paren_gate = s.paren_gate,
         PosWeight(t) + PendingWeight(t.pending) < PosWeight(s) + PendingWeight(s.pending)
  PROVE  Falls(s, Replay(t, <<c>>))
<1> DEFINE u == Replay(t, <<c>>)
<1>1. u.replay = <<c>> /\ u.paren_gate = t.paren_gate /\ Load(u) = Load(t)
  BY ReplayWeighs
<1> HIDE DEF u
<1>2. CommentWeight(t) = CommentWeight(s) /\ ArmedWeight(t) = ArmedWeight(s)
  BY DEF CommentWeight, ArmedWeight
<1>3. Load(t) < Load(s)
  BY <1>2, LoadIs DEF Load, Weight
<1>4. Len(u.replay) = 1
  BY <1>1
<1>5. Falls(s, u)
  BY <1>1, <1>3, <1>4, AgainFalls
<1> QED BY <1>5 DEF u

\* What a provisional scalar of the top level weighs.
LEMMA TopWeighs ==
  ASSUME NEW s, s.pending.kind \in {"TopNum", "TopWord", "TopStr"}
  PROVE  PendingWeight(s.pending) = 4
BY DEF PendingWeight

\* It grows, ends, or turns out to be prose.
LEMMA TopPendingFalls ==
  ASSUME NEW s \in Machine, GateHolds(s), s.replay = <<>>,
         s.pending.kind \in {"TopNum", "TopWord", "TopStr"}, NEW c
  PROVE  Falls(s, feed_top_pending(s, c))
<1> DEFINE idle == [s EXCEPT !.pending = NoPending]
           t == [idle EXCEPT !.top_clean = FALSE]
           lost == Prose(idle, c)
<1>1. Struct(s)
  BY MachineIsStruct
<1>2. PICK x, y :
        \/ feed_top_pending(s, c) = lost
        \/ feed_top_pending(s, c) = [s EXCEPT !.pending = x] /\ x.kind = s.pending.kind
        \/ feed_top_pending(s, c) = [s EXCEPT !.top_clean = FALSE, !.pending = NoPending]
  <2> DEFINE p == s.pending
             done == [p EXCEPT !.done = TRUE]
             grown == [p EXCEPT !.text = Append(@, c)]
             quoted == [p EXCEPT !.buf = Append(@, "\""), !.done = TRUE]
             escaped == [p EXCEPT !.buf = Append(@, Escaped(c))]
  <2>1. [s EXCEPT !.pending.done = TRUE] = [s EXCEPT !.pending = done]
    OBVIOUS
  <2>2. [s EXCEPT !.pending.text = Append(@, c)] = [s EXCEPT !.pending = grown]
    OBVIOUS
  <2>3. [s EXCEPT !.pending.buf = Append(@, Escaped(c))] = [s EXCEPT !.pending = escaped]
    OBVIOUS
  <2>4. [s EXCEPT !.pending.buf = Append(@, "\""), !.pending.done = TRUE] = [s EXCEPT !.pending = quoted]
    BY <1>1 DEF Struct, Names
  <2>5. done.kind = p.kind /\ grown.kind = p.kind /\ quoted.kind = p.kind /\ escaped.kind = p.kind
    <3>1. p \in Pending
      BY Fields
    <3> QED BY <3>1 DEF Pending, TopSet, StrSet, NumSet, WordSet, NoPending
  <2> HIDE DEF done, grown, quoted, escaped, lost
  <2>6. feed_top_pending(s, c) \in
          {lost, [s EXCEPT !.pending = done], [s EXCEPT !.pending = grown],
           [s EXCEPT !.pending = quoted], [s EXCEPT !.pending = escaped],
           [s EXCEPT !.top_clean = FALSE, !.pending = NoPending]}
    BY <2>1, <2>2, <2>3, <2>4 DEF feed_top_pending, TopRun, lost
  <2> QED BY <2>5, <2>6
<1>3. CASE feed_top_pending(s, c) = [s EXCEPT !.pending = x] /\ x.kind = s.pending.kind
  <2>1. ShortToken(x)
    BY <1>3 DEF ShortToken
  <2>2. Brief(s, [s EXCEPT !.pending = x])
    BY <1>1, <2>1, FieldsAreBrief DEF WithPending
  <2> QED BY <1>3, <2>2, BriefFalls
<1>4. CASE feed_top_pending(s, c) = [s EXCEPT !.top_clean = FALSE, !.pending = NoPending]
  <2>1. Brief(s, [s EXCEPT !.top_clean = FALSE, !.pending = NoPending])
    BY <1>1 DEF Brief, Struct, Names, ShortToken, NoPending
  <2> QED BY <1>4, <2>1, BriefFalls
<1>5. CASE feed_top_pending(s, c) = lost
  <2>1. /\ Struct(t) /\ t.pos = s.pos /\ t.pending = NoPending /\ t.comment = s.comment
        /\ t.empty_pending = s.empty_pending /\ t.paren_gate = s.paren_gate /\ t.replay = s.replay
    BY <1>1 DEF Struct, Names
  <2>2. lost \in {t, Replay(t, <<c>>)}
    BY DEF Prose
  <2> HIDE DEF t, lost
  <2>3. Brief(s, t)
    BY <2>1 DEF Brief, ShortToken, NoPending
  <2>4. PosWeight(t) = PosWeight(s) /\ PendingWeight(t.pending) = 0 /\ PendingWeight(s.pending) = 4
    BY <2>1, TopWeighs DEF PosWeight, PendingWeight, NoPending
  <2>5. Falls(s, t)
    BY <2>3, BriefFalls
  <2>6. Falls(s, Replay(t, <<c>>))
    BY <2>1, <2>4, TokenGoes, LoadIs
  <2> QED BY <1>5, <2>2, <2>5, <2>6
<1> QED BY <1>2, <1>3, <1>4, <1>5

\* With no token pending any more, nothing else that is weighed differs.
LEMMA IdleWeighs ==
  ASSUME NEW s, Struct(s)
  PROVE  LET t == [s EXCEPT !.pending = NoPending]
         IN  /\ Struct(t) /\ t.pending = NoPending /\ t.pos = s.pos /\ t.comment = s.comment
             /\ t.empty_pending = s.empty_pending /\ t.paren_gate = s.paren_gate
             /\ t.replay = s.replay /\ t.frames = s.frames
BY DEF Struct, Names

\* What one token of text leaves when it is over.
Parted(s, t) ==
  /\ Struct(t) /\ t.pending = s.pending /\ t.comment = s.comment
  /\ t.empty_pending = s.empty_pending /\ t.paren_gate = s.paren_gate /\ t.replay = s.replay

\* A value is written, or a number taken back: what follows it is awaited.
LEMMA ValueEnds ==
  ASSUME NEW s, Struct(s), NEW t, Even(s, t)
  PROVE  LET u == [t EXCEPT !.pos = "AfterValue"]
         IN  Parted(s, u) /\ u.pos = "AfterValue"
BY DEF Even, Parted, Struct, Names

\* A number is over.
LEMMA FinishWeighs ==
  ASSUME NEW s, Struct(s), NEW text, NEW key
  PROVE  LET t == finish_number(s, text, key)
         IN  Parted(s, t) /\ (~key => t.pos = "AfterValue")
<1> DEFINE e(x) == Emit(s, x)
           gone == drop_dangling_member(s)
           back == retract_in_flight_member(s)
           name == StrTok(DropUntil(NoUnderscore(text), Alnum))
           num  == render_number_value(text)
           key_ == [e(name) EXCEPT !.last_key_empty = FALSE, !.pos = "Colon"]
           back_ == [back EXCEPT !.pos = "AfterValue"]
           num_ == [e(num) EXCEPT !.pos = "AfterValue"]
<1>1. /\ key => finish_number(s, text, key) \in {gone, key_}
      /\ ~key => finish_number(s, text, key) \in {back_, num_}
  BY DEF finish_number
<1>2. Parted(s, gone)
  BY DanglingWeighs DEF Parted
<1>3. Even(s, e(name)) /\ Even(s, e(num)) /\ Even(s, back)
  BY EditsAreEven, MembersAreEven
<1> HIDE DEF e, name, num, back, gone
<1>4. Parted(s, key_)
  BY <1>3 DEF Even, Parted, Struct, Names
<1>5. Parted(s, back_) /\ back_.pos = "AfterValue" /\ Parted(s, num_) /\ num_.pos = "AfterValue"
  BY <1>3, ValueEnds
<1> HIDE DEF key_, back_, num_
<1> QED BY <1>1, <1>2, <1>4, <1>5

\* Texts of no character and of one.
LEMMA Slices ==
  ASSUME NEW text \in Text, NEW c \in Token
  PROVE  /\ SubSeq(text, Len(text) + 1, Len(text)) \in Text
         /\ Len(SubSeq(text, Len(text) + 1, Len(text))) = 0
         /\ \A n \in Nat \ {0} : n <= Len(text) =>
              SubSeq(text, n, n) \in Text /\ Len(SubSeq(text, n, n)) = 1
         /\ \A b \in Text : Len(Append(b, c)) = Len(b) + 1
<1> DEFINE n == Len(text)
<1>1. text \in Seq(Token) /\ n \in Nat /\ n = Len(text)
  BY TextIs DEF Text
<1> HIDE DEF n
<1>2. SubSeq(text, n + 1, n) \in Seq(Token) /\ Len(SubSeq(text, n + 1, n)) = 0
  BY <1>1
<1>3. ASSUME NEW k \in Nat \ {0}, k <= n
      PROVE  SubSeq(text, k, k) \in Seq(Token) /\ Len(SubSeq(text, k, k)) = 1
  BY <1>1, <1>3
<1>4. \A b \in Seq(Token) : Len(Append(b, c)) = Len(b) + 1
  OBVIOUS
<1> QED BY <1>1, <1>2, <1>3, <1>4 DEF Text

\* What a number run gives back is its last character at most, and never the only one.
LEMMA GivenBack ==
  ASSUME NEW text \in Text, NEW c \in Token, NEW run, run \in {text, Rolled(text)},
         NEW back, back = SubSeq(text, Len(run) + 1, Len(text)),
         NEW rest, run = <<>> => Len(rest) = 1, run # <<>> => rest = Append(back, c)
  PROVE  Len(rest) = 1 \/ (Len(rest) = 2 /\ Len(text) > 1 /\ run # text)
<1> DEFINE cut == SubSeq(text, 1, Len(text) - 1)
<1>1. Len(text) \in Nat /\ (text # <<>> => Len(text) > 0)
  BY TextIs DEF Text
<1>2. run = text \/ (run = cut /\ text # <<>> /\ run # text)
  BY DEF Rolled
<1>3. CASE run = <<>>
  BY <1>3
<1>4. CASE run # <<>> /\ run = text
  <2>1. back = SubSeq(text, Len(text) + 1, Len(text)) /\ rest = Append(back, c)
    BY <1>4
  <2>2. back \in Text /\ Len(back) = 0
    BY <2>1, Slices
  <2>3. Len(rest) = Len(back) + 1
    BY <2>1, <2>2, Slices
  <2> QED BY <2>2, <2>3
<1>5. CASE run # <<>> /\ run = cut /\ text # <<>> /\ run # text
  <2>1. Len(text) \in Nat \ {0} /\ Len(cut) = Len(text) - 1 /\ cut \in Text
    <3>1. Len(text) - 1 \in Nat /\ Len(text) - 1 <= Len(text)
      BY <1>1, <1>5
    <3> QED BY <1>1, <1>5, <3>1, Joins
  <2>2. Len(text) > 1
    <3>1. Len(cut) # 0
      BY <1>5, <2>1 DEF Text
    <3> QED BY <2>1, <3>1
  <2>3. back = SubSeq(text, Len(text), Len(text)) /\ rest = Append(back, c)
    <3>1. Len(run) + 1 = Len(text)
      BY <1>5, <2>1
    <3> QED BY <1>5, <3>1
  <2>4. back \in Text /\ Len(back) = 1
    <3>1. Len(text) <= Len(text)
      BY <1>1
    <3> QED BY <2>1, <2>3, <3>1, Slices
  <2>5. Len(rest) = Len(back) + 1
    BY <2>3, <2>4, Slices
  <2>6. Len(rest) = 2
    BY <2>4, <2>5
  <2> QED BY <1>5, <2>2, <2>6
<1> QED BY <1>2, <1>3, <1>4, <1>5

\* A token of some weight grows into any other.
LEMMA GrownFalls ==
  ASSUME NEW s \in Machine, GateHolds(s), s.replay = <<>>, PendingWeight(s.pending) > 1, NEW x
  PROVE  Falls(s, WithPending(s, x))
<1> DEFINE t == WithPending(s, x)
<1>1. Struct(s) /\ GateWeight(s.paren_gate) \in Nat
  BY MachineIsStruct, GateWeighs
<1>2. /\ t.pending = x /\ t.pos = s.pos /\ t.comment = s.comment /\ t.replay = s.replay
      /\ t.empty_pending = s.empty_pending /\ t.paren_gate = s.paren_gate
  BY <1>1 DEF WithPending, Struct, Names
<1> HIDE DEF t
<1>3. /\ PosWeight(t) = PosWeight(s) /\ CommentWeight(t) = CommentWeight(s)
      /\ ArmedWeight(t) = ArmedWeight(s)
  BY <1>2 DEF PosWeight, CommentWeight, ArmedWeight
<1>4. Load(t) < Load(s) + Weight
  BY <1>3, LoadIs DEF Load, Weight
<1>5. Len(t.replay) = 0 /\ GateHolds(t)
  BY <1>2 DEF GateHolds
<1>6. Falls(s, t)
  BY <1>1, <1>2, <1>4, <1>5, LoadIs DEF Falls, Heft, Weight
<1> QED BY <1>6 DEF t

\* A character of a number run.
LEMMA NumberFalls ==
  ASSUME NEW s \in Machine, GateHolds(s), s.replay = <<>>, s.pending.kind = "Num", NEW c \in Token
  PROVE  Falls(s, feed_number(s, c))
<1> DEFINE p    == s.pending
           more == Append(p.text, c)
           run  == IF p.key THEN p.text ELSE Rolled(p.text)
           back == SubSeq(p.text, Len(run) + 1, Len(p.text))
           idle == [s EXCEPT !.pending = NoPending]
           taken == retract_in_flight_member(idle)
           gone == [taken EXCEPT !.pos = "AfterValue"]
           rest == IF run = <<>> THEN <<c>> ELSE Append(back, c)
           done == finish_number(idle, run, p.key)
<1>1. p \in NumSet
  <2>1. p \in Pending
    BY Fields
  <2> QED BY <2>1, PendingKinds
<1>2. p.text \in Text /\ p.key \in BOOLEAN
  BY <1>1 DEF NumSet
<1>3. PendingWeight(p) \in {4, Weight + 1} /\ (Len(p.text) > 1 => PendingWeight(p) = Weight + 1)
  BY DEF PendingWeight
<1>4. \/ \E x : feed_number(s, c) = WithPending(s, x)
      \/ feed_number(s, c) \in {Replay(gone, <<c>>), Replay(done, rest)}
  <2>1. feed_number(s, c) \in
          {WithPending(s, NumPending(more, p.key)), WithPending(s, WordPending(p.text, TRUE, TRUE)),
           WithPending(s, WordPending(more, TRUE, TRUE)), WithPending(s, NumPending(more, FALSE)),
           WithPending(s, WordPending(more, FALSE, TRUE)), Replay(gone, <<c>>), Replay(done, rest)}
    BY DEF feed_number
  <2> HIDE DEF more, p, gone, done, rest
  <2> QED BY <2>1
<1>5. /\ Struct(idle) /\ idle.pending = NoPending /\ idle.pos = s.pos /\ idle.comment = s.comment
      /\ idle.empty_pending = s.empty_pending /\ idle.paren_gate = s.paren_gate
      /\ idle.replay = s.replay
  BY MachineIsStruct, IdleWeighs
<1>6. PendingWeight(NoPending) = 0
  BY DEF PendingWeight, NoPending
<1>7. Len(rest) = 1 \/ (Len(rest) = 2 /\ Len(p.text) > 1 /\ ~p.key)
  <2> HIDE DEF p, run, back, rest, more, idle, taken, gone, done
  <2>1. run \in {p.text, Rolled(p.text)} /\ (p.key => run = p.text)
    BY DEF run
  <2>2. back = SubSeq(p.text, Len(run) + 1, Len(p.text))
    BY DEF back
  <2>3. run # <<>> => rest = Append(back, c)
    BY DEF rest
  <2>4. run = <<>> => rest = <<c>>
    BY DEF rest
  <2>5. run = <<>> => Len(rest) = 1
    BY <2>4
  <2>6. Len(rest) = 1 \/ (Len(rest) = 2 /\ Len(p.text) > 1 /\ run # p.text)
    BY <1>2, <2>1, <2>2, <2>3, <2>5, GivenBack
  <2> QED BY <2>1, <2>6
<1> HIDE DEF idle, run, rest, p
<1>8. CASE \E x : feed_number(s, c) = WithPending(s, x)
  <2>1. PendingWeight(s.pending) > 1
    BY <1>3 DEF Weight, p
  <2> QED BY <1>8, <2>1, GrownFalls
<1>9. CASE feed_number(s, c) = Replay(gone, <<c>>)
  <2>1. Even(idle, taken)
    BY <1>5, MembersAreEven
  <2> HIDE DEF taken
  <2>2. Parted(idle, gone) /\ gone.pos = "AfterValue"
    BY <1>5, <2>1, ValueEnds
  <2> HIDE DEF gone
  <2>3. PosWeight(gone) = 0 /\ PendingWeight(gone.pending) = 0 /\ PendingWeight(s.pending) > 0
    BY <1>3, <1>5, <1>6, <2>2 DEF PosWeight, Parted, Weight, p
  <2>3a. PosWeight(gone) + PendingWeight(gone.pending) < PosWeight(s) + PendingWeight(s.pending)
    <3>1. PosWeight(s) \in 0..2 /\ PendingWeight(s.pending) \in Nat
      BY LoadIs DEF Weight
    <3> HIDE DEF gone, done
    <3> QED BY <2>3, <3>1
  <2>3b. /\ Struct(gone) /\ gone.comment = s.comment /\ gone.empty_pending = s.empty_pending
         /\ gone.paren_gate = s.paren_gate
    BY <1>5, <2>2 DEF Parted
  <2>4. Falls(s, Replay(gone, <<c>>))
    BY <2>3a, <2>3b, TokenGoes
  <2> QED BY <1>9, <2>4
<1>10. CASE feed_number(s, c) = Replay(done, rest)
  <2>1. Parted(idle, done) /\ (~p.key => done.pos = "AfterValue")
    BY <1>5, FinishWeighs
  <2> HIDE DEF done
  <2> DEFINE u == Replay(done, rest)
  <2>2. u.replay = rest /\ u.paren_gate = done.paren_gate /\ Load(u) = Load(done)
    BY <2>1, ReplayWeighs DEF Parted
  <2> HIDE DEF u
  <2>3. /\ PendingWeight(done.pending) = 0 /\ CommentWeight(done) = CommentWeight(s)
        /\ ArmedWeight(done) = ArmedWeight(s) /\ done.paren_gate = s.paren_gate
        /\ (~p.key => PosWeight(done) = 0)
    <3>1. /\ done.pending = NoPending /\ done.comment = s.comment
          /\ done.empty_pending = s.empty_pending /\ done.paren_gate = s.paren_gate
      BY <1>5, <2>1 DEF Parted
    <3> QED BY <1>6, <2>1, <3>1 DEF CommentWeight, ArmedWeight, PosWeight
  <2>4. Load(u) <= Load(s) - PendingWeight(p) + 2 /\ (~p.key => Load(u) <= Load(s) - PendingWeight(p))
    <3>1. PosWeight(done) <= PosWeight(s) + 2
      BY LoadIs
    <3>2. Load(u) = PosWeight(done) + CommentWeight(s) + ArmedWeight(s)
      BY <2>2, <2>3, LoadIs DEF Load
    <3>3. Load(s) = PosWeight(s) + PendingWeight(p) + CommentWeight(s) + ArmedWeight(s)
      BY DEF Load, p
    <3>4. PendingWeight(p) \in Nat
      BY <1>3 DEF Weight
    <3>5. PosWeight(done) \in 0..2 /\ PosWeight(s) \in 0..2 /\ CommentWeight(s) \in {0, 2}
          /\ ArmedWeight(s) \in {0, 1}
      BY LoadIs
    <3>6. ~p.key => PosWeight(done) = 0
      BY <2>3
    <3> HIDE DEF gone
    <3> QED BY <3>1, <3>2, <3>3, <3>4, <3>5, <3>6
  <2>5. CASE Len(rest) = 1
    <3>1. Load(u) < Load(s)
      BY <1>3, <2>4, LoadIs DEF Weight
    <3>2. Falls(s, u)
      BY <2>2, <2>3, <2>5, <3>1, AgainFalls
    <3> QED BY <1>10, <3>2 DEF u
  <2>6. CASE Len(rest) = 2 /\ Len(p.text) > 1 /\ ~p.key
    <3>1. Load(u) <= Load(s) - (Weight + 1)
      BY <1>3, <2>4, <2>6
    <3>2. GateWeight(s.paren_gate) \in Nat /\ u.paren_gate = s.paren_gate /\ Len(u.replay) = 2
      BY <2>2, <2>3, <2>6, GateWeighs
    <3>3. GateHolds(u)
      BY <3>2 DEF GateHolds
    <3>4. Falls(s, u)
      BY <3>1, <3>2, <3>3, LoadIs DEF Falls, Heft, Weight
    <3> QED BY <1>10, <3>4 DEF u
  <2> QED BY <1>7, <2>5, <2>6
<1> HIDE DEF gone, done
<1> QED BY <1>4, <1>8, <1>9, <1>10

\* A word grows, as a key or as a value.
LEMMA WordGrows ==
  ASSUME NEW s \in Machine, GateHolds(s), s.replay = <<>>, s.pending.kind = "Word", NEW c
  PROVE  Falls(s, WithPending(s, [s.pending EXCEPT !.text = Append(@, c)]))
<1> DEFINE more == [s.pending EXCEPT !.text = Append(@, c)]
<1>1. s.pending \in WordSet
  <2>1. s.pending \in Pending
    BY Fields
  <2> QED BY <2>1, PendingKinds
<1>2. more.kind = "Word"
  BY <1>1 DEF WordSet
<1> HIDE DEF more
<1>3. ShortToken(more)
  BY <1>2 DEF ShortToken
<1>4. Brief(s, WithPending(s, more))
  BY <1>3, MachineIsStruct, FieldsAreBrief
<1>5. Falls(s, WithPending(s, more))
  BY <1>4, BriefFalls
<1> QED BY <1>5 DEF more

\* A character of an unquoted key.
LEMMA KeyWordFalls ==
  ASSUME NEW s \in Machine, GateHolds(s), s.replay = <<>>, s.pending.kind = "Word",
         s.pending.key, NEW c
  PROVE  Falls(s, key_word(s, c))
<1> DEFINE idle == [s EXCEPT !.pending = NoPending]
           name == KeyName(s.pending.text)
           keep == WithPending(s, [s.pending EXCEPT !.text = Append(@, c)])
           gone == drop_dangling_member(idle)
           toks == StrTok(name) \o <<ColonTok>>
           e    == Emit(s, toks)
           key  == [e EXCEPT !.pos = "MemberValue", !.pending = NoPending]
           committed == [key EXCEPT !.last_key_empty = FALSE]
<1>1. key_word(s, c) \in {Replay(gone, <<c>>), committed, key, keep}
  BY DEF key_word, CommitKey
<1>2. Falls(s, keep)
  BY WordGrows
<1> HIDE DEF keep
<1>3. Struct(s) /\ Even(s, e) /\ Struct(e)
  BY MachineIsStruct, EditsAreEven DEF Even
<1> HIDE DEF e
<1>4. /\ Struct(key) /\ key.replay = s.replay /\ key.pending = NoPending
      /\ key.paren_gate = s.paren_gate
  BY <1>3 DEF Even, Struct, Names
<1>5. Brief(s, key)
  BY <1>4 DEF Brief, ShortToken, NoPending
<1> HIDE DEF key
<1>6. Brief(key, committed)
  BY <1>4 DEF Brief, Struct, Names
<1>7. Falls(s, key) /\ Falls(s, committed)
  <2>1. Brief(s, committed)
    BY <1>5, <1>6, BriefOn
  <2> HIDE DEF committed
  <2> QED BY <1>5, <2>1, BriefFalls
<1> HIDE DEF committed
<1>8. /\ Struct(idle) /\ idle.pending = NoPending /\ idle.pos = s.pos /\ idle.comment = s.comment
      /\ idle.empty_pending = s.empty_pending /\ idle.paren_gate = s.paren_gate
  BY <1>3, IdleWeighs
<1> HIDE DEF idle
<1>9. /\ Struct(gone) /\ gone.pending = NoPending /\ gone.comment = s.comment
      /\ gone.empty_pending = s.empty_pending /\ gone.paren_gate = s.paren_gate
      /\ gone.pos \in {s.pos, "Key"}
  BY <1>8, DanglingWeighs
<1> HIDE DEF gone
<1>10. PosWeight(gone) + PendingWeight(gone.pending) < PosWeight(s) + PendingWeight(s.pending)
  <2>1. PendingWeight(gone.pending) = 0 /\ PendingWeight(s.pending) = 3
    BY <1>9 DEF PendingWeight, NoPending
  <2>2. PosWeight(gone) \in 0..2 /\ PosWeight(s) \in 0..2
    BY LoadIs
  <2> QED BY <2>1, <2>2
<1>11. Falls(s, Replay(gone, <<c>>))
  BY <1>9, <1>10, TokenGoes
<1> QED BY <1>1, <1>2, <1>7, <1>11

\* A character of an unquoted value.
LEMMA ValueWordFalls ==
  ASSUME NEW s \in Machine, GateHolds(s), s.replay = <<>>, s.pending.kind = "Word",
         ~s.pending.key, NEW c
  PROVE  Falls(s, value_word(s, c))
<1> DEFINE p    == s.pending
           idle == [s EXCEPT !.pending = NoPending]
           w    == Trim(p.text)
           commas == GluedComma(p)
           i    == FirstOf(commas)
           head == render_word(Trim(SubSeq(p.text, 1, i - 1)), TRUE)
           rest == Trim(SubSeq(p.text, i + 1, Len(p.text)))
           e    == Emit(idle, head)
           t    == begin_common(e)
           next == WithPending(t, WordPending(rest, TRUE, FALSE))
           written(toks) == [Emit(idle, toks) EXCEPT !.pos = "AfterValue"]
           keep == WithPending(s, [p EXCEPT !.text = Append(@, c)])
<1>1. PICK toks : value_word(s, c) \in
                    {Replay(next, <<c>>), Replay(written(toks), <<c>>), keep}
  BY DEF value_word
<1>2. Falls(s, keep)
  BY WordGrows
<1> HIDE DEF keep
<1>3. PendingWeight(s.pending) = 4 /\ PendingWeight(NoPending) = 0
  BY DEF PendingWeight, NoPending
<1>4. /\ Struct(idle) /\ idle.pending = NoPending /\ idle.pos = s.pos /\ idle.comment = s.comment
      /\ idle.empty_pending = s.empty_pending /\ idle.paren_gate = s.paren_gate
  BY MachineIsStruct, IdleWeighs
<1> HIDE DEF idle, head, rest, p
<1>5. Falls(s, Replay(written(toks), <<c>>))
  <2> DEFINE u == Emit(idle, toks)
             v == [u EXCEPT !.pos = "AfterValue"]
  <2>1. Even(idle, u)
    BY <1>4, EditsAreEven
  <2> HIDE DEF u
  <2>2. Parted(idle, v) /\ v.pos = "AfterValue"
    BY <1>4, <2>1, ValueEnds
  <2> HIDE DEF v
  <2>3. /\ Struct(v) /\ v.comment = s.comment /\ v.pending = NoPending
        /\ v.empty_pending = s.empty_pending /\ v.paren_gate = s.paren_gate
    BY <1>4, <2>2 DEF Parted
  <2>4. PosWeight(v) = 0 /\ PosWeight(s) \in 0..2 /\ PendingWeight(v.pending) = 0
    BY <1>3, <2>2, <2>3, LoadIs DEF PosWeight
  <2>5. PosWeight(v) + PendingWeight(v.pending) < PosWeight(s) + PendingWeight(s.pending)
    BY <1>3, <2>4
  <2>6. Falls(s, Replay(v, <<c>>))
    BY <2>3, <2>5, TokenGoes
  <2> QED BY <2>6 DEF u, v
<1>6. Falls(s, Replay(next, <<c>>))
  <2>1. Even(idle, e) /\ Struct(e)
    BY <1>4, EditsAreEven DEF Even
  <2> HIDE DEF e
  <2>2. Even(e, t)
    BY <2>1, MembersAreEven
  <2> HIDE DEF t
  <2>3. Even(idle, t) /\ Struct(t)
    BY <2>1, <2>2, EvenOn DEF Even
  <2> DEFINE x == WordPending(rest, TRUE, FALSE)
  <2>4. PendingWeight(x) = 3
    BY DEF PendingWeight, WordPending
  <2> HIDE DEF x
  <2>5. /\ Struct(next) /\ next.pos = s.pos /\ next.pending = x /\ next.comment = s.comment
        /\ next.empty_pending = s.empty_pending /\ next.paren_gate = s.paren_gate
    <3> DEFINE n == WithPending(t, x)
    <3>1. /\ Struct(n) /\ n.pos = t.pos /\ n.pending = x /\ n.comment = t.comment
          /\ n.empty_pending = t.empty_pending /\ n.paren_gate = t.paren_gate
      BY <2>3 DEF WithPending, Struct, Names
    <3> HIDE DEF n
    <3>2. next = n
      BY DEF n, x
    <3> HIDE DEF next
    <3> QED BY <1>4, <2>3, <3>1, <3>2 DEF Even
  <2> HIDE DEF next
  <2>6. PosWeight(next) = PosWeight(s) /\ PosWeight(s) \in 0..2
    BY <2>5, LoadIs DEF PosWeight
  <2>7. PosWeight(next) + PendingWeight(next.pending) < PosWeight(s) + PendingWeight(s.pending)
    BY <1>3, <2>4, <2>5, <2>6
  <2> QED BY <2>5, <2>7, TokenGoes
<1> HIDE DEF next, written
<1> QED BY <1>1, <1>2, <1>5, <1>6

\* A character of a token.
LEMMA AnyPendingFalls ==
  ASSUME NEW s \in Machine, GateHolds(s), s.replay = <<>>, s.pending.kind # "none", NEW c \in Token
  PROVE  Falls(s, feed_pending(s, c))
<1>1. s.pending.kind \in {"Num", "Word", "TopNum", "TopWord", "TopStr"}
  <2>1. s.pending \in Pending
    BY Fields
  <2> QED BY <2>1 DEF Pending, TopSet, StrSet, NumSet, WordSet, NoPending
<1>2. \/ s.pending.kind = "Num" /\ feed_pending(s, c) = feed_number(s, c)
      \/ s.pending.kind = "Word" /\ s.pending.key /\ feed_pending(s, c) = key_word(s, c)
      \/ s.pending.kind = "Word" /\ ~s.pending.key /\ feed_pending(s, c) = value_word(s, c)
      \/ s.pending.kind \in {"TopNum", "TopWord", "TopStr"}
         /\ feed_pending(s, c) = feed_top_pending(s, c)
  BY <1>1 DEF feed_pending
<1> QED BY <1>2, NumberFalls, KeyWordFalls, ValueWordFalls, TopPendingFalls

\* A character in a string.
LEMMA InStringIsBrief ==
  ASSUME NEW s0, Struct(s0), NEW c
  PROVE  Brief(s0, feed_string(s0, c))
<1> DEFINE s == [s0 EXCEPT !.string_raw_tail = c]
           w == Emit(s, <<Escaped(c)>>)
           shut == [s EXCEPT !.string = [open |-> FALSE]]
           quote == <<"\"">>
           t == Emit(shut, quote)
           key == [t EXCEPT !.pos = "Colon", !.last_key_empty = s.last_string_start = Len(t.out) - 1]
           val == [t EXCEPT !.pos = "AfterValue"]
<1>1. feed_string(s0, c) \in {w, arm_empty_pending(key, FALSE), arm_empty_pending(val, FALSE)}
  BY DEF feed_string
<1> HIDE DEF quote
<1>2. Brief(s0, s) /\ Struct(s)
  BY DEF Brief, Struct, Names
<1> HIDE DEF s
<1>3. Brief(s0, w)
  <2>1. Brief(s, w)
    BY <1>2, EditsAreEven, EvenIsBrief
  <2> QED BY <1>2, <2>1, BriefOn
<1> HIDE DEF w
<1>4. Brief(s, shut) /\ Struct(shut)
  BY <1>2 DEF Brief, Struct, Names
<1> HIDE DEF shut
<1>5. Brief(s0, t) /\ Struct(t)
  <2>1. Brief(shut, t) /\ Struct(t)
    BY <1>4, EditsAreEven, EvenIsBrief DEF Brief
  <2> HIDE DEF t
  <2> QED BY <1>2, <1>4, <2>1, BriefOn
<1> DEFINE empty == s.last_string_start = Len(t.out) - 1
<1> HIDE DEF t, empty
<1>6. Brief(s0, key) /\ Struct(key) /\ Brief(s0, val) /\ Struct(val)
  <2>1. \A x : Brief(t, [t EXCEPT !.pos = "Colon", !.last_key_empty = x])
    BY <1>5 DEF Brief, Struct, Names
  <2>2. Brief(t, val)
    BY <1>5, FieldsAreBrief
  <2>3. Brief(t, key)
    BY <2>1
  <2> HIDE DEF key, val
  <2> QED BY <1>5, <2>2, <2>3, BriefOn DEF Brief
<1> HIDE DEF key, val
<1>7. Brief(s0, arm_empty_pending(key, FALSE)) /\ Brief(s0, arm_empty_pending(val, FALSE))
  BY <1>6, OpensAreBrief, BriefOn
<1> QED BY <1>1, <1>3, <1>7

\* The weight of a machine.
LEMMA HeftIs ==
  ASSUME NEW s \in Machine
  PROVE  Heft(s) \in Nat /\ Len(s.replay) \in Nat
<1>1. s.replay \in Text
  BY DEF Machine
<1> QED BY <1>1, GateWeighs, LoadIs, TextIs DEF Heft

\* It falls from any heavier machine as well.
LEMMA FallsFrom ==
  ASSUME NEW s0 \in Machine, NEW s \in Machine, NEW t \in Machine, Heft(s) <= Heft(s0), Falls(s, t)
  PROVE  Falls(s0, t)
BY HeftIs DEF Falls, Weight

\* What weighs nothing, weighed.
LEMMA EvenWeighs ==
  ASSUME NEW s, NEW t, Even(s, t)
  PROVE  Load(t) = Load(s) /\ Heft(t) = Heft(s) /\ (GateHolds(s) => GateHolds(t))
<1>1. Load(t) = Load(s)
  BY DEF Even, Load, PosWeight, CommentWeight, ArmedWeight
<1> QED BY <1>1 DEF Even, Heft, GateHolds

\* A character inside the machine.
LEMMA InnerFalls ==
  ASSUME NEW s0, Placed(s0), s0.paren_gate.kind = "none", s0.replay = <<>>, NEW c \in Token,
         s0.empty_pending.armed => c \in Whitespace
  PROVE  Falls(s0, process_inner(s0, c))
<1> DEFINE over == [s0 EXCEPT !.garbage_run = FALSE]
           s == Counted(s0, c)
<1>1. s0 \in Machine /\ Struct(s0) /\ GateHolds(s0)
  BY Bodies, MachineIsStruct DEF Placed, GateHolds
<1>2. InnerOf(s0, s, over, process_inner(s0, c), c)
  BY InnerIs
<1>3. Falls(s0, s0) /\ Falls(s0, pop_frame(over))
  <2>1. Brief(s0, s0)
    BY <1>1 DEF Brief
  <2>2. Brief(s0, over) /\ Struct(over)
    BY <1>1 DEF Brief, Struct, Names
  <2> HIDE DEF over
  <2>3. Brief(s0, pop_frame(over))
    BY <2>2, PopIsBrief, BriefOn
  <2> QED BY <1>1, <2>1, <2>3, BriefFalls
<1>4. Even(s0, s)
  <2>1. PICK x : s = [s0 EXCEPT !.garbage_run = FALSE, !.frames = x]
    BY Zenon DEF Counted
  <2> HIDE DEF s
  <2> QED BY <1>1, <2>1 DEF Even, Struct, Names
<1>5. Calm(s) /\ s.empty_pending = s0.empty_pending
  BY CountedIsCalm
<1> HIDE DEF over, s
<1>6. s \in Machine /\ Struct(s) /\ GateHolds(s) /\ s.replay = <<>> /\ Heft(s) <= Heft(s0)
  <2>1. s \in Machine
    BY <1>5, Bodies DEF Calm, Placed
  <2>2. Heft(s) = Heft(s0) /\ Heft(s0) \in Nat
    BY <1>1, <1>4, EvenWeighs, HeftIs
  <2> QED BY <1>1, <1>4, <2>1, <2>2, EvenWeighs DEF Even
<1>7. /\ s.comment.kind # "none" => Falls(s, feed_comment(s, c))
      /\ Falls(s, feed_string(s, c)) /\ Falls(s, feed_top(s, c))
      /\ s.pending.kind # "none" => Falls(s, feed_pending(s, c))
  <2>1. Brief(s, feed_string(s, c)) /\ Brief(s, feed_top(s, c))
    BY <1>6, InStringIsBrief, TopIsBrief
  <2>2. Falls(s, feed_string(s, c)) /\ Falls(s, feed_top(s, c))
    BY <1>6, <2>1, BriefFalls
  <2> QED BY <1>6, <2>2, CommentFalls, AnyPendingFalls
<1>8. s.comment.kind = "none" /\ ~s.string.open /\ s.pending.kind = "none" /\ s.frames # <<>> =>
        Falls(s, feed_structure(s, c))
  BY <1>5, <1>6, StructureFalls DEF Bare
<1>9. process_inner(s0, c) \in Machine
  BY InnerPlaced, Bodies DEF Placed
<1>10. Falls(s, process_inner(s0, c)) => Falls(s0, process_inner(s0, c))
  BY <1>1, <1>6, <1>9, FallsFrom
<1> QED BY <1>2, <1>3, <1>7, <1>8, <1>10 DEF InnerOf

\* A container opens: the position may gain, the gate, token and comment stay.
LEMMA OpenWeighs ==
  ASSUME NEW s, Struct(s), NEW k
  PROVE  LET t == open_container(s, k)
         IN  Struct(t) /\ t.paren_gate = s.paren_gate /\ Load(t) <= Load(s) + 2
<1> DEFINE bracket == <<IF k = "Obj" THEN "{" ELSE "[">>
           e == Emit(s, bracket)
           err == [s EXCEPT !.error = TRUE]
<1>1. Even(s, e) /\ Struct(e)
  BY EditsAreEven DEF Even
<1>2. PICK x, y : open_container(s, k) \in {err, [e EXCEPT !.pos = x, !.frames = y]}
  BY Zenon DEF open_container
<1> DEFINE u == [e EXCEPT !.pos = x, !.frames = y]
<1> HIDE DEF e
<1>3. /\ Struct(err) /\ err.pos = s.pos /\ err.pending = s.pending /\ err.comment = s.comment
      /\ err.empty_pending = s.empty_pending /\ err.paren_gate = s.paren_gate
  BY DEF Struct, Names
<1>4. /\ Struct(u) /\ u.pending = s.pending /\ u.comment = s.comment
      /\ u.empty_pending = s.empty_pending /\ u.paren_gate = s.paren_gate
  BY <1>1 DEF Even, Struct, Names
<1>5. open_container(s, k) \in {err, u}
  BY <1>2
<1> HIDE DEF err, u
<1>6. ASSUME NEW t, t.pending = s.pending, t.comment = s.comment, t.empty_pending = s.empty_pending
      PROVE  Load(t) <= Load(s) + 2
  <2>1. CommentWeight(t) = CommentWeight(s) /\ ArmedWeight(t) = ArmedWeight(s)
    BY <1>6 DEF CommentWeight, ArmedWeight
  <2> QED BY <1>6, <2>1, LoadIs DEF Load, Weight
<1> QED BY <1>3, <1>4, <1>5, <1>6

\* What the gate held back is read again, with the gate off.
LEMMA GateOpens ==
  ASSUME NEW s0 \in Machine, GateHolds(s0), s0.paren_gate.kind = "FirstChar",
         NEW t, Struct(t), t.paren_gate.kind = "none", Load(t) <= Load(s0) + 2,
         NEW x, Len(x) \in Nat, Len(x) <= Len(s0.paren_gate.buf) + 1
  PROVE  Falls(s0, Replay(t, x))
<1> DEFINE u == Replay(t, x)
           n == Len(s0.paren_gate.buf)
<1>1. u.replay = x /\ u.paren_gate = t.paren_gate /\ Load(u) = Load(t)
  BY ReplayWeighs
<1> HIDE DEF u
<1>2. n \in 0..4
  <2>1. s0.paren_gate \in Gate
    BY Fields
  <2>2. n \in Nat
    BY <2>1, TextIs DEF Gate
  <2>3. n <= 4
    BY DEF GateHolds
  <2> HIDE DEF n
  <2> QED BY <2>2, <2>3
<1>3. Heft(s0) = Load(s0) + 8 + 19 * n
  <2>1. GateWeight(s0.paren_gate) = 8 + 19 * n
    BY <1>2 DEF GateWeight, Weight
  <2> HIDE DEF n
  <2> QED BY <1>2, <2>1, LoadIs DEF Heft
<1>4. Heft(u) = Load(t) /\ GateHolds(u) /\ Len(u.replay) = Len(x)
  <2>1. GateWeight(u.paren_gate) = 0
    BY <1>1 DEF GateWeight
  <2> QED BY <1>1, <2>1, LoadIs DEF Heft, GateHolds
<1> HIDE DEF n
<1>5. Load(t) \in Nat /\ Load(s0) \in Nat
  BY LoadIs
<1>6. Len(x) <= n + 1
  BY DEF n
<1>7. Load(t) + 20 * Len(x) < 20 + (Load(s0) + 8 + 19 * n)
  BY <1>2, <1>5, <1>6
<1>8. Falls(s0, u)
  BY <1>3, <1>4, <1>7 DEF Falls, Weight
<1> QED BY <1>8 DEF u

\* The gate takes in a character, or decides.
LEMMA FirstCharFalls ==
  ASSUME NEW s0 \in Machine, GateHolds(s0), s0.replay = <<>>,
         s0.paren_gate.kind = "FirstChar", NEW c \in Token
  PROVE  Falls(s0, paren_gate_first_char(s0, c))
<1> DEFINE none == [kind |-> "none"]
           s    == [s0 EXCEPT !.paren_gate = none]
           old  == s0.paren_gate.buf
           buf  == Append(old, c)
           gate == [kind |-> "FirstChar", buf |-> buf]
           hold == [s EXCEPT !.paren_gate = gate]
           unclean == [s EXCEPT !.top_clean = FALSE]
           group   == open_container(s, "Paren")
           one     == <<c>>
<1>1. old \in Text /\ Len(old) \in Nat /\ Len(buf) = Len(old) + 1 /\ Len(one) = 1
  <2>1. s0.paren_gate \in Gate
    BY Fields
  <2>2. old \in Text
    BY <2>1 DEF Gate
  <2>3. Len(old) \in Nat /\ Len(buf) = Len(old) + 1
    BY <2>2, TextIs, Slices
  <2> QED BY <2>2, <2>3
<1>2. \/ paren_gate_first_char(s0, c) = hold /\ Len(buf) <= 4
      \/ paren_gate_first_char(s0, c) \in {Replay(group, buf), Replay(group, one),
                                           Replay(unclean, buf), Replay(unclean, one)}
  <2> DEFINE literal == \/ Len(buf) >= 4 /\ Lower(SubSeq(buf, 1, 4)) \in Literals
                        \/ Len(buf) >= 5 /\ Lower(SubSeq(buf, 1, 5)) \in Literals
  <2>1. paren_gate_first_char(s0, c) =
          IF c \in Letters /\ Len(old) < 5
          THEN IF Len(buf) < 4 \/ (Len(buf) = 4 /\ ~literal) THEN hold
               ELSE IF literal THEN Replay(group, buf) ELSE Replay(unclean, buf)
          ELSE IF old # <<>> THEN Replay(unclean, buf)
          ELSE IF c \in {")", "{", "[", "("} \cup Quotes \cup NumberLead THEN Replay(group, one)
          ELSE Replay(unclean, one)
    BY DEF paren_gate_first_char
  <2> HIDE DEF hold, literal, group, unclean, buf, old, one
  <2>2. Len(buf) < 4 \/ Len(buf) = 4 => Len(buf) <= 4
    BY <1>1
  <2> QED BY <2>1, <2>2
<1>3. /\ Struct(s) /\ s.paren_gate = none /\ Load(s) = Load(s0) /\ s.replay = <<>>
  <2>1. Struct(s0)
    BY MachineIsStruct
  <2>2. /\ Struct(s) /\ s.paren_gate = none /\ s.replay = <<>> /\ s.pos = s0.pos
        /\ s.pending = s0.pending /\ s.comment = s0.comment /\ s.empty_pending = s0.empty_pending
    BY <2>1 DEF Struct, Names
  <2> HIDE DEF s
  <2> QED BY <2>2 DEF Load, PosWeight, CommentWeight, ArmedWeight
<1> HIDE DEF s, buf, one
<1>4. Struct(unclean) /\ unclean.paren_gate = none /\ Load(unclean) <= Load(s0) + 2
  <2>1. /\ Struct(unclean) /\ unclean.paren_gate = none /\ unclean.pos = s.pos
        /\ unclean.pending = s.pending /\ unclean.comment = s.comment
        /\ unclean.empty_pending = s.empty_pending
    BY <1>3 DEF Struct, Names
  <2> HIDE DEF unclean
  <2>2. Load(unclean) = Load(s)
    BY <2>1 DEF Load, PosWeight, CommentWeight, ArmedWeight
  <2> QED BY <1>3, <2>1, <2>2, LoadIs
<1>5. Struct(group) /\ group.paren_gate = none /\ Load(group) <= Load(s0) + 2
  BY <1>3, OpenWeighs
<1> HIDE DEF unclean, group
<1>6. /\ Falls(s0, Replay(group, buf)) /\ Falls(s0, Replay(unclean, buf))
      /\ Falls(s0, Replay(group, one)) /\ Falls(s0, Replay(unclean, one))
  <2>1. Len(buf) \in Nat /\ Len(buf) <= Len(old) + 1 /\ Len(one) \in Nat /\ Len(one) <= Len(old) + 1
    BY <1>1
  <2>2. none.kind = "none"
    OBVIOUS
  <2> HIDE DEF none
  <2> QED BY <1>4, <1>5, <2>1, <2>2, GateOpens
<1>7. ASSUME Len(buf) <= 4
      PROVE  Falls(s0, hold)
  <2>1. /\ Struct(hold) /\ hold.paren_gate = gate /\ hold.pos = s.pos /\ hold.replay = <<>>
        /\ hold.pending = s.pending /\ hold.comment = s.comment
        /\ hold.empty_pending = s.empty_pending
    BY <1>3 DEF Struct, Names
  <2> HIDE DEF hold
  <2>2. Load(hold) = Load(s0)
    BY <1>3, <2>1 DEF Load, PosWeight, CommentWeight, ArmedWeight
  <2>3. GateWeight(hold.paren_gate) = 8 + 19 * (Len(old) + 1)
    BY <1>1, <2>1 DEF GateWeight, Weight
  <2>4. GateWeight(s0.paren_gate) = 8 + 19 * Len(old)
    BY <1>1 DEF GateWeight, Weight
  <2>5. GateHolds(hold)
    BY <1>7, <2>1 DEF GateHolds
  <2> HIDE DEF old
  <2>6. Len(hold.replay) = 0
    BY <2>1
  <2> QED BY <1>1, <2>2, <2>3, <2>4, <2>5, <2>6, LoadIs DEF Falls, Heft, Weight
<1> HIDE DEF hold
<1> QED BY <1>2, <1>6, <1>7

\* The undecided top-level paren looks first.
LEMMA DispatchFalls ==
  ASSUME NEW s, Placed(s), GateHolds(s), s.replay = <<>>, NEW c \in Token,
         s.empty_pending.armed => c \in Whitespace
  PROVE  Falls(s, gate_or_inner(s, c))
<1> DEFINE off  == [kind |-> "none"]
           none == [s EXCEPT !.paren_gate = off]
           bare == [s EXCEPT !.paren_gate = off, !.out = <<>>, !.emitted = 0, !.top_clean = FALSE]
           again == Replay(bare, <<c>>)
           inner == process_inner(s, c)
<1>1. s \in Machine /\ s.paren_gate \in Gate /\ Struct(s)
  <2>1. s \in Machine
    BY Bodies DEF Placed
  <2> QED BY <2>1, Fields, MachineIsStruct
<1>2. s.paren_gate.kind \in {"none", "TailCheck", "FirstChar"}
  BY <1>1 DEF Gate
<1>3. \/ /\ s.paren_gate.kind = "FirstChar"
         /\ gate_or_inner(s, c) \in {s, paren_gate_first_char(s, c)}
      \/ /\ s.paren_gate.kind = "TailCheck"
         /\ gate_or_inner(s, c) \in {none, s, again}
      \/ /\ s.paren_gate.kind = "none"
         /\ gate_or_inner(s, c) = Settle(inner, c)
  BY <1>2 DEF gate_or_inner
<1> HIDE DEF again, inner
<1>4. Falls(s, s)
  <2>1. Brief(s, s)
    BY <1>1 DEF Brief
  <2> QED BY <1>1, <2>1, BriefFalls
<1>5. s.paren_gate.kind = "FirstChar" => Falls(s, paren_gate_first_char(s, c))
  BY <1>1, FirstCharFalls
<1>6. s.paren_gate.kind = "none" => Falls(s, Settle(inner, c))
  <2> SUFFICES ASSUME s.paren_gate.kind = "none" PROVE Falls(s, Settle(inner, c))
    OBVIOUS
  <2>1. Falls(s, inner)
    BY InnerFalls DEF inner
  <2>2. Struct(inner)
    <3>1. inner \in Machine
      BY InnerPlaced, Bodies DEF Placed, inner
    <3> QED BY <3>1, MachineIsStruct
  <2> DEFINE white == c \in Whitespace
             t == [inner EXCEPT !.prev_char_ws = white]
  <2>3. Settle(inner, c) \in {inner, t}
    BY DEF Settle
  <2> HIDE DEF white
  <2>4. Even(inner, t)
    BY <2>2 DEF Even, Struct, Names
  <2> HIDE DEF t
  <2>5. Falls(s, t)
    BY <2>1, <2>4, EvenWeighs DEF Falls, Even
  <2> QED BY <2>1, <2>3, <2>5
<1>7. s.paren_gate.kind = "TailCheck" => Falls(s, none) /\ Falls(s, again)
  <2> SUFFICES ASSUME s.paren_gate.kind = "TailCheck" PROVE Falls(s, none) /\ Falls(s, again)
    OBVIOUS
  <2>1. /\ none.paren_gate = off /\ none.replay = <<>> /\ none.pos = s.pos
        /\ none.pending = s.pending /\ none.comment = s.comment
        /\ none.empty_pending = s.empty_pending
    BY <1>1 DEF Struct, Names
  <2>2. /\ Struct(bare) /\ bare.paren_gate = off /\ bare.pos = s.pos
        /\ bare.pending = s.pending /\ bare.comment = s.comment
        /\ bare.empty_pending = s.empty_pending
    BY <1>1 DEF Struct, Names
  <2>3. GateWeight(off) = 0 /\ GateWeight(s.paren_gate) = 1 /\ off.kind = "none"
    BY DEF GateWeight
  <2> HIDE DEF none, bare, off
  <2>4. Load(none) = Load(s) /\ Load(bare) = Load(s)
    BY <2>1, <2>2 DEF Load, PosWeight, CommentWeight, ArmedWeight
  <2>5. again.replay = <<c>> /\ again.paren_gate = off /\ Load(again) = Load(s)
    BY <2>2, <2>4, ReplayWeighs DEF again
  <2>6. Heft(none) = Load(s) /\ Heft(again) = Load(s) /\ Heft(s) = Load(s) + 1 /\ Load(s) \in Nat
    BY <2>1, <2>3, <2>4, <2>5, LoadIs DEF Heft
  <2>7. GateHolds(none) /\ GateHolds(again)
    BY <2>1, <2>3, <2>5 DEF GateHolds
  <2>8. Len(none.replay) = 0 /\ Len(again.replay) = 1
    BY <2>1, <2>5
  <2> QED BY <2>6, <2>7, <2>8 DEF Falls, Weight
<1> HIDE DEF none
<1> QED BY <1>3, <1>4, <1>5, <1>6, <1>7

\* Whatever the character: a call of process leaves less to be done than it takes.
LEMMA ProcessFalls ==
  ASSUME NEW s0, Placed(s0), GateHolds(s0), s0.replay = <<>>, NEW c \in Token
  PROVE  Falls(s0, process(s0, c))
<1> DEFINE p == s0.empty_pending
           s == Undecided(s0)
           skip == SkipDrop(s, p.start)
           again == Replay(skip, <<c>>)
           white == c \in Whitespace
           still == [skip EXCEPT !.prev_char_ws = white]
<1>1. s0 \in Machine /\ Struct(s0)
  BY Bodies, MachineIsStruct DEF Placed
<1>2. \/ process(s0, c) = gate_or_inner(s, c)
      \/ /\ p.armed
         /\ \/ ~p.never_defers /\ process(s0, c) = gate_or_inner(Marked(s0), c)
            \/ c \in Whitespace /\ process(s0, c) = gate_or_inner(SpaceSeen(s0), c)
            \/ process(s0, c) \in {again, skip, still}
  BY DEF process, Undecided, Marked, MarkOf, SpaceSeen, Settle
<1>3. /\ Placed(s) /\ ~s.empty_pending.armed
      /\ p.armed => /\ Placed(SpaceSeen(s0)) /\ Placed(skip)
                    /\ ~p.never_defers => Placed(Marked(s0)) /\ ~Marked(s0).empty_pending.armed
  BY DecisionPlaced
<1> HIDE DEF white
<1>4. /\ Struct(s) /\ s.replay = <<>> /\ s.pos = s0.pos /\ s.pending = s0.pending
      /\ s.comment = s0.comment /\ ~s.empty_pending.armed /\ s.paren_gate = s0.paren_gate
  <2> DEFINE idle == [armed |-> FALSE]
  <2>1. s = [s0 EXCEPT !.empty_pending = idle, !.replay = <<>>] /\ ~idle.armed
    BY DEF Undecided
  <2> HIDE DEF idle, s
  <2> QED BY <1>1, <2>1 DEF Struct, Names
<1>5. Even(s, Marked(s0))
  <2>1. PICK x : Marked(s0) = [s EXCEPT !.empty_marks = x]
    BY DEF Marked
  <2> HIDE DEF s
  <2> QED BY <1>4, <2>1 DEF Even, Struct, Names
<1>6. /\ p.armed => SpaceSeen(s0).empty_pending.armed
      /\ SpaceSeen(s0).replay = <<>> /\ SpaceSeen(s0).pos = s.pos
      /\ SpaceSeen(s0).pending = s.pending /\ SpaceSeen(s0).comment = s.comment
      /\ SpaceSeen(s0).paren_gate = s.paren_gate
  <2> DEFINE seen == [p EXCEPT !.ws_seen = TRUE]
  <2>1. SpaceSeen(s0) = [s EXCEPT !.empty_pending = seen]
    BY DEF SpaceSeen
  <2>2. p.armed => seen.armed
    <3>1. p \in EmptyPending
      BY <1>1, Fields
    <3> QED BY <3>1 DEF EmptyPending, ArmedSet
  <2> HIDE DEF seen, s, p
  <2> QED BY <1>4, <2>1, <2>2 DEF Struct, Names
<1>7. p.armed => Even(s, skip)
  <2> SUFFICES ASSUME p.armed PROVE Even(s, skip)
    OBVIOUS
  <2> DEFINE n == p.start
             close == <<"]">>
             cut == Truncate(s, n)
  <2>1. skip \in {drop_marked_member(s, n), Emit(cut, close), s}
    BY DEF SkipDrop
  <2> HIDE DEF s, n, close, skip
  <2>2. Even(s, s) /\ Even(s, drop_marked_member(s, n)) /\ Even(s, cut)
    BY <1>4, MembersAreEven, EditsAreEven
  <2>3. Struct(cut)
    BY <2>2 DEF Even
  <2> HIDE DEF cut
  <2>4. Even(s, Emit(cut, close))
    BY <2>2, <2>3, EditsAreEven, EvenOn
  <2> QED BY <2>1, <2>2, <2>4
<1> HIDE DEF s, skip
<1>8. /\ Load(s) + ArmedWeight(s0) = Load(s0) /\ Heft(s) + ArmedWeight(s0) = Heft(s0)
      /\ Heft(s) \in Nat /\ Heft(s0) \in Nat /\ GateHolds(s) /\ Heft(s) <= Heft(s0)
  <2>1. /\ PosWeight(s) = PosWeight(s0) /\ CommentWeight(s) = CommentWeight(s0)
        /\ ArmedWeight(s) = 0 /\ ArmedWeight(s0) \in {0, 1}
    BY <1>4, LoadIs DEF PosWeight, CommentWeight, ArmedWeight
  <2>2. Load(s) + ArmedWeight(s0) = Load(s0)
    BY <1>4, <2>1, LoadIs DEF Load, Weight
  <2>3. s \in Machine
    BY <1>3, Bodies DEF Placed
  <2>4. Heft(s) \in Nat /\ Heft(s0) \in Nat /\ GateWeight(s0.paren_gate) \in Nat
    BY <1>1, <2>3, HeftIs, GateWeighs
  <2>5. Heft(s) + ArmedWeight(s0) = Heft(s0)
    BY <1>4, <2>1, <2>2, <2>4, LoadIs DEF Heft
  <2>6. GateHolds(s)
    BY <1>4 DEF GateHolds
  <2> QED BY <2>1, <2>2, <2>4, <2>5, <2>6
<1>9. \A t : Placed(t) => t \in Machine
  BY Bodies DEF Placed
<1>10. Falls(s0, gate_or_inner(s, c))
  <2>1. Falls(s, gate_or_inner(s, c)) /\ Placed(gate_or_inner(s, c))
    BY <1>3, <1>4, <1>8, DispatchFalls, DispatchPlaced
  <2> QED BY <1>1, <1>3, <1>8, <1>9, <2>1, FallsFrom
<1>11. p.armed /\ ~p.never_defers => Falls(s0, gate_or_inner(Marked(s0), c))
  <2> SUFFICES ASSUME p.armed, ~p.never_defers PROVE Falls(s0, gate_or_inner(Marked(s0), c))
    OBVIOUS
  <2>1. Placed(Marked(s0)) /\ ~Marked(s0).empty_pending.armed
    BY <1>3
  <2>2. Marked(s0).replay = <<>> /\ GateHolds(Marked(s0)) /\ Heft(Marked(s0)) <= Heft(s0)
    BY <1>4, <1>5, <1>8, EvenWeighs DEF Even
  <2>3. Falls(Marked(s0), gate_or_inner(Marked(s0), c)) /\ Placed(gate_or_inner(Marked(s0), c))
    BY <2>1, <2>2, DispatchFalls, DispatchPlaced
  <2> QED BY <1>1, <1>9, <2>1, <2>2, <2>3, FallsFrom
<1>12. p.armed /\ c \in Whitespace => Falls(s0, gate_or_inner(SpaceSeen(s0), c))
  <2> SUFFICES ASSUME p.armed, c \in Whitespace PROVE Falls(s0, gate_or_inner(SpaceSeen(s0), c))
    OBVIOUS
  <2> DEFINE t == SpaceSeen(s0)
  <2>1. Placed(t) /\ t.replay = <<>>
    BY <1>3, <1>6
  <2>2. /\ t.empty_pending.armed /\ t.pos = s0.pos /\ t.pending = s0.pending
        /\ t.comment = s0.comment /\ t.paren_gate = s0.paren_gate
    BY <1>4, <1>6
  <2> HIDE DEF t
  <2>3. Load(t) = Load(s0)
    <3>1. ArmedWeight(t) = 1 /\ ArmedWeight(s0) = 1
      BY <2>2 DEF ArmedWeight
    <3> QED BY <2>2, <3>1 DEF Load, PosWeight, CommentWeight
  <2>4. Heft(t) <= Heft(s0) /\ GateHolds(t)
    BY <1>8, <2>2, <2>3 DEF Heft, GateHolds
  <2>5. Falls(t, gate_or_inner(t, c)) /\ Placed(gate_or_inner(t, c))
    BY <2>1, <2>4, DispatchFalls, DispatchPlaced
  <2>6. Falls(s0, gate_or_inner(t, c))
    BY <1>1, <1>9, <2>1, <2>4, <2>5, FallsFrom
  <2> QED BY <2>6 DEF t
<1>13. p.armed => Falls(s0, again) /\ Falls(s0, skip) /\ Falls(s0, still)
  <2> SUFFICES ASSUME p.armed PROVE Falls(s0, again) /\ Falls(s0, skip) /\ Falls(s0, still)
    OBVIOUS
  <2>1. /\ Struct(skip) /\ skip.replay = <<>> /\ skip.paren_gate = s0.paren_gate
        /\ Load(skip) = Load(s) /\ Heft(skip) = Heft(s) /\ GateHolds(skip)
    BY <1>4, <1>7, <1>8, EvenWeighs DEF Even
  <2>2. Falls(s0, skip)
    BY <1>8, <2>1 DEF Falls, Weight
  <2>3. Falls(s0, still)
    <3>1. Even(skip, still)
      BY <2>1 DEF Even, Struct, Names
    <3> HIDE DEF still
    <3> QED BY <2>2, <3>1, EvenWeighs DEF Falls, Even
  <2>4. Falls(s0, again)
    <3>1. again.replay = <<c>> /\ again.paren_gate = s0.paren_gate /\ Load(again) = Load(s)
      BY <2>1, ReplayWeighs
    <3> HIDE DEF again
    <3>2. Len(again.replay) = 1
      BY <3>1
    <3>3. ArmedWeight(s0) = 1
      BY DEF ArmedWeight
    <3>4. Load(again) < Load(s0)
      BY <1>8, <3>1, <3>3, LoadIs
    <3> QED BY <1>1, <3>1, <3>2, <3>4, AgainFalls
  <2> QED BY <2>2, <2>3, <2>4
<1> HIDE DEF again, still
<1> QED BY <1>2, <1>10, <1>11, <1>12, <1>13

-----------------------------------------------------------------------------
(* A push runs out.                                                        *)

\* What a running push has still ahead of it.
Ahead == Weight * Len(todo) + Heft(m)

\* Between two entries things stand, and the gate is short.
HoldsInv == PlacedInv /\ (~finished => GateHolds(m))

\* It holds from the start and through every call.
LEMMA InitHolds == Init => HoldsInv
<1> SUFFICES ASSUME Init PROVE HoldsInv
  OBVIOUS
<1>1. m = Fresh
  BY DEF Init
<1>2. Fresh.paren_gate.kind = "none"
  BY DEF Fresh
<1> QED BY <1>1, <1>2, InitPlaced DEF HoldsInv, GateHolds

\* An entry takes more from what is ahead than it adds.
LEMMA StepFalls ==
  ASSUME HoldsInv, Step
  PROVE  Ahead' < Ahead /\ GateHolds(m')
<1> DEFINE c == Head(todo)
           t == process(m, c)
<1>1. /\ todo \in Text /\ todo # <<>> /\ ~finished /\ m' = Replay(t, <<>>)
      /\ todo' = t.replay \o Tail(todo)
  BY DEF HoldsInv, PlacedInv, SessionInv, Step, Replay
<1>2. c \in Token /\ Tail(todo) \in Text /\ Len(todo) \in Nat /\ Len(Tail(todo)) = Len(todo) - 1
  BY <1>1 DEF Text
<1> HIDE DEF c
<1>3. Placed(m) /\ GateHolds(m) /\ m.replay = <<>> /\ m \in Machine
  BY <1>1, Bodies DEF HoldsInv, PlacedInv, SessionInv, Placed
<1>4. Falls(m, t) /\ t \in Machine
  BY <1>2, <1>3, ProcessFalls, ProcessPlaced, Bodies DEF Placed
<1> HIDE DEF t
<1>5. Struct(t) /\ t.replay \in Text /\ Len(t.replay) \in Nat
  BY <1>4, MachineIsStruct, TextIs DEF Machine
<1>6. m'.paren_gate = t.paren_gate /\ Load(m') = Load(t)
  BY <1>1, <1>5, ReplayWeighs
<1>7. Heft(m') = Heft(t)
  BY <1>6 DEF Heft
<1>8. Len(todo') = Len(t.replay) + Len(todo) - 1
  <2>1. Len(t.replay \o Tail(todo)) = Len(t.replay) + Len(Tail(todo))
    BY <1>2, <1>5 DEF Text
  <2> QED BY <1>1, <1>2, <1>5, <2>1
<1>9. Heft(t) \in Nat /\ Heft(m) \in Nat
  BY <1>3, <1>4, HeftIs
<1>10. Heft(t) + 20 * Len(t.replay) < 20 + Heft(m)
  BY <1>4 DEF Falls, Weight
<1>11. Ahead' = 20 * Len(todo') + Heft(m') /\ Ahead = 20 * Len(todo) + Heft(m)
  BY DEF Ahead, Weight, Heft, Load, PosWeight, PendingWeight, CommentWeight, ArmedWeight, GateWeight
<1>12. Ahead' < Ahead
  BY <1>2, <1>5, <1>7, <1>8, <1>9, <1>10, <1>11
<1> QED BY <1>4, <1>6, <1>12 DEF Falls, GateHolds

\* Every call and every step of one keeps it.
LEMMA NextHolds == HoldsInv /\ [Next]_vars => HoldsInv'
<1> SUFFICES ASSUME HoldsInv, [Next]_vars PROVE HoldsInv'
  OBVIOUS
<1>1. PlacedInv'
  BY NextPlaced DEF HoldsInv
<1>2. m \in Machine /\ (~finished => GateHolds(m))
  BY Counts DEF HoldsInv, PlacedInv, SessionInv
<1>3. CASE m' = m /\ finished' = finished
  BY <1>1, <1>2, <1>3 DEF HoldsInv, GateHolds
<1>4. CASE Step
  BY <1>1, <1>4, StepFalls DEF HoldsInv, GateHolds
<1>5. CASE PushReturns
  <2>1. m' = [m EXCEPT !.emitted = Len(m.out)] /\ finished' = finished
    BY <1>5 DEF PushReturns
  <2>2. m'.paren_gate = m.paren_gate
    BY <1>2, <2>1 DEF Machine
  <2> QED BY <1>1, <1>2, <2>1, <2>2 DEF HoldsInv, GateHolds
<1>6. CASE End
  <2>1. finished' = TRUE
    BY <1>6 DEF End
  <2> QED BY <1>1, <2>1 DEF HoldsInv
<1>7. CASE Reset
  <2>1. m' = Fresh
    BY <1>7 DEF Reset
  <2>2. Fresh.paren_gate.kind = "none"
    BY DEF Fresh
  <2> QED BY <1>1, <2>1, <2>2 DEF HoldsInv, GateHolds
<1>8. \/ m' = m /\ finished' = finished
      \/ Step \/ PushReturns \/ End \/ Reset
  BY DEF Next, Push, PushRefused, PushFails, vars
<1> QED BY <1>3, <1>4, <1>5, <1>6, <1>7, <1>8

\* How much can be ahead.
LEMMA AheadIs ==
  ASSUME HoldsInv
  PROVE  Ahead \in Nat /\ (~finished => Ahead <= 20 * Len(todo) + 110)
<1>1. m \in Machine /\ todo \in Text /\ Len(todo) \in Nat
  BY Counts, TextIs DEF HoldsInv, PlacedInv, SessionInv
<1>2. Heft(m) \in Nat /\ m.paren_gate \in Gate
  BY <1>1, HeftIs, Fields
<1>3. ~finished => GateWeight(m.paren_gate) <= 84
  <2> SUFFICES ASSUME ~finished PROVE GateWeight(m.paren_gate) <= 84
    OBVIOUS
  <2>1. CASE m.paren_gate.kind = "FirstChar"
    <3> DEFINE n == Len(m.paren_gate.buf)
    <3>1. n \in Nat
      BY <1>2, <2>1, TextIs DEF Gate
    <3>2. n <= 4
      BY <2>1 DEF HoldsInv, GateHolds
    <3>3. GateWeight(m.paren_gate) = 8 + 19 * n
      BY <2>1, <3>1 DEF GateWeight, Weight
    <3> HIDE DEF n
    <3> QED BY <3>1, <3>2, <3>3
  <2>2. CASE m.paren_gate.kind # "FirstChar"
    BY <1>2, <2>2 DEF Gate, GateWeight
  <2> QED BY <2>1, <2>2
<1>4. Load(m) <= 26
  BY LoadIs DEF Load, Weight
<1>5. ~finished => Heft(m) <= 110
  BY <1>1, <1>3, <1>4, GateWeighs, LoadIs DEF Heft
<1>6. Ahead = 20 * Len(todo) + Heft(m)
  BY DEF Ahead, Weight
<1> QED BY <1>1, <1>2, <1>5, <1>6

\* Every push runs out of entries, whatever the chunk and wherever the session stands: an
\* entry of process takes more from what is ahead of the push than the characters it
\* re-enters with put back, and a push of n characters has at most 20 n + 110 ahead of it.
THEOREM EntriesRunOut ==
  Spec => /\ [](Ahead \in Nat /\ (~finished => Ahead <= 20 * Len(todo) + 110))
          /\ [][Step => Ahead' < Ahead]_vars
<1>1. Init => HoldsInv
  BY InitHolds
<1>2. HoldsInv /\ [Next]_vars => HoldsInv'
  BY NextHolds
<1>3. HoldsInv => Ahead \in Nat /\ (~finished => Ahead <= 20 * Len(todo) + 110)
  BY AheadIs
<1>4. HoldsInv /\ [Next]_vars => [Step => Ahead' < Ahead]_vars
  BY StepFalls
<1> QED BY <1>1, <1>2, <1>3, <1>4, PTL DEF Spec

===============================================================================
