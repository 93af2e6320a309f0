------------------------------- MODULE PdfPages -------------------------------
(***************************************************************************)
(* What the surfaces of a PDF page answer (src/src/pdf_impl.rs): its       *)
(* frame, the boxes of spans, lines, characters, tables and images in it,  *)
(* and its label.  A box is <<x, y, width, height>>, a visible or media    *)
(* box its two corners; lengths are integers.  What the engine reads from  *)
(* a page is data: where spans and rulings are painted in the raw space    *)
(* of the page, and whether a span's text is turned against the page.      *)
(***************************************************************************)
EXTENDS Integers, Sequences, FiniteSets

CONSTANTS
  MAX_TABLE_PRIMITIVES,
  MAX_LABEL_CHARS, ROMAN_TAIL_MAX, LETTERS

ASSUME PagesAssumption ==
  /\ MAX_TABLE_PRIMITIVES \in Nat /\ LETTERS \in Nat \ {0}
  /\ MAX_LABEL_CHARS \in Nat /\ ROMAN_TAIL_MAX \in 12..MAX_LABEL_CHARS

NoBox      == <<>>
Unreadable == <<NoBox>>   \* a read that failed

-----------------------------------------------------------------------------
(* Frames.                                                                 *)

QuarterTurn(rotation) == rotation \in {90, 270}

NoPageBox == [width_pt |-> 0, height_pt |-> 0, rotation |-> 0, crop |-> NoBox]

from_visible_box(visible, rotation, media) ==
  LET width  == visible[3] - visible[1]
      height == visible[4] - visible[2]
  IN  IF width <= 0 \/ height <= 0 THEN NoPageBox
      ELSE [width_pt  |-> IF QuarterTurn(rotation) THEN height ELSE width,
            height_pt |-> IF QuarterTurn(rotation) THEN width ELSE height,
            rotation  |-> rotation,
            crop      |-> IF visible = media THEN NoBox ELSE visible]

BoxIsRead(page) == page.media # Unreadable /\ page.visible # Unreadable

page_box(page) ==
  IF BoxIsRead(page) THEN from_visible_box(page.visible, page.rotation, page.media) ELSE NoPageBox

rotate_box_forward(b, frame, rotation) ==
  CASE rotation = 90  -> <<b[2], frame[1] - b[1] - b[3], b[4], b[3]>>
    [] rotation = 180 -> <<frame[1] - b[1] - b[3], frame[2] - b[2] - b[4], b[3], b[4]>>
    [] rotation = 270 -> <<frame[2] - b[2] - b[4], b[1], b[4], b[3]>>
    [] rotation = 0   -> b

Relative(b, corner) == <<b[1] - corner[1], b[2] - corner[2], b[3], b[4]>>
Absolute(b, corner) == <<b[1] + corner[1], b[2] + corner[2], b[3], b[4]>>
Extent(corners)     == <<corners[3] - corners[1], corners[4] - corners[2]>>

map_box_forward(raw, visible, rotation) ==
  rotate_box_forward(Relative(raw, visible), Extent(visible), rotation)

unmap_engine_box(mapped, media, rotation) ==
  LET m == Relative(mapped, media)
      f == Extent(media)
  IN  Absolute(CASE rotation = 90  -> <<f[1] - m[2] - m[4], m[1], m[4], m[3]>>
                 [] rotation = 180 -> <<f[1] - m[1] - m[3], f[2] - m[2] - m[4], m[3], m[4]>>
                 [] rotation = 270 -> <<m[2], f[2] - m[1] - m[3], m[4], m[3]>>
                 [] rotation = 0   -> m,
               media)

engine_mapped(rotation, turned) == rotation = 180 \/ (QuarterTurn(rotation) /\ turned)

\* Reference. Where a point of a page is on the page as it is shown: turned clockwise.
PointShown(page, x, y) ==
  LET right == page.visible[3] - x
      top   == page.visible[4] - y
      left  == x - page.visible[1]
      below == y - page.visible[2]
  IN  CASE page.rotation = 0   -> <<left, below>>
        [] page.rotation = 90  -> <<below, right>>
        [] page.rotation = 180 -> <<right, top>>
        [] page.rotation = 270 -> <<top, left>>

Lesser(m, n)   == IF m < n THEN m ELSE n
Distance(m, n) == IF m < n THEN n - m ELSE m - n

BoxShown(page, b) ==
  LET p == PointShown(page, b[1], b[2])
      q == PointShown(page, b[1] + b[3], b[2] + b[4])
  IN  <<Lesser(p[1], q[1]), Lesser(p[2], q[2]), Distance(p[1], q[1]), Distance(p[2], q[2])>>

-----------------------------------------------------------------------------
(* The engine: spans about the media box, one line for each span with a    *)
(* word for each character, characters laid out along a box, and tables.   *)

\* The page the engine turned a span for, or none.
Applied(page, span) == IF engine_mapped(page.rotation, span.turned) THEN page.rotation ELSE 0

EngineBox(page, span) ==
  IF Applied(page, span) = 0 THEN span.bbox
  ELSE Absolute(rotate_box_forward(Relative(span.bbox, page.media), Extent(page.media), page.rotation),
                page.media)

extract_spans(page) ==
  IF page.spans = Unreadable THEN <<>>
  ELSE [k \in 1..Len(page.spans) |->
          [bbox |-> EngineBox(page, page.spans[k]), applied |-> Applied(page, page.spans[k]),
           turned |-> page.spans[k].turned, advances |-> page.spans[k].advances]]

Sum(ns) ==
  LET total[k \in 0..Len(ns)] == IF k = 0 THEN 0 ELSE total[k - 1] + ns[k]
  IN  total[Len(ns)]

\* Along the width of the box it is given.
to_chars(bbox, advances) ==
  [k \in 1..Len(advances) |->
     <<bbox[1] + Sum(SubSeq(advances, 1, k - 1)), bbox[2], advances[k], bbox[4]>>]

RawChars(span) == to_chars(span.bbox, span.advances)

extract_text_lines(page) ==
  IF page.spans = Unreadable THEN <<>>
  ELSE [k \in 1..Len(page.spans) |->
          LET span == page.spans[k] IN
          [bbox |-> EngineBox(page, span),
           words |-> [n \in 1..Len(span.advances) |->
                        [bbox |-> EngineBox(page, [span EXCEPT !.bbox = RawChars(span)[n]]),
                         turned |-> span.turned]]]]

Within(b, c) ==
  /\ c[1] <= b[1] /\ b[1] + b[3] <= c[1] + c[3]
  /\ c[2] <= b[2] /\ b[2] + b[4] <= c[2] + c[4]

\* The detector compares boxes as they are.  With rulings a cell is a ruled box and
\* holds the spans within it; without, a cell is a span.
extract_tables(page) ==
  LET spans == extract_spans(page)
  IN  CASE page.rulings = Unreadable \/ spans = <<>> -> <<>>
        [] page.rulings = <<>> /\ spans # <<>> ->
             [k \in 1..Len(spans) |-> [bbox |-> spans[k].bbox, holds |-> {k}]]
        [] OTHER ->
             [k \in 1..Len(page.rulings) |->
                [bbox |-> page.rulings[k],
                 holds |-> {n \in 1..Len(spans) : Within(spans[n].bbox, page.rulings[k])}]]

-----------------------------------------------------------------------------
(* The surfaces.                                                           *)

IsMapped(page, span) == page.rotation # 0 /\ span.applied = page.rotation

RawBox(page, bbox, mapped) ==
  IF mapped THEN unmap_engine_box(bbox, page.media, page.rotation) ELSE bbox

Forward(page, raw) == map_box_forward(raw, page.visible, page.rotation)

LayoutSpans(page) ==
  [k \in 1..Len(extract_spans(page)) |->
     LET s == extract_spans(page)[k] IN Forward(page, RawBox(page, s.bbox, IsMapped(page, s)))]

\* A line is mapped as its words are.
LayoutLines(page) ==
  [k \in 1..Len(extract_text_lines(page)) |->
     LET l == extract_text_lines(page)[k]
         line_mapped == /\ page.rotation # 0
                        /\ \A n \in 1..Len(l.words) : engine_mapped(page.rotation, l.words[n].turned)
     IN  [bbox |-> Forward(page, RawBox(page, l.bbox, line_mapped)),
          words |-> [n \in 1..Len(l.words) |-> Forward(page, RawBox(page, l.words[n].bbox, line_mapped))]]]

ImageBoxes(page) == [k \in 1..Len(page.images) |-> Forward(page, page.images[k].bbox)]

page_layout_one(page) ==
  IF page_box(page) = NoPageBox
  THEN [geometry |-> NoPageBox, spans |-> <<>>, lines |-> <<>>, images |-> <<>>]
  ELSE [geometry |-> page_box(page), spans |-> LayoutSpans(page), lines |-> LayoutLines(page),
        images |-> ImageBoxes(page)]

\* Mutant: one text that the engine turned speaks for all.
table_frame_gate_some(rotation, has_rulings, any_mapped, all_mapped, paths_error) ==
  IF paths_error THEN "incoherent" ELSE IF any_mapped /\ ~has_rulings THEN "mapped"
  ELSE IF any_mapped THEN "incoherent" ELSE "raw"

table_frame_gate(rotation, has_rulings, any_mapped, all_mapped, paths_error) ==
  IF paths_error THEN "incoherent"
  ELSE IF rotation = 0 THEN "raw"
  ELSE IF any_mapped THEN IF ~has_rulings /\ all_mapped THEN "mapped" ELSE "incoherent"
  ELSE "raw"

page_tables_one(page) ==
  LET geometry    == page_box(page)
      paths_error == page.rulings = Unreadable
      primitives  == IF paths_error THEN 0 ELSE Len(page.rulings)
      spans       == extract_spans(page)
      frame       == table_frame_gate(page.rotation, primitives > 0,
                       \E k \in 1..Len(spans) : IsMapped(page, spans[k]),
                       \A k \in 1..Len(spans) : IsMapped(page, spans[k]), paths_error)
      cells       == extract_tables(page)
      refused     == [geometry |-> geometry, cells |-> <<>>, tables_refused |-> TRUE]
  IN  IF geometry = NoPageBox THEN [geometry |-> NoPageBox, cells |-> <<>>, tables_refused |-> FALSE]
      ELSE IF primitives > MAX_TABLE_PRIMITIVES \/ frame = "incoherent" THEN refused
      ELSE [geometry |-> geometry, tables_refused |-> FALSE,
            cells |-> [k \in 1..Len(cells) |->
                         [cells[k] EXCEPT !.bbox = Forward(page, RawBox(page, @, frame = "mapped"))]]]

\* Mutant: the characters are laid out along the box that the engine gives.
CharBoxes_along_given(page, span) ==
  LET chars == to_chars(span.bbox, span.advances)
  IN  [n \in 1..Len(chars) |-> Forward(page, RawBox(page, chars[n], IsMapped(page, span)))]

\* The characters of a span that the engine turned are laid out along its raw box.
CharBoxes(page, span) ==
  LET source == RawBox(page, span.bbox, IsMapped(page, span))
      chars  == to_chars(source, span.advances)
  IN  [n \in 1..Len(chars) |-> Forward(page, chars[n])]

page_text_chars_one(page) ==
  LET spans == extract_spans(page)
  IN  IF page_box(page) = NoPageBox THEN [geometry |-> NoPageBox, chars |-> <<>>]
      ELSE [geometry |-> page_box(page),
            chars    |-> [k \in 1..Len(spans) |-> CharBoxes(page, spans[k])]]

\* The web addresses that the page's link annotations go to.
uris(page) ==
  LET web == SelectSeq(page.annotations, LAMBDA a : a.subtype = "Link" /\ a.action = "Uri")
  IN  [k \in 1..Len(web) |-> web[k].uri]

-----------------------------------------------------------------------------
(* Labels.  A range of labels has a first page, the number of its first    *)
(* page, a style and a prefix; a page past the last range has its label.   *)

ROMAN == <<<<1000, <<"m">>>>, <<900, <<"c", "m">>>>, <<500, <<"d">>>>, <<400, <<"c", "d">>>>,
           <<100, <<"c">>>>, <<90, <<"x", "c">>>>, <<50, <<"l">>>>, <<40, <<"x", "l">>>>,
           <<10, <<"x">>>>, <<9, <<"i", "x">>>>, <<5, <<"v">>>>, <<4, <<"i", "v">>>>, <<1, <<"i">>>>>>

NoLabel == [digits |-> <<>>, prefix |-> "missing"]

\* The first numeral of the table that fits in n.
Fitting(n) ==
  ROMAN[CHOOSE k \in 1..Len(ROMAN) : ROMAN[k][1] <= n /\ \A l \in 1..(k - 1) : ROMAN[l][1] > n]

\* As long as a numeral fits in what the ones before it leave.
roman_digits(n) ==
  LET f[m \in 0..n] == IF m = 0 THEN <<>> ELSE Fitting(m)[2] \o f[m - Fitting(m)[1]]
  IN  f[n]

\* The thousands are counted before anything is built.
RomanIsBounded(n) == n \div 1000 > MAX_LABEL_CHARS - ROMAN_TAIL_MAX

\* Mutant: the letters are digits from zero.
render_alpha_with_zero(n) ==
  LET f[m \in 0..n] == IF m = 0 THEN <<>> ELSE Append(f[m \div LETTERS], 1 + (m % LETTERS))
  IN  f[n]

\* The digits of n to a base without a zero: the letters count from 1.
render_alpha(n) ==
  LET f[m \in 0..n] == IF m = 0 THEN <<>> ELSE Append(f[(m - 1) \div LETTERS], 1 + ((m - 1) % LETTERS))
  IN  f[n]

render_label_number(style, number, prefix) ==
  LET digits == CASE style = "decimal" -> <<number>>
                  [] style = "roman"   -> roman_digits(number)
                  [] style = "alpha"   -> render_alpha(number)
                  [] style = "none"    -> <<>>
  IN  IF style = "roman" /\ RomanIsBounded(number) THEN NoLabel
      ELSE [digits |-> digits, prefix |-> prefix]

\* Mutant: the first range that covers the page is the page's.
render_page_label_first(ranges, page) ==
  LET covering == {k \in 1..Len(ranges) : ranges[k].start_page <= page}
      range    == ranges[CHOOSE k \in covering : \A l \in covering : k <= l]
  IN  IF covering = {} THEN NoLabel
      ELSE render_label_number(range.style, range.start_value + (page - range.start_page), range.prefix)

\* Pages are counted from 0; the ranges are sorted, and the last that begins at the
\* page or before it is the page's.
render_page_label(ranges, page) ==
  LET covering == {k \in 1..Len(ranges) : ranges[k].start_page <= page}
      range    == ranges[CHOOSE k \in covering : \A l \in covering : l <= k]
  IN  IF covering = {} THEN NoLabel
      ELSE render_label_number(range.style, range.start_value + (page - range.start_page), range.prefix)
===============================================================================
