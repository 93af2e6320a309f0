--------------------------------- MODULE MCPdf --------------------------------
(***************************************************************************)
(* Small documents for the calls on a PDF: a family for the scan, the      *)
(* door, the selection, the frames of pages, the labels and the images,    *)
(* each plain in what it is not about.                                     *)
(***************************************************************************)
EXTENDS PdfCalls, SequencesExt, TLC

-----------------------------------------------------------------------------
(* Reference: documents as trees, and how they are written.                *)

\* An object is [word], [str], [hex], [name], [arr] or [dict]; what a dictionary
\* holds is listed in order.
RECURSIVE Written(_), Nesting(_), NamesIn(_)
Written(o) ==
  CASE "word" \in DOMAIN o -> <<o.word, " ">>
    [] "str"  \in DOMAIN o -> <<"(">> \o o.str \o <<")">>
    [] "hex"  \in DOMAIN o -> <<"<">> \o o.hex \o <<">">>
    [] "name" \in DOMAIN o -> <<"/">> \o o.name
    [] "note" \in DOMAIN o -> <<"%">> \o o.note \o <<"cr">>
    [] "arr"  \in DOMAIN o -> <<"[">> \o FlattenSeq([k \in 1..Len(o.arr) |-> Written(o.arr[k])]) \o <<"]">>
    [] "dict" \in DOMAIN o ->
         <<"<", "<">> \o FlattenSeq([k \in 1..Len(o.dict) |-> Written(o.dict[k])]) \o <<">", ">">>

Inside(o) == IF "arr" \in DOMAIN o THEN o.arr ELSE IF "dict" \in DOMAIN o THEN o.dict ELSE <<>>

Deepest(ns) == CHOOSE n \in ns \cup {0} : \A m \in ns : m <= n

Nesting(o) ==
  LET inner == Inside(o)
  IN  IF "arr" \in DOMAIN o \/ "dict" \in DOMAIN o
      THEN 1 + Deepest({Nesting(inner[k]) : k \in 1..Len(inner)}) ELSE 0

NamesIn(o) ==
  LET inner == Inside(o)
  IN  (IF "name" \in DOMAIN o THEN {o.name} ELSE {}) \cup UNION {NamesIn(inner[k]) : k \in 1..Len(inner)}

\* A part of a document is an object, or a stream with its dictionary: its payload
\* is bytes, or objects, written out or compressed into a flow.
WrittenPart(p) ==
  IF "dictionary" \notin DOMAIN p THEN Written(p)
  ELSE Written(p.dictionary) \o p.gap \o <<"stream">> \o p.eol
       \o (CASE p.as = "bytes" -> p.payload
             [] p.as = "written" -> FlattenSeq([k \in 1..Len(p.payload) |-> Written(p.payload[k])])
             [] p.as = "flow" -> <<p.flow>>)
       \o <<"end", "stream", "nl">>

WrittenDocument(parts) == FlattenSeq([k \in 1..Len(parts) |-> WrittenPart(parts[k])])

TooDeep(objects) == \E k \in 1..Len(objects) : Nesting(objects[k]) > MAX_OBJECT_NESTING

\* What a part of a document should be refused for.
RefusedFor(p) ==
  LET stream == "dictionary" \in DOMAIN p
      names  == NamesIn(p.dictionary)
      packed == names \cap {<<"FlateDecode">>, <<"flatedecode">>, <<"Fl">>} # {}
  IN  IF ~stream THEN IF TooDeep(<<p>>) THEN "nesting" ELSE Passed
      ELSE CASE TooDeep(<<p.dictionary>>) -> "nesting"
             [] ~TooDeep(<<p.dictionary>>) /\ names \cap {<<"ObjStm">>, <<"XRef">>} = {} -> Passed
             [] OTHER ->
                  IF names \cap {<<"LZWDecode">>, <<"lzwdecode">>, <<"LZW">>} # {} THEN "filter"
                  ELSE IF packed /\ p.as # "flow" THEN Passed
                  ELSE IF packed /\ p.flow \in DOMAIN INFLATE
                          /\ Len(INFLATE[p.flow]) > MAX_INFLATED_BYTES THEN "size"
                  ELSE IF p.as # "bytes" /\ (p.as = "flow" => packed) /\ TooDeep(p.payload)
                       THEN "nesting" ELSE Passed

FirstRefusal(parts) ==
  LET refused == {k \in 1..Len(parts) : RefusedFor(parts[k]) # Passed}
  IN  IF refused = {} THEN Passed
      ELSE RefusedFor(parts[CHOOSE k \in refused : \A l \in refused : k <= l])

\* A document is refused before it is parsed exactly when it, or an object stream in
\* it, nests too deep: strings, comments, names, hexadecimal strings and the bytes of
\* other streams never count, and an object stream is found and unpacked behind
\* every line end and spelling of its filter that the parser takes
\* (pdf_impl.rs 300-400, 526).
ScanMatchesNesting ==
  stage \notin {"spawn", "scan"} /\ reply.by # "thread" =>
    IF reply.by = "scan" THEN reply.refused = FirstRefusal(doc.parts)
    ELSE FirstRefusal(doc.parts) = Passed

-----------------------------------------------------------------------------
(* Documents and calls.                                                    *)

Open_ == [encrypted |-> FALSE, handler |-> TRUE, empty_opens |-> TRUE]

Plain == [media |-> <<0, 0, 4, 3>>, visible |-> <<0, 0, 4, 3>>, rotation |-> 0, spans |-> <<>>,
          rulings |-> <<>>, images |-> <<>>, text |-> <<<<"w">>>>, annotations |-> <<>>]

\* A page with a link of each kind, and two that cannot be read.
Linked == [Plain EXCEPT !.annotations = <<[subtype |-> "Link", action |-> "GoTo", uri |-> "none"],
                                          [subtype |-> "Widget", action |-> "Uri", uri |-> "w"],
                                          [subtype |-> "Link", action |-> "Uri", uri |-> "u"]>>]
Unlinked == [Plain EXCEPT !.annotations = Unreadable]
Unread   == [Plain EXCEPT !.text = Unreadable]

Doc(parts, sec, panics, pages, ranges) ==
  [parts |-> parts, bytes |-> WrittenDocument(parts), security |-> sec, panics |-> panics, pages |-> pages,
   ranges |-> ranges]

Call(how, d) ==
  [how |-> how, doc |-> d, password |-> "none", whole |-> TRUE, pages |-> <<>>, decode |-> "none",
   max_image_bytes |-> DEFAULT_MAX_IMAGE_BYTES]

-----------------------------------------------------------------------------
(* The scan: objects within objects, among what must not count as nesting. *)

N(word)  == [name |-> <<word>>]
W        == [word |-> "w"]
A(items) == [arr |-> items]
D(items) == [dict |-> items]

Decoys ==
  {[str |-> <<"[", "[", "[">>], [str |-> <<"(", "<", "<", ")", "[">>], [str |-> <<"\\", ")", "[", "[">>],
   [str |-> <<"\\", "\\">>], [str |-> <<">", ">", "stream", "nl", "(", ")">>], [hex |-> <<"w">>], [hex |-> <<>>],
   [note |-> <<"[", "[", "(", ">", ">", "stream">>], [name |-> <<"Fl", "ags">>], N("stream"), W}

Nested(n, inner) ==
  LET shells == {<<>>, <<TRUE>>, <<FALSE>>, <<TRUE, FALSE>>, <<FALSE, TRUE>>, <<TRUE, TRUE>>,
                 <<FALSE, FALSE, TRUE>>, <<TRUE, FALSE, TRUE>>}
      shell(o, asDict) == IF asDict THEN D(<<N("K"), o>>) ELSE A(<<o>>)
  IN  {FoldLeft(LAMBDA o, asDict : shell(o, asDict), inner, s) : s \in {t \in shells : Len(t) <= n}}

Objects ==
  UNION {Nested(3, A(<<d>>)) \cup Nested(3, D(<<d>>)) : d \in Decoys}
  \cup {A(<<A(<<d, A(<<e>>)>>), e>>) : d \in Decoys, e \in Decoys}
  \cup {A(<<D(<<d, e>>), A(<<d>>), d>>) : d \in Decoys, e \in Decoys}

Filters ==
  {<<>>, <<N("FlateDecode")>>, <<N("flatedecode")>>, <<N("Fl")>>, <<[name |-> <<"Fl", "ags">>]>>, <<N("LZW")>>,
   <<N("LZWDecode")>>, <<A(<<N("Fl")>>)>>, <<A(<<N("lzwdecode"), N("Fl")>>)>>, <<D(<<N("LZW")>>), [hex |-> <<"w">>]>>}

\* The streams of a dictionary: raw bytes, objects, and flows of objects.
Loads ==
  {[as |-> "bytes", payload |-> <<"w", "w">>, flow |-> "none"],
   [as |-> "written", payload |-> <<A(<<A(<<A(<<>>)>>)>>)>>, flow |-> "none"],
   [as |-> "written", payload |-> <<A(<<A(<<>>)>>), W>>, flow |-> "none"],
   [as |-> "flow", payload |-> <<A(<<A(<<>>)>>)>>, flow |-> "flat"],
   [as |-> "flow", payload |-> <<A(<<A(<<A(<<>>)>>)>>)>>, flow |-> "deep"],
   [as |-> "flow", payload |-> <<W>>, flow |-> "long"],
   [as |-> "flow", payload |-> <<>>, flow |-> "corrupt"]}

Streams(kinds, filters, gaps, eols) ==
  {[dictionary |-> D(<<kind>> \o filter), gap |-> gap, eol |-> eol] @@ load :
     kind \in kinds, filter \in filters, gap \in gaps, eol \in eols, load \in Loads}

EveryDictionary == Streams({N("ObjStm"), N("XRef"), W}, Filters, {<<>>}, {<<"nl">>})
EveryLineEnd ==
  Streams({N("ObjStm")}, {<<>>, <<N("Fl")>>}, {<<>>, <<"nl">>, <<" ", "cr">>},
          {<<"nl">>, <<"cr">>, <<"cr", "nl">>, <<>>})
Few == Streams({N("ObjStm"), W}, {<<>>, <<N("Fl")>>}, {<<>>}, {<<"cr">>})

\* The bytes of a stream of neither kind are not read: what they look like is nothing.
Junk == {[dictionary |-> D(<<W>>), gap |-> <<>>, eol |-> <<"nl">>, as |-> "bytes", payload |-> junk,
          flow |-> "none"] :
           junk \in {<<"[", "[", "[", "[">>, <<"<", "<", "<", "<">>, <<"(", "w">>, <<"%", "[">>,
                     <<">", ">", "stream", "[", "[", "[">>, <<>>}}

MCInflate == ("flat" :> Written(A(<<A(<<>>)>>))) @@ ("deep" :> Written(A(<<A(<<A(<<>>)>>)>>)))
             @@ ("long" :> <<"w", "w", "w", "w", "w", "w", "w", "w", "w", "w">>)

ScanParts ==
  {<<o>> : o \in Objects}
  \cup {<<d, A(<<A(<<o>>)>>)>> : d \in {[note |-> <<"(", "[">>], [hex |-> <<"w">>]}, o \in Decoys \cup {A(<<>>)}}
  \cup {<<s>> : s \in EveryDictionary \cup EveryLineEnd}
  \cup {<<j, o>> : j \in Junk, o \in {A(<<A(<<>>)>>), A(<<A(<<A(<<>>)>>)>>)}}
  \cup {<<j, s>> : j \in Junk, s \in Few}
  \cup {<<s, t>> : s \in Few, t \in Few}

ScanCases == {Call("geometry", Doc(parts, Open_, FALSE, <<>>, <<>>)) : parts \in ScanParts}

-----------------------------------------------------------------------------
(* The door and the selection.                                             *)

Securities == {s \in [encrypted : BOOLEAN, handler : BOOLEAN, empty_opens : BOOLEAN] :
                 ~s.encrypted => s.handler /\ s.empty_opens}

DoorCases ==
  {[Call(how, Doc(<<W>>, sec, panics, <<Plain, Plain>>, <<>>)) EXCEPT !.password = password] :
     how \in Hows, sec \in Securities, panics \in BOOLEAN, password \in {"none", "right", "wrong"}}

SelectionCases ==
  {[Call(how, Doc(<<W>>, Open_, FALSE, [k \in 1..count |-> Plain], <<>>)) EXCEPT !.whole = FALSE, !.pages = pages] :
     how \in Hows, count \in 0..3, pages \in UNION {[1..n -> 0..3] : n \in 0..3}}
  \cup {[Call(how, Doc(<<W>>, Open_, FALSE, pages, <<>>)) EXCEPT !.whole = whole, !.pages = <<1, 0>>] :
          how \in AllOrNone, whole \in BOOLEAN,
          pages \in [1..3 -> {Linked, Unlinked, Unread}]}

-----------------------------------------------------------------------------
(* Frames: every turn, a crop that moves the corner, two spans that may be *)
(* turned, rulings, and reads that fail.                                   *)

Span(bbox, turned, advances) == [bbox |-> bbox, turned |-> turned, advances |-> advances]

Handle(bbox) ==
  [bbox |-> bbox, filter_chain |-> <<"FlateDecode">>, color_space |-> "rgb", indexed_base |-> "none", width |-> 1,
   height |-> 1, bits_per_component |-> 8, byte_size_compressed |-> 1, is_inline |-> FALSE,
   sniffed |-> "neither", decoded |-> [arm |-> "raw", bytes |-> 3]]

SpanLists ==
  {<<>>, Unreadable}
  \cup {<<Span(<<3, 4, 4, 1>>, t, <<1, 3>>)>> : t \in BOOLEAN}
  \cup {<<Span(<<3, 4, 4, 1>>, t, <<1, 3>>), Span(<<6, 1, 2, 2>>, u, <<2>>)>> : t \in BOOLEAN, u \in BOOLEAN}

RulingLists ==
  {<<>>, Unreadable, <<<<2, 3, 5, 2>>>>, <<<<2, 3, 5, 2>>, <<5, 0, 4, 3>>>>,
   <<<<2, 3, 5, 2>>, <<5, 0, 4, 3>>, <<0, 0, 1, 1>>>>}

FramePage(media, visible, rotation, spans, rulings) ==
  [media |-> media, visible |-> visible, rotation |-> rotation, spans |-> spans, rulings |-> rulings,
   images |-> <<Handle(<<4, 2, 3, 1>>)>>, text |-> <<<<"w">>>>, annotations |-> <<>>]

Media    == {<<0, 0, 10, 8>>, <<1, 1, 11, 9>>}
Visibles == {<<1, 1, 11, 9>>, <<3, 1, 9, 6>>, <<3, 1, 3, 6>>, Unreadable}
Hard     == <<Span(<<3, 4, 4, 1>>, TRUE, <<1, 3>>)>>

FrameCases ==
  {Call(how, Doc(<<W>>, Open_, FALSE, <<FramePage(media, visible, turn, spans, <<>>)>>, <<>>)) :
     how \in {"layout", "chars"}, media \in Media, visible \in Visibles, turn \in Turns, spans \in SpanLists}
  \cup {Call("tables", Doc(<<W>>, Open_, FALSE, <<FramePage(media, <<3, 1, 9, 6>>, turn, spans, rulings)>>, <<>>)) :
          media \in Media, turn \in Turns, spans \in SpanLists, rulings \in RulingLists}
  \cup {Call(how, Doc(<<W>>, Open_, FALSE, <<FramePage(media, visible, turn, Hard, <<>>)>>, <<>>)) :
          how \in {"geometry", "images", "tables"}, media \in Media \cup {Unreadable}, visible \in Visibles,
          turn \in Turns}

-----------------------------------------------------------------------------
(* Labels: ranges that begin together, late or past the end, and numbers   *)
(* about every numeral and bound.                                          *)

Ranges(page, style, value, prefix) ==
  [start_page |-> page, style |-> style, start_value |-> value, prefix |-> prefix]

LabelRanges ==
  {<<Ranges(page, style, value, "none")>> :
     page \in {0, 1, 4}, style \in {"decimal", "roman", "alpha", "none"},
     value \in 0..60 \cup {88, 98, 388, 398, 448, 488, 898, 948, 998, 1888, 1998, 3998, 4998, 5998, 6998}}
  \cup {<<Ranges(p, s, 1, "A-"), Ranges(q, t, 3, "none")>> :
          p \in 0..1, q \in 0..2, s \in {"decimal", "roman"}, t \in {"alpha", "none"}}

Sorted(ranges) == \A k \in 2..Len(ranges) : ranges[k - 1].start_page <= ranges[k].start_page

LabelCases ==
  {Call("labels", Doc(<<W>>, Open_, FALSE, <<Plain, Plain, Plain>>, ranges)) :
     ranges \in {r \in LabelRanges \cup {<<>>} : Sorted(r)}}

-----------------------------------------------------------------------------
(* Images: chains whose estimate is right, too low or too high, spaces,    *)
(* depths, and decodes that fail, about limits of 24 and 40 bytes.         *)

Jpeg(stored, inflated, chain) ==
  [Handle(<<0, 0, 1, 1>>) EXCEPT !.filter_chain = chain, !.byte_size_compressed = stored,
                                 !.decoded = [arm |-> "jpeg", bytes |-> inflated]]

Pixels(space, base, bpc, width, height, bytes) ==
  [Handle(<<0, 0, 1, 1>>) EXCEPT !.color_space = space, !.indexed_base = base, !.bits_per_component = bpc,
                                 !.width = width, !.height = height,
                                 !.decoded = [arm |-> "raw", bytes |-> bytes]]

Jpx(inline, sniffed, stored) ==
  [Handle(<<0, 0, 1, 1>>) EXCEPT !.filter_chain = <<"JPXDecode">>, !.byte_size_compressed = stored,
                                 !.is_inline = inline, !.sniffed = sniffed,
                                 !.decoded = [arm |-> "unsupported", bytes |-> 0]]

Images ==
  {Jpeg(s, n, chain) : s \in {2, 24, 25}, n \in {16, 24, 25}, chain \in {<<"FlateDecode", "DCTDecode">>}}
  \cup {Jpeg(n, n, <<"DCTDecode">>) : n \in {16, 24, 25}}
  \cup {Pixels("gray", "none", 8, 4, 4, 16), Pixels("rgb", "none", 8, 4, 2, 24), Pixels("rgb", "none", 16, 3, 3, 27),
        Pixels("cmyk", "none", 1, 2, 2, 16), Pixels("lab", "none", 16, 2, 2, 24), Pixels("icc2", "none", 16, 2, 2, 16),
        Pixels("indexed", "rgb", 8, 2, 4, 24), Pixels("indexed", "none", 8, 4, 6, 0),
        Pixels("cmyk", "none", 8, 9, 9, 0),
        [Pixels("gray", "none", 1, 20, 8, 20) EXCEPT !.filter_chain = <<"CCITTFaxDecode">>],
        [Pixels("rgb", "none", 8, 2, 2, 0) EXCEPT !.decoded.arm = "bad"]}
  \cup {Jpx(inline, sniffed, stored) : inline \in BOOLEAN, sniffed \in {"jp2", "neither"}, stored \in {16, 25}}

Chains == {Jpeg(2, 24, <<"FlateDecode", "DCTDecode">>), Jpeg(24, 16, <<"FlateDecode", "DCTDecode">>),
           Pixels("gray", "none", 8, 4, 4, 16), Jpx(FALSE, "jp2", 16), Jpx(TRUE, "jp2", 16)}

Listing(lists) == {<<[Plain EXCEPT !.images = l]>> : l \in lists}

ImageCall(sec, pages, decode, max) ==
  [Call("images", Doc(<<W>>, sec, FALSE, pages, <<>>)) EXCEPT !.decode = decode, !.max_image_bytes = max]

ImageCases ==
  {ImageCall(sec, pages, decode, max) :
     sec \in {Open_, [Open_ EXCEPT !.encrypted = TRUE]}, decode \in {"none", "container", "pixels"},
     max \in {DEFAULT_MAX_IMAGE_BYTES, 44}, pages \in Listing({<<a>> : a \in Images})}
  \cup {ImageCall(Open_, pages, "pixels", max) :
          max \in {DEFAULT_MAX_IMAGE_BYTES, 44}, pages \in Listing({<<a, b>> : a \in Images, b \in Images})}
  \cup {ImageCall(Open_, <<[Plain EXCEPT !.images = <<a, b>>], [Plain EXCEPT !.images = <<c>>]>>, "container",
                  DEFAULT_MAX_IMAGE_BYTES) : a \in Chains, b \in Chains, c \in Chains}
  \cup {[ImageCall(Open_, <<[Plain EXCEPT !.images = <<a>>], Plain>>, "pixels", DEFAULT_MAX_IMAGE_BYTES)
            EXCEPT !.doc.panics = TRUE] : a \in Chains}

MCPdfCases == ScanCases \cup DoorCases \cup SelectionCases \cup FrameCases \cup LabelCases \cup ImageCases
===============================================================================
