------------------------------- MODULE PdfCalls -------------------------------
(***************************************************************************)
(* A call on a PDF (src/src/pdf_impl.rs): on a thread of its own the bytes *)
(* are scanned, the document is opened under the password of the call or   *)
(* its security is reported, pages are selected, and each is answered in   *)
(* turn.  A panic of the engine is a refusal.                              *)
(***************************************************************************)
EXTENDS PdfScan, PdfImages

CONSTANT PdfCases   \* the calls

Hows == {"security", "labels", "geometry", "layout", "tables", "chars", "images", "links", "extract", "markdown"}

\* What the engine gives: boxes of no negative size, the corners of pages, quarter
\* turns, sizes that are counted, and every read may fail.
Boxes   == Int \X Int \X Nat \X Nat
Corners == Int \X Int \X Int \X Int
Turns   == {0, 90, 180, 270}

\* The engine makes a span, and a line of it, of one character at least.
IsSpan(span) == span \in [bbox : Boxes, turned : BOOLEAN, advances : Seq(Nat) \ {<<>>}]

IsImage(handle) ==
  /\ handle.bbox \in Boxes /\ handle.color_space \in DOMAIN COMPONENTS
  /\ handle.indexed_base \in {"none"} \cup (DOMAIN COMPONENTS \ {"indexed"})
  /\ {handle.width, handle.height, handle.bits_per_component, handle.byte_size_compressed} \subseteq Nat
  /\ handle.sniffed \in {"jp2", "j2k", "neither"} /\ handle.decoded.bytes \in Nat

IsSeq(s) == Len(s) \in Nat /\ s = [k \in 1..Len(s) |-> s[k]]

IsListOf(list, Is(_)) == IsSeq(list) /\ \A k \in 1..Len(list) : Is(list[k])

IsBox(box) == box \in Boxes

IsPage(page) ==
  /\ \A corners \in {page.media, page.visible} : corners = Unreadable \/ corners \in Corners
  /\ page.rotation \in Turns
  /\ page.spans = Unreadable \/ IsListOf(page.spans, IsSpan)
  /\ page.rulings = Unreadable \/ IsListOf(page.rulings, IsBox)
  /\ IsListOf(page.images, IsImage)

\* Ranges of labels are sorted by their first page.
AreRanges(ranges) ==
  /\ Len(ranges) \in Nat
  /\ \A k \in 1..Len(ranges) :
       /\ ranges[k].start_page \in Nat /\ ranges[k].start_value \in Nat
       /\ ranges[k].style \in {"decimal", "roman", "alpha", "none"} /\ ranges[k].prefix # NoLabel.prefix
       /\ k > 1 => ranges[k - 1].start_page <= ranges[k].start_page

IsCall(c) ==
  /\ c.how \in Hows /\ c.password \in {"none", "right", "wrong"} /\ c.whole \in BOOLEAN
  /\ c.pages \in Seq(Nat) /\ c.max_image_bytes \in Nat
  /\ c.doc.security \in [encrypted : BOOLEAN, handler : BOOLEAN, empty_opens : BOOLEAN]
  /\ IsListOf(c.doc.pages, IsPage) /\ AreRanges(c.doc.ranges)

ASSUME PdfCasesAssumption == \A c \in PdfCases : IsCall(c)

VARIABLES
  request,  \* what was asked, of which document
  stage,    \* how far it is
  todo,     \* the pages that are left
  spent,    \* the bytes of the images served
  reply     \* what came back

pdf_vars == <<request, stage, todo, spent, reply>>

doc == request.doc

NoAnswer == [by |-> "", refused |-> "", report |-> <<>>, entries |-> <<>>]

Continue(to) == stage' = to /\ UNCHANGED <<request, todo, spent, reply>>

\* What a pass had served is dropped with it, and so is its count.
RefuseCall(by, why) ==
  /\ stage' = "done" /\ reply' = [NoAnswer EXCEPT !.by = by, !.refused = why] /\ spent' = 0
  /\ UNCHANGED <<request, todo>>

-----------------------------------------------------------------------------
(* The engine: a document that is not encrypted needs no password; opening *)
(* tries the empty one; a broken handler fails.                            *)

is_authenticated(sec) == ~sec.encrypted \/ (sec.handler /\ sec.empty_opens)

authenticate(sec, password) ==
  CASE ~sec.encrypted -> "yes"
    [] sec.encrypted /\ ~sec.handler -> "error"
    [] sec.encrypted /\ sec.handler -> IF password = "right" THEN "yes" ELSE "no"

HasPermissions(sec) == sec.encrypted /\ sec.handler

-----------------------------------------------------------------------------

\* The thread may not start: an error of the environment.
with_depth_headroom ==
  stage = "spawn" /\ (Continue("scan") \/ RefuseCall("thread", "io"))

EnginePanics == stage \in {"open", "select", "pages"} /\ doc.panics /\ RefuseCall("engine", "malformed")

Scan ==
  /\ stage = "scan"
  /\ LET verdict == scan_document(doc.bytes)
     IN  IF verdict = Passed THEN Continue("open") ELSE RefuseCall("scan", verdict)

\* Mutant: a document that is still locked is opened.
open_locked(sec, password) ==
  IF password # "none" /\ authenticate(sec, password) = "no" THEN "wrong_password" ELSE "opened"

open(sec, password) ==
  IF password # "none"
  THEN CASE authenticate(sec, password) = "yes"   -> "opened"
         [] authenticate(sec, password) = "no"    -> "wrong_password"
         [] authenticate(sec, password) = "error" -> "handler"
  ELSE IF sec.encrypted /\ ~is_authenticated(sec) THEN "encrypted" ELSE "opened"

OpenDocument ==
  /\ stage = "open" /\ request.how # "security"
  /\ LET opened == open(doc.security, request.password)
     IN  IF opened = "opened" THEN Continue("select") ELSE RefuseCall("door", opened)

\* The report tells the state that the door refuses for.
security(sec, password) ==
  LET empty_unlocks == is_authenticated(sec)
  IN  [encrypted |-> sec.encrypted,
       unlocked_with_supplied_password |->
         IF password = "none" THEN empty_unlocks ELSE authenticate(sec, password) = "yes",
       permissions |-> HasPermissions(sec),
       owner_password_only |-> sec.encrypted /\ empty_unlocks]

Report ==
  /\ stage = "open" /\ request.how = "security"
  /\ stage' = "done"
  /\ reply' = [NoAnswer EXCEPT !.report = <<security(doc.security, request.password)>>]
  /\ UNCHANGED <<request, todo, spent>>

\* The surfaces that answer for every page, and those that read all or nothing.
WholeOnly == {"labels", "geometry", "links", "extract"}
AllOrNone == {"links", "extract", "markdown"}

\* Pages are numbered from 0.
Count == Len(doc.pages)

\* Mutant: the pages as they were asked for.
normalize_selection_as_asked(pages) == pages

\* A page is put between the pages below it and those above, or is there already.
Inserted(sorted, page) ==
  LET below == CHOOSE n \in 0..Len(sorted) :
                 \A k \in 1..Len(sorted) : IF k <= n THEN sorted[k] < page ELSE sorted[k] > page
  IN  IF \E k \in 1..Len(sorted) : sorted[k] = page THEN sorted
      ELSE SubSeq(sorted, 1, below) \o <<page>> \o SubSeq(sorted, below + 1, Len(sorted))

normalize_selection(pages) ==
  LET sorted[k \in 0..Len(pages)] == IF k = 0 THEN <<>> ELSE Inserted(sorted[k - 1], pages[k])
  IN  sorted[Len(pages)]

Whole == request.whole \/ request.how \in WholeOnly

Selected == IF Whole THEN [k \in 1..Count |-> k - 1] ELSE normalize_selection(request.pages)

Select ==
  /\ stage = "select"
  /\ IF ~Whole /\ (Selected = <<>> \/ \E k \in 1..Len(Selected) : Selected[k] >= Count)
     THEN RefuseCall("selection", "pages")
     ELSE todo' = Selected /\ stage' = "pages" /\ UNCHANGED <<request, spent, reply>>

PageReadFails(page) ==
  IF request.how = "links" THEN page.annotations = Unreadable
  ELSE request.how \in {"extract", "markdown"} /\ page.text = Unreadable

PageFails ==
  stage = "pages" /\ todo # <<>> /\ PageReadFails(doc.pages[Head(todo) + 1])
  /\ RefuseCall("engine", "malformed")

\* The images of a page, when the call has spent what it has.
ImagesOf(page) ==
  page_images_one(page, doc.security.encrypted, request.decode, request.max_image_bytes, spent)

EntryOf(index, page) ==
  CASE request.how = "labels"   -> render_page_label(doc.ranges, index)
    [] request.how = "geometry" -> page_box(page)
    [] request.how = "layout"   -> page_layout_one(page)
    [] request.how = "tables"   -> page_tables_one(page)
    [] request.how = "chars"    -> page_text_chars_one(page)
    [] request.how = "images"   -> [geometry |-> page_box(page), images |-> ImagesOf(page).images]
    [] request.how = "links"    -> uris(page)
    [] request.how \in {"extract", "markdown"} -> page.text

NextPage ==
  LET index == Head(todo)
      page  == doc.pages[index + 1]
  IN  /\ stage = "pages" /\ todo # <<>> /\ ~PageReadFails(page)
      /\ todo' = Tail(todo)
      /\ reply' = [reply EXCEPT !.entries = Append(@, [page_index |-> index, entry |-> EntryOf(index, page)])]
      /\ spent' = IF request.how = "images" THEN ImagesOf(page).spent ELSE spent
      /\ UNCHANGED <<request, stage>>

Return == stage = "pages" /\ todo = <<>> /\ Continue("done")

PdfInit ==
  /\ request \in PdfCases /\ stage = "spawn" /\ todo = <<>> /\ spent = 0 /\ reply = NoAnswer

PdfNext ==
  \/ with_depth_headroom \/ EnginePanics \/ Scan \/ OpenDocument \/ Report \/ Select
  \/ PageFails \/ NextPage \/ Return

PdfSpec == PdfInit /\ [][PdfNext]_pdf_vars

-----------------------------------------------------------------------------
(* The door.                                                               *)

\* The rule to read a report by (pdf_impl.rs:1131).
Readable(report) ==
  ~report.encrypted \/ report.unlocked_with_supplied_password \/ report.owner_password_only

\* One door: a surface answers only what the report says is readable, is stricter
\* only when a wrong password was given for a document that needs none, answers
\* the selected pages once each in document order, and nothing at all when it
\* refuses, as the surfaces of text and links do for one page that cannot be read;
\* the report itself never refuses for a state that it is asked about, and
\* tells a broken handler whatever password is given.
OneDoor ==
  LET report == security(doc.security, request.password)
      locked == reply.by = "door"
      asked  == IF Whole THEN 0..(Count - 1)
                ELSE {request.pages[k] : k \in 1..Len(request.pages)}
      given  == [k \in 1..Len(reply.entries) |-> reply.entries[k].page_index]
  IN  /\ reply.entries # <<>> => Readable(report)
      /\ locked /\ Readable(report) =>
           report.owner_password_only /\ request.password = "wrong"
      /\ reply.by # "" => reply.entries = <<>>
      /\ stage = "done" /\ reply.by = "" /\ request.how # "security" =>
           /\ {given[k] : k \in 1..Len(given)} = asked
           /\ \A k \in 2..Len(given) : given[k - 1] < given[k]
           /\ request.how \in AllOrNone =>
                \A index \in asked : IF request.how = "links" THEN doc.pages[index + 1].annotations # Unreadable
                                    ELSE doc.pages[index + 1].text # Unreadable
      /\ request.how = "security" => ~locked
      /\ doc.security.encrypted /\ ~doc.security.handler =>
           report = security(doc.security, "none")

-----------------------------------------------------------------------------
(* Pages.                                                                  *)

EntriesOf(how) ==
  IF request.how # how THEN {}
  ELSE {[page |-> doc.pages[reply.entries[k].page_index + 1], of |-> reply.entries[k].entry] :
          k \in 1..Len(reply.entries)}

Painted(page) == IF page.spans = Unreadable THEN <<>> ELSE page.spans

AllShown(page, raw, shown) ==
  Len(raw) = Len(shown) /\ \A k \in 1..Len(raw) : shown[k] = BoxShown(page, raw[k])

SpanBoxes(page) == [k \in 1..Len(Painted(page)) |-> Painted(page)[k].bbox]

LayoutShown(page, layout) ==
  /\ AllShown(page, SpanBoxes(page), layout.spans)
  /\ AllShown(page, SpanBoxes(page), [k \in 1..Len(layout.lines) |-> layout.lines[k].bbox])
  /\ \A k \in 1..Len(layout.lines) : AllShown(page, RawChars(Painted(page)[k]), layout.lines[k].words)
  /\ AllShown(page, [k \in 1..Len(page.images) |-> page.images[k].bbox], layout.images)

CharsShown(page, chars) ==
  /\ Len(chars) = Len(Painted(page))
  /\ \A k \in 1..Len(chars) : AllShown(page, RawChars(Painted(page)[k]), chars[k])

\* Whether a text is turned by the engine, for all that the detector of tables sees.
Frames(page) ==
  {engine_mapped(page.rotation, Painted(page)[k].turned) : k \in 1..Len(Painted(page))}
    \cup (IF page.rulings = <<>> THEN {} ELSE {FALSE})

TablesShown(page, tables) ==
  LET unfit == \/ page.rulings = Unreadable \/ Len(page.rulings) > MAX_TABLE_PRIMITIVES
               \/ Cardinality(Frames(page)) > 1
  IN  /\ tables.tables_refused <=> unfit
      /\ tables.tables_refused => tables.cells = <<>>
      /\ \A k \in 1..Len(tables.cells) :
           LET raw == IF page.rulings = <<>> THEN Painted(page)[k].bbox ELSE page.rulings[k]
           IN  /\ tables.cells[k].bbox = BoxShown(page, raw)
               /\ page.rulings # <<>> =>
                    tables.cells[k].holds =
                      {n \in 1..Len(Painted(page)) : Within(Painted(page)[n].bbox, raw)}

\* Every surface gives a box where the page is shown, whichever of them the engine
\* had turned already, about its own box: spans, lines, words, characters, images
\* and the cells of tables; tables are refused exactly when their text and their
\* rulings are not in one frame, or cannot be told; and a page without a frame has
\* no boxes (pdf_impl.rs 1445-1570, 1955).
BoxesInOneFrame ==
  /\ \A e \in EntriesOf("layout") :
       IF e.of.geometry # NoPageBox THEN LayoutShown(e.page, e.of)
       ELSE e.of.spans = <<>> /\ e.of.lines = <<>> /\ e.of.images = <<>>
  /\ \A e \in EntriesOf("chars") :
       IF e.of.geometry # NoPageBox THEN CharsShown(e.page, e.of.chars) ELSE e.of.chars = <<>>
  /\ \A e \in EntriesOf("tables") :
       IF e.of.geometry # NoPageBox THEN TablesShown(e.page, e.of)
       ELSE e.of.cells = <<>> /\ ~e.of.tables_refused
  /\ \A e \in EntriesOf("images") : \A k \in 1..Len(e.of.images) :
       e.of.images[k].bbox = IF e.of.geometry = NoPageBox THEN NoBox
                             ELSE BoxShown(e.page, e.page.images[k].bbox)
  /\ \A e \in EntriesOf("geometry") : e.of # NoPageBox =>
       LET all == BoxShown(e.page, <<e.page.visible[1], e.page.visible[2],
                                     e.page.visible[3] - e.page.visible[1],
                                     e.page.visible[4] - e.page.visible[2]>>)
       IN  all = <<0, 0, e.of.width_pt, e.of.height_pt>>

-----------------------------------------------------------------------------
(* Labels.                                                                 *)

VALUE == [i |-> 1, v |-> 5, x |-> 10, l |-> 50, c |-> 100, d |-> 500, m |-> 1000]

\* A numeral before a greater one is taken off.
ReadRoman(digits) ==
  Sum([k \in 1..Len(digits) |->
         IF k < Len(digits) /\ VALUE[digits[k]] < VALUE[digits[k + 1]]
         THEN -VALUE[digits[k]] ELSE VALUE[digits[k]]])

ReadAlpha(digits) ==
  LET read[k \in 0..Len(digits)] == IF k = 0 THEN 0 ELSE LETTERS * read[k - 1] + digits[k]
  IN  read[Len(digits)]

\* The number of a page: a range that begins there says it, the last one if there are
\* more, and otherwise it is the page before it that counts on.
Numbered(ranges, page) ==
  LET At(n)   == {k \in 1..Len(ranges) : ranges[k].start_page = n}
      Last(n) == ranges[CHOOSE k \in At(n) : \A l \in At(n) : l <= k]
      real[n \in 0..page] ==
        IF At(n) # {} THEN [style |-> Last(n).style, prefix |-> Last(n).prefix, number |-> Last(n).start_value]
        ELSE IF n = 0 THEN [style |-> "uncovered", prefix |-> "", number |-> 0]
        ELSE [real[n - 1] EXCEPT !.number = @ + 1]
  IN  real[page]

\* A label reads back as the number of its page, is never cut short, and is missing
\* only before the first range and where it would be too long (pdf_impl.rs 760-850).
LabelsReadBack ==
  request.how = "labels" =>
    \A k \in 1..Len(reply.entries) :
      LET label == reply.entries[k].entry
          real  == Numbered(doc.ranges, reply.entries[k].page_index)
      IN  IF label = NoLabel
          THEN \/ real.style = "uncovered"
               \/ real.style = "roman" /\ real.number >= 1000 * (MAX_LABEL_CHARS - ROMAN_TAIL_MAX)
          ELSE /\ label.prefix = real.prefix
               /\ real.style = "decimal" => label.digits = <<real.number>>
               /\ real.style = "roman" =>
                    ReadRoman(label.digits) = real.number /\ Len(label.digits) <= MAX_LABEL_CHARS
               /\ real.style = "alpha" =>
                    /\ ReadAlpha(label.digits) = real.number
                    /\ \A n \in 1..Len(label.digits) : label.digits[n] \in 1..LETTERS
               /\ real.style = "none" => label.digits = <<>>

-----------------------------------------------------------------------------
(* Images.                                                                 *)

\* The images answered so far, in the order of the request.
Joined(lists) ==
  LET joined[k \in 0..Len(lists)] == IF k = 0 THEN <<>> ELSE joined[k - 1] \o lists[k]
  IN  joined[Len(lists)]

Shown(entries)  == Joined([k \in 1..Len(entries) |-> entries[k].entry.images])
Behind(entries) == Joined([k \in 1..Len(entries) |-> doc.pages[entries[k].page_index + 1].images])

\* The limits bind on the bytes that are served, whatever a dictionary says of them:
\* no image is over its limit and the call never over its own; an image that is
\* refused for its size would break the limit it names; what is spent is what was
\* served, whatever was refused in between (pdf_impl.rs 2747-2849, where the comment
\* at 2742-2746 says otherwise: InflationRefusesTheRest); every image has its entry;
\* and what is stored is only served when it cannot be a ciphertext.
BudgetBinds ==
  request.how = "images" =>
    LET shown == Shown(reply.entries)
        images == Behind(reply.entries)
        before(k) == Sum([n \in 1..(k - 1) |-> shown[n].data.bytes])
    IN  /\ Len(shown) = Len(images) /\ spent = before(Len(shown) + 1)
        /\ \A k \in 1..Len(shown) :
             LET data == shown[k].data
                 size == {decode_estimate(images[k]), images[k].decoded.bytes,
                          images[k].byte_size_compressed}
             IN  /\ data.bytes <= request.max_image_bytes
                 /\ before(k) + data.bytes <= MAX_CALL_IMAGE_BYTES
                 /\ data.arm = "size_cap" =>
                      \E n \in size : IF data.scope = "image" THEN n > request.max_image_bytes
                                      ELSE before(k) + n > MAX_CALL_IMAGE_BYTES
                 /\ data.arm \in {"jp2", "j2k"} => images[k].is_inline \/ ~doc.security.encrypted
                 /\ data.arm \in {"jpeg", "raw"} => data.bytes = images[k].decoded.bytes

\* What the comment on actual_size_cap says of a decode that gave more than its
\* estimate and passed the call's limit: "entries after the inflation see the inflated
\* `spent` and refuse" (pdf_impl.rs 2742-2746).
InflationRefusesTheRest ==
  request.how = "images" =>
    LET shown  == Shown(reply.entries)
        images == Behind(reply.entries)
        before(k)   == Sum([n \in 1..(k - 1) |-> shown[n].data.bytes])
        inflated(k) == /\ shown[k].data.arm = "size_cap" /\ shown[k].data.scope = "call"
                       /\ before(k) + decode_estimate(images[k]) <= MAX_CALL_IMAGE_BYTES
    IN  \A k \in 1..Len(shown) : inflated(k) =>
          \A n \in (k + 1)..Len(shown) : shown[n].data.bytes = 0
===============================================================================
