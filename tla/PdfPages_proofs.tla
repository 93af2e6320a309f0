---------------------------- MODULE PdfPages_proofs ----------------------------
(***************************************************************************)
(* What holds of every call on a PDF document, whatever it is asked.  The  *)
(* operators first: the frames of a page for every box, corner and turn,   *)
(* and the bytes of one image.  Then the calls: CallInv, how far a call is *)
(* and who let it in, gives OneDoor; with it EntriesInv, what each entry   *)
(* says of its page and what its images have spent, gives BoxesInOneFrame, *)
(* BudgetBinds and LabelsReadBack.                                         *)
(***************************************************************************)
EXTENDS PdfCalls, TLAPS, WellFoundedInduction, FiniteSetTheorems

\* A box about a corner has the same size.
LEMMA RelativeIs ==
  ASSUME NEW x, NEW y, NEW w, NEW h, NEW m1, NEW m2, NEW m3, NEW m4
  PROVE  Relative(<<x, y, w, h>>, <<m1, m2, m3, m4>>) = <<x - m1, y - m2, w, h>>
  BY DEF Relative

\* A box that was about a corner, written out.
LEMMA AbsoluteIs ==
  ASSUME NEW x, NEW y, NEW w, NEW h, NEW m1, NEW m2, NEW m3, NEW m4
  PROVE  Absolute(<<x, y, w, h>>, <<m1, m2, m3, m4>>) = <<x + m1, y + m2, w, h>>
  BY DEF Absolute

\* The width and the height between two corners, written out.
LEMMA ExtentIs ==
  ASSUME NEW m1, NEW m2, NEW m3, NEW m4
  PROVE  Extent(<<m1, m2, m3, m4>>) = <<m3 - m1, m4 - m2>>
  BY DEF Extent

\* The four turns of a box that lies in a frame.
LEMMA ForwardIs ==
  ASSUME NEW x, NEW y, NEW w, NEW h, NEW f1, NEW f2
  PROVE  /\ rotate_box_forward(<<x, y, w, h>>, <<f1, f2>>, 0)   = <<x, y, w, h>>
         /\ rotate_box_forward(<<x, y, w, h>>, <<f1, f2>>, 90)  = <<y, f1 - x - w, h, w>>
         /\ rotate_box_forward(<<x, y, w, h>>, <<f1, f2>>, 180) = <<f1 - x - w, f2 - y - h, w, h>>
         /\ rotate_box_forward(<<x, y, w, h>>, <<f1, f2>>, 270) = <<f2 - y - h, x, h, w>>
  BY DEF rotate_box_forward

\* What the engine had turned, turned back about the media box, for each turn.
LEMMA UnmapIs ==
  ASSUME NEW x, NEW y, NEW w, NEW h, NEW m1, NEW m2, NEW m3, NEW m4
  PROVE  LET box   == <<x, y, w, h>>
             media == <<m1, m2, m3, m4>>
         IN  /\ unmap_engine_box(box, media, 0)   = <<(x - m1) + m1, (y - m2) + m2, w, h>>
             /\ unmap_engine_box(box, media, 90)  =
                  <<((m3 - m1) - (y - m2) - h) + m1, (x - m1) + m2, h, w>>
             /\ unmap_engine_box(box, media, 180) =
                  <<((m3 - m1) - (x - m1) - w) + m1, ((m4 - m2) - (y - m2) - h) + m2, w, h>>
             /\ unmap_engine_box(box, media, 270) =
                  <<(y - m2) + m1, ((m4 - m2) - (x - m1) - w) + m2, h, w>>
  BY RelativeIs, ExtentIs, AbsoluteIs DEF unmap_engine_box

\* What the engine turned about the media box turns back (pdf_impl.rs:1530).
THEOREM EngineUndone ==
  ASSUME NEW media \in Corners, NEW rotation \in Turns, NEW b \in Boxes
  PROVE  unmap_engine_box(Absolute(rotate_box_forward(Relative(b, media), Extent(media), rotation), media),
                          media, rotation) = b
  <1>1. PICK x \in Int, y \in Int, w \in Nat, h \in Nat : b = <<x, y, w, h>>
    BY DEF Boxes
  <1>2. PICK m1 \in Int, m2 \in Int, m3 \in Int, m4 \in Int : media = <<m1, m2, m3, m4>>
    BY DEF Corners
  <1> DEFINE turned == rotate_box_forward(<<x - m1, y - m2, w, h>>, <<m3 - m1, m4 - m2>>, rotation)
  <1>3. SUFFICES unmap_engine_box(Absolute(turned, <<m1, m2, m3, m4>>), <<m1, m2, m3, m4>>, rotation)
                   = <<x, y, w, h>>
    <2>1. Relative(b, media) = <<x - m1, y - m2, w, h>>
      BY <1>1, <1>2 DEF Relative
    <2>2. Extent(media) = <<m3 - m1, m4 - m2>>
      BY <1>2, ExtentIs, Zenon
    <2> QED BY <1>1, <1>2, <1>3, <2>1, <2>2, Zenon DEF turned
  <1>4. CASE rotation = 0
    <2>1. Absolute(turned, <<m1, m2, m3, m4>>) = <<(x - m1) + m1, (y - m2) + m2, w, h>>
      BY <1>4, ForwardIs, AbsoluteIs
    <2> QED BY <1>4, <2>1, UnmapIs
  <1>5. CASE rotation = 90
    <2>1. Absolute(turned, <<m1, m2, m3, m4>>)
            = <<(y - m2) + m1, ((m3 - m1) - (x - m1) - w) + m2, h, w>>
      BY <1>5, ForwardIs, AbsoluteIs
    <2> QED BY <1>5, <2>1, UnmapIs
  <1>6. CASE rotation = 180
    <2>1. Absolute(turned, <<m1, m2, m3, m4>>)
            = <<((m3 - m1) - (x - m1) - w) + m1, ((m4 - m2) - (y - m2) - h) + m2, w, h>>
      BY <1>6, ForwardIs, AbsoluteIs
    <2> QED BY <1>6, <2>1, UnmapIs
  <1>7. CASE rotation = 270
    <2>1. Absolute(turned, <<m1, m2, m3, m4>>)
            = <<((m4 - m2) - (y - m2) - h) + m1, (x - m1) + m2, h, w>>
      BY <1>7, ForwardIs, AbsoluteIs
    <2> QED BY <1>7, <2>1, UnmapIs
  <1> QED BY <1>4, <1>5, <1>6, <1>7 DEF Turns

-----------------------------------------------------------------------------
(* What a surface shows.                                                   *)

\* Where the page is shown, for each turn.
LEMMA PointIs ==
  ASSUME NEW page, NEW v1, NEW v2, NEW v3, NEW v4, page.visible = <<v1, v2, v3, v4>>, NEW x, NEW y
  PROVE  /\ page.rotation = 0   => PointShown(page, x, y) = <<x - v1, y - v2>>
         /\ page.rotation = 90  => PointShown(page, x, y) = <<y - v2, v3 - x>>
         /\ page.rotation = 180 => PointShown(page, x, y) = <<v3 - x, v4 - y>>
         /\ page.rotation = 270 => PointShown(page, x, y) = <<v4 - y, x - v1>>
  BY DEF PointShown

\* Between two points: the lesser one, and how far the other is.
LEMMA SpannedIs ==
  ASSUME NEW p1 \in Int, NEW p2 \in Int, NEW q1 \in Int, NEW q2 \in Int
  PROVE  /\ p1 <= q1 => Lesser(p1, q1) = p1 /\ Distance(p1, q1) = q1 - p1
         /\ q1 <= p1 => Lesser(p1, q1) = q1 /\ Distance(p1, q1) = p1 - q1
  BY DEF Lesser, Distance

\* A surface shows a box where a reader sees it: the box that its opposite corners span
\* on the page as it is turned (pdf_impl.rs:1490).
THEOREM ForwardShows ==
  ASSUME NEW page, page.visible \in Corners, page.rotation \in Turns, NEW b \in Boxes
  PROVE  Forward(page, b) = BoxShown(page, b)
  <1>1. PICK x \in Int, y \in Int, w \in Nat, h \in Nat : b = <<x, y, w, h>>
    BY DEF Boxes
  <1>2. PICK v1 \in Int, v2 \in Int, v3 \in Int, v4 \in Int : page.visible = <<v1, v2, v3, v4>>
    BY DEF Corners
  <1>3. Forward(page, b)
          = rotate_box_forward(<<x - v1, y - v2, w, h>>, <<v3 - v1, v4 - v2>>, page.rotation)
    <2>1. Relative(b, page.visible) = <<x - v1, y - v2, w, h>>
      BY <1>1, <1>2 DEF Relative
    <2>2. Extent(page.visible) = <<v3 - v1, v4 - v2>>
      BY <1>2, ExtentIs, Zenon
    <2> QED BY <2>1, <2>2, Zenon DEF Forward, map_box_forward
  <1> DEFINE p == PointShown(page, x, y)
             q == PointShown(page, x + w, y + h)
  <1>4. BoxShown(page, b) = <<Lesser(p[1], q[1]), Lesser(p[2], q[2]), Distance(p[1], q[1]), Distance(p[2], q[2])>>
    BY <1>1 DEF BoxShown
  <1>5. CASE page.rotation = 0
    <2>1. p = <<x - v1, y - v2>> /\ q = <<(x + w) - v1, (y + h) - v2>>
      BY <1>2, <1>5, PointIs
    <2>2. /\ Lesser(p[1], q[1]) = x - v1 /\ Distance(p[1], q[1]) = w
          /\ Lesser(p[2], q[2]) = y - v2 /\ Distance(p[2], q[2]) = h
      BY <2>1, SpannedIs DEF Lesser, Distance
    <2> QED BY <1>3, <1>4, <1>5, <2>2, ForwardIs
  <1>6. CASE page.rotation = 90
    <2>1. p = <<y - v2, v3 - x>> /\ q = <<(y + h) - v2, v3 - (x + w)>>
      BY <1>2, <1>6, PointIs
    <2>2. /\ Lesser(p[1], q[1]) = y - v2 /\ Distance(p[1], q[1]) = h
          /\ Lesser(p[2], q[2]) = (v3 - v1) - (x - v1) - w /\ Distance(p[2], q[2]) = w
      BY <2>1 DEF Lesser, Distance
    <2> QED BY <1>3, <1>4, <1>6, <2>2, ForwardIs
  <1>7. CASE page.rotation = 180
    <2>1. p = <<v3 - x, v4 - y>> /\ q = <<v3 - (x + w), v4 - (y + h)>>
      BY <1>2, <1>7, PointIs
    <2>2. /\ Lesser(p[1], q[1]) = (v3 - v1) - (x - v1) - w /\ Distance(p[1], q[1]) = w
          /\ Lesser(p[2], q[2]) = (v4 - v2) - (y - v2) - h /\ Distance(p[2], q[2]) = h
      BY <2>1 DEF Lesser, Distance
    <2> QED BY <1>3, <1>4, <1>7, <2>2, ForwardIs
  <1>8. CASE page.rotation = 270
    <2>1. p = <<v4 - y, x - v1>> /\ q = <<v4 - (y + h), (x + w) - v1>>
      BY <1>2, <1>8, PointIs
    <2>2. /\ Lesser(p[1], q[1]) = (v4 - v2) - (y - v2) - h /\ Distance(p[1], q[1]) = h
          /\ Lesser(p[2], q[2]) = x - v1 /\ Distance(p[2], q[2]) = w
      BY <2>1 DEF Lesser, Distance
    <2> QED BY <1>3, <1>4, <1>8, <2>2, ForwardIs
  <1> QED BY <1>5, <1>6, <1>7, <1>8 DEF Turns

\* A span is shown where its text is painted, whether or not the engine had turned it
\* about the media box (pdf_impl.rs 1445-1570).
THEOREM SpanShown ==
  ASSUME NEW page, page.visible \in Corners, page.media \in Corners, page.rotation \in Turns,
         NEW span, span.bbox \in Boxes,
         NEW s, s.bbox = EngineBox(page, span), s.applied = Applied(page, span)
  PROVE  Forward(page, RawBox(page, s.bbox, IsMapped(page, s))) = BoxShown(page, span.bbox)
  <1>1. RawBox(page, s.bbox, IsMapped(page, s)) = span.bbox
    <2>1. CASE Applied(page, span) = 0
      <3>1. s.bbox = span.bbox
        BY <2>1 DEF EngineBox
      <3>2. ~IsMapped(page, s)
        BY <2>1 DEF IsMapped
      <3> QED BY <3>1, <3>2 DEF RawBox
    <2>2. CASE Applied(page, span) # 0
      <3>1. Applied(page, span) = page.rotation
        BY <2>2 DEF Applied
      <3>2. s.bbox = Absolute(rotate_box_forward(Relative(span.bbox, page.media), Extent(page.media),
                                                 page.rotation), page.media)
        BY <2>2 DEF EngineBox
      <3>3. IsMapped(page, s)
        BY <2>2, <3>1 DEF IsMapped
      <3>4. unmap_engine_box(s.bbox, page.media, page.rotation) = span.bbox
        BY <3>2, EngineUndone
      <3> QED BY <3>3, <3>4 DEF RawBox
    <2> QED BY <2>1, <2>2
  <1> QED BY <1>1, ForwardShows

-----------------------------------------------------------------------------
(* The bytes of an image.                                                  *)

\* The limits that hold for data when the call has used what it has.
Affordable(data, max_image_bytes, used) ==
  /\ data.bytes \in 0..max_image_bytes
  /\ used + data.bytes <= MAX_CALL_IMAGE_BYTES

\* An image without bytes is within any limit and spends nothing.
LEMMA NothingIsAffordable ==
  ASSUME NEW max_image_bytes \in Nat, NEW used \in 0..MAX_CALL_IMAGE_BYTES,
         NEW data, data.bytes = 0
  PROVE  Affordable(data, max_image_bytes, used)
  BY ImagesAssumption DEF Affordable

\* A sum at the width of the counter is not mistaken for one under the limit.
LEMMA UnderIsAffordable ==
  ASSUME NEW max_image_bytes \in Nat, NEW used \in 0..MAX_CALL_IMAGE_BYTES,
         NEW data, data.bytes \in Nat
  PROVE  Affordable(Under(max_image_bytes, used, data), max_image_bytes, used)
  <1> DEFINE cap == actual_size_cap(data.bytes, max_image_bytes, used)
  <1>1. CASE cap = NoCap
    <2>1. cap = IF data.bytes > max_image_bytes THEN SizeCap("image", data.bytes)
                ELSE IF Saturated(used + data.bytes) > MAX_CALL_IMAGE_BYTES
                THEN SizeCap("call", Saturated(used + data.bytes)) ELSE NoCap
      BY DEF actual_size_cap
    <2>2. \A scope, n : SizeCap(scope, n) # NoCap
      BY DEF SizeCap, NoCap
    <2>3. ~(data.bytes > max_image_bytes) /\ ~(Saturated(used + data.bytes) > MAX_CALL_IMAGE_BYTES)
      BY <1>1, <2>1, <2>2
    <2>4. used + data.bytes <= MAX_CALL_IMAGE_BYTES
      BY <2>3, ImagesAssumption DEF Saturated
    <2> QED BY <1>1, <2>3, <2>4 DEF Under, Affordable
  <1>2. CASE cap # NoCap
    <2>1. Under(max_image_bytes, used, data) = cap
      BY <1>2 DEF Under
    <2>2. cap.bytes = 0
      BY <1>2 DEF actual_size_cap, SizeCap
    <2> QED BY <2>1, <2>2, NothingIsAffordable
  <1> QED BY <1>1, <1>2

\* Whatever the dictionary of an image says of it, what is served of it is within its
\* own limit and what is left of the call's (pdf_impl.rs 2723-2770).
THEOREM ImageBytesBind ==
  ASSUME NEW handle, handle.decoded.bytes \in Nat, handle.byte_size_compressed \in Nat,
         NEW encrypted, NEW decode,
         NEW max_image_bytes \in Nat, NEW used \in 0..MAX_CALL_IMAGE_BYTES
  PROVE  Affordable(image_bytes_for(handle, encrypted, decode, max_image_bytes, used),
                    max_image_bytes, used)
  <1> DEFINE data      == image_bytes_for(handle, encrypted, decode, max_image_bytes, used)
             estimated == actual_size_cap(decode_estimate(handle), max_image_bytes, used)
             served    == Served(handle.decoded.arm, handle.decoded.bytes)
             stored    == Served(handle.sniffed, handle.byte_size_compressed)
  <1>1. \/ data = NotRequested
        \/ data = estimated /\ estimated # NoCap
        \/ data = Under(max_image_bytes, used, served)
        \/ data = StoredJpx(handle, encrypted, max_image_bytes, used)
        \/ data = DecodeError(handle.decoded.arm)
    BY DEF image_bytes_for
  <1>2. served.bytes = handle.decoded.bytes /\ stored.bytes = handle.byte_size_compressed
    BY DEF Served
  <1>3. CASE data = NotRequested
    BY <1>3, NothingIsAffordable DEF NotRequested
  <1>4. CASE data = estimated /\ estimated # NoCap
    <2>1. data.bytes = 0
      BY <1>4 DEF actual_size_cap, SizeCap
    <2> QED BY <2>1, NothingIsAffordable
  <1>5. CASE data = Under(max_image_bytes, used, served)
    BY <1>2, <1>5, UnderIsAffordable
  <1>6. CASE data = StoredJpx(handle, encrypted, max_image_bytes, used)
    <2>1. \/ data = Under(max_image_bytes, used, stored)
          \/ data = DecodeError("encrypted") \/ data = DecodeError("not_jpx")
      BY <1>6 DEF StoredJpx
    <2>2. \A why : DecodeError(why).bytes = 0
      BY DEF DecodeError
    <2> QED BY <1>2, <2>1, <2>2, UnderIsAffordable, NothingIsAffordable
  <1>7. CASE data = DecodeError(handle.decoded.arm)
    BY <1>7, NothingIsAffordable DEF DecodeError
  <1> QED BY <1>1, <1>3, <1>4, <1>5, <1>6, <1>7

-----------------------------------------------------------------------------
(* Recursive functions: that one exists, and what its values keep.         *)

\* A nonempty set of naturals has a least member.
LEMMA HasLeast ==
  ASSUME NEW S \in SUBSET Nat, S # {}
  PROVE  \E x \in S : \A y \in S : x <= y
<1> DEFINE R == OpToRel(<, Nat)
<1>1. IsWellFoundedOn(R, Nat)
  BY NatLessThanWellFounded
<1>2. \A y, x \in Nat : y < x => <<y, x>> \in R
  BY DEF OpToRel
<1> HIDE DEF R
<1>3. PICK x \in S : \A y \in S : ~(<<y, x>> \in R)
  BY <1>1, WFMin
<1>4. ASSUME NEW y \in S PROVE x <= y
  <2>1. x \in Nat /\ y \in Nat
    OBVIOUS
  <2>2. ~(y < x)
    BY <1>2, <1>3, <2>1, Zenon
  <2> QED BY <2>1, <2>2
<1> QED BY <1>4

\* What the first value has and every next one takes over, all values have.
LEMMA Stays ==
  ASSUME NEW N \in Nat, NEW X, NEW h, h[0] \in X,
         \A n \in 1..N : h[n - 1] \in X => h[n] \in X
  PROVE  \A n \in 0..N : h[n] \in X
<1> DEFINE Bad == {n \in 0..N : h[n] \notin X}
<1>1. SUFFICES ASSUME Bad # {} PROVE FALSE
  OBVIOUS
<1>2. PICK x \in Bad : \A y \in Bad : x <= y
  <2>1. Bad \in SUBSET Nat
    OBVIOUS
  <2> HIDE DEF Bad
  <2> QED BY <1>1, <2>1, HasLeast
<1>3. x \in 1..N
  BY <1>2
<1>4. x - 1 \in 0..N /\ x - 1 \notin Bad
  BY <1>2, <1>3
<1> QED BY <1>2, <1>3, <1>4

\* f starts with a and takes the steps g.
Runs(f, N, X, a, g) ==
  f \in [0..N -> X] /\ f[0] = a /\ \A n \in 1..N : f[n] = g[n][f[n - 1]]

\* A function can be given by its first value and the steps to the next ones.
LEMMA Recursion ==
  ASSUME NEW N \in Nat, NEW X, NEW a \in X, NEW g \in [1..N -> [X -> X]]
  PROVE  \E f : Runs(f, N, X, a, g)
<1> DEFINE Q(k) == \E f \in [0..k -> X] : f[0] = a /\ \A n \in 1..k : f[n] = g[n][f[n - 1]]
           Bad  == {k \in 0..N : ~Q(k)}
<1>1. Bad = {}
  <2>1. SUFFICES ASSUME Bad # {} PROVE FALSE
    OBVIOUS
  <2>2. PICK x \in Bad : \A y \in Bad : x <= y
    <3>1. Bad \in SUBSET Nat
      OBVIOUS
    <3> HIDE DEF Bad
    <3> QED BY <2>1, <3>1, HasLeast
  <2>3. Q(0)
    <3> DEFINE f == [n \in 0..0 |-> a]
    <3>1. f \in [0..0 -> X] /\ f[0] = a /\ \A n \in 1..0 : f[n] = g[n][f[n - 1]]
      OBVIOUS
    <3> QED BY <3>1
  <2>4. x \in 1..N /\ x - 1 \in 0..N /\ x - 1 \notin Bad
    <3> HIDE DEF Q
    <3> QED BY <2>2, <2>3
  <2>5. PICK f \in [0..(x - 1) -> X] :
          f[0] = a /\ \A n \in 1..(x - 1) : f[n] = g[n][f[n - 1]]
    BY <2>4
  <2> DEFINE h == [n \in 0..x |-> IF n = x THEN g[x][f[x - 1]] ELSE f[n]]
  <2>6. g[x][f[x - 1]] \in X
    BY <2>4, <2>5
  <2>7. h \in [0..x -> X]
    BY <2>4, <2>5, <2>6
  <2>8. h[0] = a
    BY <2>4, <2>5
  <2>9. \A n \in 1..x : h[n] = g[n][h[n - 1]]
    BY <2>4, <2>5
  <2> HIDE DEF h
  <2>10. Q(x)
    BY <2>7, <2>8, <2>9
  <2> QED BY <2>2, <2>10
<1>2. Q(N)
  <2> HIDE DEF Q
  <2> QED BY <1>1
<1> QED BY <1>2 DEF Runs

-----------------------------------------------------------------------------
(* The selection of pages.                                                 *)

Ascending(s) == \A i, j \in 1..Len(s) : i < j => s[i] < s[j]
Has(s, x)    == \E k \in 1..Len(s) : s[k] = x

\* One sequence behind another.
LEMMA ConcatIs ==
  ASSUME NEW S, NEW u \in Seq(S), NEW v \in Seq(S)
  PROVE  /\ u \o v \in Seq(S) /\ Len(u \o v) = Len(u) + Len(v)
         /\ Len(u) \in Nat /\ Len(v) \in Nat
         /\ \A k \in 1..Len(u) : (u \o v)[k] = u[k]
         /\ \A k \in 1..Len(v) : (u \o v)[Len(u) + k] = v[k]
  OBVIOUS

\* A page goes to its place in a sorted list, once.
LEMMA InsertedIs ==
  ASSUME NEW s \in Seq(Nat), Ascending(s), NEW p \in Nat
  PROVE  /\ Inserted(s, p) \in Seq(Nat) /\ Ascending(Inserted(s, p))
         /\ \A x : Has(Inserted(s, p), x) <=> x = p \/ Has(s, x)
<1> DEFINE N == Len(s)
           Splits(n) == \A k \in 1..N : IF k <= n THEN s[k] < p ELSE s[k] > p
           b == CHOOSE n \in 0..N : Splits(n)
           t == SubSeq(s, 1, b) \o <<p>> \o SubSeq(s, b + 1, N)
<1>1. N \in Nat /\ \A k \in 1..N : s[k] \in Nat
  OBVIOUS
<1>2. CASE Has(s, p)
  <2>1. Inserted(s, p) = s
    BY <1>2 DEF Inserted, Has
  <2> QED BY <1>2, <2>1, Zenon
<1>3. CASE ~Has(s, p)
  <2>1. \E n \in 0..N : Splits(n)
    <3> DEFINE Q == {k \in 1..(N + 1) : k <= N => s[k] > p}
    <3>1. Q \in SUBSET Nat /\ N + 1 \in Q
      BY <1>1
    <3>2. PICK x \in Q : \A y \in Q : x <= y
      <4> HIDE DEF Q
      <4> QED BY <3>1, HasLeast
    <3>3. x - 1 \in 0..N
      BY <3>2, <1>1
    <3>4. ASSUME NEW k \in 1..N, k <= x - 1 PROVE s[k] < p
      <4>1. k \notin Q
        BY <3>2, <3>4, <1>1
      <4>2. ~(s[k] > p) /\ s[k] # p
        BY <1>3, <4>1, <1>1 DEF Has
      <4> QED BY <4>2, <1>1
    <3>5. ASSUME NEW k \in 1..N, ~(k <= x - 1) PROVE s[k] > p
      <4>1. x \in 1..N /\ s[x] > p
        BY <3>2, <3>5, <1>1
      <4>2. k = x \/ s[x] < s[k]
        BY <3>5, <4>1, <1>1 DEF Ascending
      <4> QED BY <4>1, <4>2, <1>1
    <3> QED BY <3>3, <3>4, <3>5
  <2>2. b \in 0..N /\ Splits(b)
    <3> HIDE DEF Splits, N
    <3> QED BY <2>1
  <2>3. Inserted(s, p) = t
    BY <1>3 DEF Inserted, Has
  <2> HIDE DEF b
  <2>4. /\ t \in Seq(Nat) /\ Len(t) = N + 1
        /\ \A k \in 1..(N + 1) : t[k] = IF k <= b THEN s[k] ELSE IF k = b + 1 THEN p ELSE s[k - 1]
    <3> DEFINE u == SubSeq(s, 1, b)
               v == SubSeq(s, b + 1, N)
    <3>1. u \in Seq(Nat) /\ Len(u) = b /\ \A k \in 1..b : u[k] = s[k]
      BY <1>1, <2>2
    <3>2. v \in Seq(Nat) /\ Len(v) = N - b /\ \A k \in 1..(N - b) : v[k] = s[k + b]
      BY <1>1, <2>2
    <3>3. t = u \o <<p>> \o v
      OBVIOUS
    <3> HIDE DEF u, v, t, N
    <3> DEFINE w == <<p>>
    <3>6. w \in Seq(Nat) /\ Len(w) = 1 /\ w[1] = p
      OBVIOUS
    <3> HIDE DEF w
    <3>7. u \o w \in Seq(Nat) /\ Len(u \o w) = b + 1
      <4>1. u \o w \in Seq(Nat) /\ Len(u \o w) = Len(u) + Len(w)
        BY <3>1, <3>6, ConcatIs
      <4> QED BY <1>1, <2>2, <3>1, <3>6, <4>1
    <3>8. t = (u \o w) \o v
      BY <3>3 DEF w
    <3>4. t \in Seq(Nat) /\ Len(t) = N + 1
      <4>1. t \in Seq(Nat) /\ Len(t) = Len(u \o w) + Len(v)
        BY <3>2, <3>7, <3>8, ConcatIs
      <4> QED BY <1>1, <2>2, <3>2, <3>7, <4>1
    <3>5. ASSUME NEW k \in 1..(N + 1)
          PROVE  t[k] = IF k <= b THEN s[k] ELSE IF k = b + 1 THEN p ELSE s[k - 1]
      <4>1. CASE k <= b
        BY <4>1, <1>1, <2>2, <3>1, <3>2, <3>3
      <4>2. CASE k = b + 1
        BY <4>2, <1>1, <2>2, <3>1, <3>2, <3>3
      <4>3. CASE k > b + 1
        <5>1. t[k] = v[k - (b + 1)] /\ k - (b + 1) \in 1..(N - b)
          BY <4>3, <1>1, <2>2, <3>1, <3>2, <3>3
        <5>2. v[k - (b + 1)] = s[(k - (b + 1)) + b] /\ (k - (b + 1)) + b = k - 1
          BY <5>1, <3>2, <1>1, <2>2
        <5> QED BY <4>3, <5>1, <5>2, <2>2
      <4> QED BY <4>1, <4>2, <4>3, <2>2
    <3> QED BY <3>4, <3>5
  <2> HIDE DEF t, N, Splits
  <2>5. Ascending(t)
    <3> SUFFICES ASSUME NEW i \in 1..Len(t), NEW j \in 1..Len(t), i < j PROVE t[i] < t[j]
      BY DEF Ascending
    <3>1. i \in 1..(N + 1) /\ j \in 1..(N + 1)
      BY <2>4
    <3>2. CASE j <= b
      <4>1. t[i] = s[i] /\ t[j] = s[j] /\ i \in 1..N /\ j \in 1..N
        BY <3>1, <3>2, <2>4, <2>2, <1>1
      <4> QED BY <4>1 DEF Ascending, N
    <3>3. CASE i <= b /\ ~(j <= b)
      <4>1. t[i] = s[i] /\ s[i] < p /\ i \in 1..N
        BY <3>1, <3>3, <2>4, <2>2, <1>1 DEF Splits
      <4>2. t[j] = p \/ (t[j] = s[j - 1] /\ j - 1 \in 1..N /\ s[j - 1] > p)
        BY <3>1, <3>3, <2>4, <2>2, <1>1 DEF Splits
      <4> QED BY <4>1, <4>2, <1>1
    <3>4. CASE i = b + 1
      <4>1. t[i] = p /\ t[j] = s[j - 1] /\ j - 1 \in 1..N /\ s[j - 1] > p
        BY <3>1, <3>4, <2>4, <2>2, <1>1 DEF Splits
      <4> QED BY <4>1, <1>1
    <3>5. CASE i > b + 1
      <4>3. i - 1 \in 1..N /\ j - 1 \in 1..N /\ i - 1 < j - 1 /\ i > b + 1 /\ j > b + 1
        BY <3>1, <3>5, <2>2, <1>1
      <4>4. t[i] = s[i - 1]
        BY <3>1, <4>3, <2>4, <2>2, <1>1
      <4>5. t[j] = s[j - 1]
        BY <3>1, <4>3, <2>4, <2>2, <1>1
      <4>1. t[i] = s[i - 1] /\ t[j] = s[j - 1] /\ i - 1 \in 1..N /\ j - 1 \in 1..N /\ i - 1 < j - 1
        BY <4>3, <4>4, <4>5
      <4>2. s[i - 1] < s[j - 1]
        <5> DEFINE k == i - 1
                   l == j - 1
        <5>1. k \in 1..N /\ l \in 1..N /\ k < l
          BY <4>1
        <5> HIDE DEF k, l
        <5>2. s[k] < s[l]
          BY <5>1 DEF Ascending, N
        <5> QED BY <5>2 DEF k, l
      <4> QED BY <4>1, <4>2
    <3> QED BY <3>1, <3>2, <3>3, <3>4, <3>5, <2>2
  <2>6. ASSUME NEW x PROVE Has(t, x) <=> x = p \/ Has(s, x)
    <3>1. ASSUME Has(t, x) PROVE x = p \/ Has(s, x)
      <4>1. PICK k \in 1..(N + 1) : t[k] = x
        BY <3>1, <2>4 DEF Has
      <4>2. x = p \/ (x = s[k] /\ k \in 1..N) \/ (x = s[k - 1] /\ k - 1 \in 1..N)
        BY <4>1, <2>2, <2>4, <1>1
      <4> QED BY <4>2 DEF Has, N
    <3>2. ASSUME x = p PROVE Has(t, x)
      <4>1. b + 1 \in 1..Len(t) /\ t[b + 1] = p
        BY <2>2, <2>4, <1>1
      <4> QED BY <3>2, <4>1 DEF Has
    <3>3. ASSUME Has(s, x) PROVE Has(t, x)
      <4>1. PICK k \in 1..N : s[k] = x
        BY <3>3 DEF Has, N
      <4>2. CASE k <= b
        <5>1. k \in 1..Len(t) /\ t[k] = x
          BY <4>1, <4>2, <2>2, <2>4, <1>1
        <5> QED BY <5>1 DEF Has
      <4>3. CASE ~(k <= b)
        <5>1. k + 1 \in 1..Len(t) /\ t[k + 1] = x
          BY <4>1, <4>3, <2>2, <2>4, <1>1
        <5> QED BY <5>1 DEF Has
      <4> QED BY <4>2, <4>3
    <3> QED BY <3>1, <3>2, <3>3
  <2> QED BY <2>3, <2>4, <2>5, <2>6
<1> QED BY <1>2, <1>3

\* What holds at first and is taken over by every next value holds of all.
LEMMA HoldsAt ==
  ASSUME NEW N \in Nat, NEW P, P[0], \A n \in 1..N : P[n - 1] => P[n]
  PROVE  \A n \in 0..N : P[n]
<1> DEFINE Bad == {n \in 0..N : ~P[n]}
<1>1. SUFFICES ASSUME Bad # {} PROVE FALSE
  OBVIOUS
<1>2. PICK x \in Bad : \A y \in Bad : x <= y
  <2>1. Bad \in SUBSET Nat
    OBVIOUS
  <2> HIDE DEF Bad
  <2> QED BY <1>1, <2>1, HasLeast
<1>3. x \in 1..N
  BY <1>2
<1>4. x - 1 \in 0..N /\ x - 1 \notin Bad
  BY <1>2, <1>3
<1> QED BY <1>2, <1>3, <1>4

\* A selection is sorted and has every page that was asked for, once.
LEMMA NormalIs ==
  ASSUME NEW pages \in Seq(Nat)
  PROVE  /\ normalize_selection(pages) \in Seq(Nat) /\ Ascending(normalize_selection(pages))
         /\ \A x : Has(normalize_selection(pages), x) <=> Has(pages, x)
<1> DEFINE N == Len(pages)
           X == {s \in Seq(Nat) : Ascending(s)}
           a == <<>>
           Then(n, x) == Inserted(x, pages[n])
           P(h) == h = [n \in 0..N |-> IF n = 0 THEN a ELSE Then(n, h[n - 1])]
           g == [n \in 1..N |-> [x \in X |-> Then(n, x)]]
<1>1. N \in Nat /\ a \in X /\ \A n \in 1..N : pages[n] \in Nat
  <2>1. a \in Seq(Nat) /\ Len(a) = 0
    OBVIOUS
  <2>2. Ascending(a)
    BY <2>1 DEF Ascending
  <2> QED BY <2>1, <2>2
<1>2. \A n \in 1..N, x \in X : Then(n, x) \in X
  BY <1>1, InsertedIs
<1>3. normalize_selection(pages) = (CHOOSE h : P(h))[N]
  BY DEF normalize_selection
<1>14. \A n \in 1..N, x \in X : \A y : Has(Then(n, x), y) <=> y = pages[n] \/ Has(x, y)
  BY <1>1, InsertedIs
<1>15. \A x \in X : x \in Seq(Nat) /\ Ascending(x)
  OBVIOUS
<1>16. N = Len(pages) /\ a = <<>>
  OBVIOUS
<1> HIDE DEF N, X, a, Then
<1>4. g \in [1..N -> [X -> X]]
  BY <1>2
<1>5. PICK f \in [0..N -> X] : f[0] = a /\ \A n \in 1..N : f[n] = g[n][f[n - 1]]
  <2> HIDE DEF g
  <2>1. \E f : Runs(f, N, X, a, g)
    BY <1>1, <1>4, Recursion
  <2> QED BY <2>1 DEF Runs
<1>6. P(f)
  <2>1. ASSUME NEW n \in 1..N PROVE f[n] = Then(n, f[n - 1])
    <3>1. n - 1 \in 0..N
      BY <1>1
    <3>2. f[n - 1] \in X
      BY <1>5, <3>1
    <3>3. g[n] = [x \in X |-> Then(n, x)]
      OBVIOUS
    <3>4. f[n] = g[n][f[n - 1]]
      BY <1>5
    <3> HIDE DEF g
    <3> QED BY <3>2, <3>3, <3>4
  <2>2. \A n \in 0..N : f[n] = IF n = 0 THEN a ELSE Then(n, f[n - 1])
    BY <1>1, <1>5, <2>1
  <2>3. f = [n \in 0..N |-> f[n]]
    OBVIOUS
  <2> QED BY <2>2, <2>3
<1> DEFINE sorted == CHOOSE h : P(h)
<1> HIDE DEF P
<1>7. P(sorted)
  BY <1>6
<1> HIDE DEF sorted
<1>8. sorted = [n \in 0..N |-> IF n = 0 THEN a ELSE Then(n, sorted[n - 1])]
  BY <1>7 DEF P
<1>9. sorted[0] = a /\ \A n \in 1..N : sorted[n] = Then(n, sorted[n - 1])
  BY <1>1, <1>8
<1>10. \A n \in 0..N : sorted[n] \in X
  BY <1>1, <1>2, <1>9, Stays
<1> DEFINE Q == [n \in 0..N |-> \A y : Has(sorted[n], y) <=> \E k \in 1..n : pages[k] = y]
<1>11. Q[0]
  <2>1. \A y : ~Has(a, y)
    BY <1>16 DEF Has
  <2> QED BY <1>1, <1>9, <2>1
<1>12. ASSUME NEW n \in 1..N, Q[n - 1] PROVE Q[n]
  <2>1. n - 1 \in 0..N /\ n \in 0..N
    BY <1>1
  <2>2. \A y : Has(sorted[n - 1], y) <=> \E k \in 1..(n - 1) : pages[k] = y
    BY <1>12, <2>1
  <2>3. \A y : Has(sorted[n], y) <=> y = pages[n] \/ Has(sorted[n - 1], y)
    <3>1. sorted[n - 1] \in X /\ sorted[n] = Then(n, sorted[n - 1])
      BY <1>9, <1>10, <2>1
    <3> QED BY <1>14, <3>1
  <2>4. \A y : Has(sorted[n], y) <=> \E k \in 1..n : pages[k] = y
    <3>1. ASSUME NEW y PROVE (y = pages[n] \/ \E k \in 1..(n - 1) : pages[k] = y) <=> \E k \in 1..n : pages[k] = y
      <4>1. \A k : k \in 1..n <=> k = n \/ k \in 1..(n - 1)
        BY <1>1
      <4> QED BY <4>1
    <3> QED BY <2>2, <2>3, <3>1
  <2> QED BY <2>1, <2>4
<1> HIDE DEF Q
<1>13. Q[N]
  <2>1. \A n \in 0..N : Q[n]
    BY <1>1, <1>11, <1>12, HoldsAt
  <2> QED BY <1>1, <2>1
<1>17. \A y : Has(sorted[N], y) <=> Has(pages, y)
  <2>1. Q[N] = \A y : Has(sorted[N], y) <=> \E k \in 1..N : pages[k] = y
    BY <1>1 DEF Q
  <2>2. \A y : Has(sorted[N], y) <=> \E k \in 1..N : pages[k] = y
    BY <1>13, <2>1
  <2>3. \A y : Has(pages, y) <=> \E k \in 1..N : pages[k] = y
    BY <1>16 DEF Has
  <2> QED BY <2>2, <2>3
<1> QED BY <1>1, <1>3, <1>10, <1>15, <1>17 DEF sorted

-----------------------------------------------------------------------------
(* A call, from the thread to its answer.                                  *)

\* The empty list is a list and has no places.
LEMMA NothingIsSeq ==
  IsSeq(<<>>) /\ Len(<<>>) = 0 /\ 1..Len(<<>>) = {}
<1>1. Len(<<>>) = 0
  OBVIOUS
<1>2. <<>> = [k \in 1..0 |-> <<>>[k]]
  OBVIOUS
<1>3. 1..0 = {}
  OBVIOUS
<1> QED BY <1>1, <1>2, <1>3 DEF IsSeq

\* One more behind a sequence, of whatever it is.
LEMMA AppendIs ==
  ASSUME NEW s, IsSeq(s), NEW e
  PROVE  /\ IsSeq(Append(s, e)) /\ Len(Append(s, e)) = Len(s) + 1
         /\ \A k \in 1..Len(s) : Append(s, e)[k] = s[k]
         /\ Append(s, e)[Len(s) + 1] = e
<1> DEFINE N == Len(s)
           S == {s[k] : k \in 1..N} \cup {e}
<1>1. N \in Nat /\ s = [k \in 1..N |-> s[k]]
  BY DEF IsSeq
<1>2. \A k \in 1..N : s[k] \in S
  OBVIOUS
<1> HIDE DEF S, N
<1>3. [k \in 1..N |-> s[k]] \in Seq(S)
  BY <1>1, <1>2
<1>4. s \in Seq(S) /\ e \in S
  BY <1>1, <1>3 DEF S
<1>5. /\ Append(s, e) \in Seq(S) /\ Len(Append(s, e)) = N + 1
      /\ \A k \in 1..N : Append(s, e)[k] = s[k]
      /\ Append(s, e)[N + 1] = e
  BY <1>4 DEF N
<1>6. Append(s, e) = [k \in 1..Len(Append(s, e)) |-> Append(s, e)[k]]
  <2> DEFINE t == Append(s, e)
  <2>1. t \in Seq(S)
    BY <1>5
  <2> HIDE DEF t
  <2>2. t = [k \in 1..Len(t) |-> t[k]]
    BY <2>1
  <2> QED BY <2>2 DEF t
<1> QED BY <1>1, <1>5, <1>6 DEF IsSeq, N

DoorOpened == request.how # "security" /\ open(doc.security, request.password) = "opened"

\* The pages answered are the first of those selected.
AnsweredSoFar ==
  /\ Len(reply.entries) <= Len(Selected)
  /\ \A k \in 1..Len(reply.entries) : reply.entries[k].page_index = Selected[k]

\* What is left of the pages selected, all of them in the document.
LeftToDo ==
  /\ Len(reply.entries) + Len(todo) = Len(Selected)
  /\ \A k \in 1..Len(todo) : todo[k] = Selected[Len(reply.entries) + k]
  /\ \A k \in 1..Len(Selected) : Selected[k] \in 0..(Count - 1)

ReplyIs ==
  /\ reply = [by |-> reply.by, refused |-> reply.refused, report |-> reply.report, entries |-> reply.entries]
  /\ IsSeq(reply.entries)

\* Pages that cannot be read are not answered.
EntriesRead ==
  \A k \in 1..Len(reply.entries) :
    /\ reply.entries[k].page_index \in 0..(Count - 1)
    /\ ~PageReadFails(doc.pages[reply.entries[k].page_index + 1])

Refused ==
  /\ reply.by # "" /\ reply.entries = <<>>
  /\ reply.by = "door" =>
       /\ request.how # "security" /\ reply.refused = open(doc.security, request.password)
       /\ reply.refused # "opened"

\* How far a call is says what has been made sure of.
CallInv ==
  /\ request \in PdfCases /\ ReplyIs /\ EntriesRead /\ todo \in Seq(Nat)
  /\ stage \in {"spawn", "scan", "open", "select", "pages", "done"}
  /\ stage \in {"spawn", "scan", "open", "select"} => reply = NoAnswer /\ spent = 0
  /\ stage \in {"select", "pages"} => DoorOpened
  /\ stage = "pages" => reply.by = "" /\ AnsweredSoFar /\ LeftToDo
  /\ stage = "done" =>
       \/ Refused
       \/ reply.by = "" /\ request.how = "security" /\ reply.entries = <<>>
       \/ reply.by = "" /\ DoorOpened /\ AnsweredSoFar /\ Len(reply.entries) = Len(Selected)

\* An answer not begun refuses nothing and holds nothing.
LEMMA NoAnswerIs ==
  /\ NoAnswer.by = "" /\ NoAnswer.refused = "" /\ NoAnswer.entries = <<>> /\ Len(NoAnswer.entries) = 0
  /\ reply = NoAnswer => ReplyIs /\ EntriesRead
<1>1. /\ NoAnswer.by = "" /\ NoAnswer.refused = "" /\ NoAnswer.entries = <<>> /\ NoAnswer.report = <<>>
      /\ Len(NoAnswer.entries) = 0
  BY NothingIsSeq DEF NoAnswer
<1>2. ASSUME reply = NoAnswer PROVE ReplyIs /\ EntriesRead
  <2>1. EntriesRead
    <3>1. 1..Len(reply.entries) = {}
      BY <1>1, <1>2, NothingIsSeq, Zenon
    <3> QED BY <3>1, Zenon DEF EntriesRead
  <2>2. reply = [by |-> reply.by, refused |-> reply.refused, report |-> reply.report, entries |-> reply.entries]
    BY <1>2 DEF NoAnswer
  <2> QED BY <1>1, <1>2, <2>1, <2>2, NothingIsSeq DEF ReplyIs
<1> QED BY <1>1, <1>2

\* A call begins within the invariant.
LEMMA CallStarts == PdfInit => CallInv
<1> SUFFICES ASSUME PdfInit PROVE CallInv
  OBVIOUS
<1>1. ReplyIs /\ EntriesRead
  BY NoAnswerIs DEF PdfInit
<1>2. todo \in Seq(Nat)
  <2>1. <<>> \in Seq(Nat)
    OBVIOUS
  <2> QED BY <2>1 DEF PdfInit
<1> QED BY <1>1, <1>2 DEF PdfInit, CallInv

\* A refusal answers nothing.
LEMMA RefusalKeeps ==
  ASSUME CallInv, NEW by, by # "", NEW why, RefuseCall(by, why),
         by = "door" => request.how # "security" /\ why = open(doc.security, request.password) /\ why # "opened"
  PROVE  CallInv'
<1>1. /\ reply' = [by |-> by, refused |-> why, report |-> <<>>, entries |-> <<>>]
      /\ stage' = "done" /\ request' = request /\ todo' = todo
  BY DEF RefuseCall, NoAnswer
<1>2. reply'.by = by /\ reply'.refused = why /\ reply'.entries = <<>> /\ reply'.report = <<>>
  BY <1>1
<1>3. ReplyIs'
  BY <1>1, <1>2, NothingIsSeq DEF ReplyIs
<1>4. EntriesRead'
  <2>1. 1..Len(reply'.entries) = {}
    BY <1>2, NothingIsSeq, Zenon
  <2> QED BY <2>1, Zenon DEF EntriesRead
<1>5. Refused'
  BY <1>1, <1>2 DEF Refused, doc
<1>6. request' \in PdfCases /\ todo' \in Seq(Nat)
  BY <1>1 DEF CallInv
<1> QED BY <1>1, <1>3, <1>4, <1>5, <1>6 DEF CallInv

\* The pages selected are ascending: those asked for, or all of the document.
LEMMA SelectedIs ==
  ASSUME request \in PdfCases
  PROVE  /\ Selected \in Seq(Nat) /\ Ascending(Selected) /\ Count \in Nat
         /\ Whole => \A x : Has(Selected, x) <=> x \in 0..(Count - 1)
         /\ ~Whole => \A x : Has(Selected, x) <=> Has(request.pages, x)
<1>1. request.pages \in Seq(Nat) /\ Count \in Nat
  BY PdfCasesAssumption DEF IsCall, IsListOf, IsSeq, Count, doc
<1>2. CASE Whole
  <2> DEFINE N == Count
             s == [k \in 1..N |-> k - 1]
  <2>1. Selected = s
    BY <1>2 DEF Selected
  <2> HIDE DEF N
  <2>2. N \in Nat
    BY <1>1 DEF N
  <2>3. s \in Seq(Nat) /\ Len(s) = N
    BY <2>2
  <2>4. Ascending(s)
    BY <2>2, <2>3 DEF Ascending
  <2>5. ASSUME NEW x PROVE Has(s, x) <=> x \in 0..(N - 1)
    <3>1. ASSUME Has(s, x) PROVE x \in 0..(N - 1)
      BY <2>2, <2>3, <3>1 DEF Has
    <3>2. ASSUME x \in 0..(N - 1) PROVE Has(s, x)
      <4>1. x + 1 \in 1..Len(s) /\ s[x + 1] = x
        BY <2>2, <2>3, <3>2
      <4> QED BY <4>1 DEF Has
    <3> QED BY <3>1, <3>2
  <2> QED BY <1>1, <1>2, <2>1, <2>3, <2>4, <2>5 DEF N
<1>3. CASE ~Whole
  <2>1. Selected = normalize_selection(request.pages)
    BY <1>3 DEF Selected
  <2> QED BY <1>1, <1>3, <2>1, NormalIs
<1> QED BY <1>2, <1>3

\* What a call asks for does not change under it.
LEMMA SelectedSame == ASSUME request' = request PROVE Selected' = Selected /\ Count' = Count /\ doc' = doc
BY DEF Selected, Whole, Count, doc

\* The pages selected are a list.
LEMMA SelectedCounts ==
  ASSUME request \in PdfCases
  PROVE  Len(Selected) \in Nat
<1>1. Selected \in Seq(Nat)
  BY SelectedIs
<1> HIDE DEF Selected
<1> QED BY <1>1

\* What is left of a list after its head is what came after it, in order.
LEMMA TailIs ==
  ASSUME NEW s \in Seq(Nat), s # <<>>
  PROVE  /\ Len(s) \in Nat \ {0} /\ Head(s) = s[1] /\ Tail(s) \in Seq(Nat) /\ Len(Tail(s)) = Len(s) - 1
         /\ \A k \in 1..Len(Tail(s)) : Tail(s)[k] = s[k + 1]
  OBVIOUS

\* One more page is answered.
LEMMA NextPageKeeps ==
  ASSUME CallInv, NextPage
  PROVE  CallInv'
<1> DEFINE index == Head(todo)
           e == [page_index |-> index, entry |-> EntryOf(index, doc.pages[index + 1])]
           n == Len(reply.entries)
<1>1. /\ stage = "pages" /\ todo # <<>> /\ ~PageReadFails(doc.pages[index + 1]) /\ todo' = Tail(todo)
      /\ reply' = [reply EXCEPT !.entries = Append(@, e)]
      /\ request' = request /\ stage' = stage
  BY DEF NextPage
<1>2. /\ request \in PdfCases /\ ReplyIs /\ EntriesRead /\ todo \in Seq(Nat) /\ DoorOpened
      /\ reply.by = "" /\ AnsweredSoFar /\ LeftToDo
  BY <1>1 DEF CallInv
<1>3. reply' = [by |-> reply.by, refused |-> reply.refused, report |-> reply.report, entries |-> Append(reply.entries, e)]
  <2>1. reply = [by |-> reply.by, refused |-> reply.refused, report |-> reply.report, entries |-> reply.entries]
    BY <1>2 DEF ReplyIs
  <2> HIDE DEF e
  <2> QED BY <1>1, <2>1
<1>4. reply'.by = "" /\ reply'.entries = Append(reply.entries, e)
  BY <1>2, <1>3
<1>5. /\ IsSeq(Append(reply.entries, e)) /\ Len(Append(reply.entries, e)) = n + 1 /\ n \in Nat
      /\ \A k \in 1..n : Append(reply.entries, e)[k] = reply.entries[k]
      /\ Append(reply.entries, e)[n + 1] = e
  <2>1. IsSeq(reply.entries)
    BY <1>2 DEF ReplyIs
  <2> HIDE DEF e
  <2> QED BY <2>1, AppendIs DEF IsSeq
<1>6. e.page_index = index
  OBVIOUS
<1> HIDE DEF e
<1>7. ReplyIs'
  <2>1. /\ reply'.by = reply.by /\ reply'.refused = reply.refused /\ reply'.report = reply.report
        /\ reply'.entries = Append(reply.entries, e)
    BY <1>3
  <2> QED BY <1>3, <1>5, <2>1 DEF ReplyIs
<1>8. /\ Len(todo) \in Nat \ {0} /\ index = todo[1] /\ Len(todo') = Len(todo) - 1 /\ todo' \in Seq(Nat)
      /\ \A k \in 1..Len(todo') : todo'[k] = todo[k + 1]
  <2>1. todo \in Seq(Nat) /\ todo # <<>> /\ todo' = Tail(todo)
    BY <1>1, <1>2
  <2> QED BY <2>1, TailIs
<1>9. index = Selected[n + 1] /\ index \in 0..(Count - 1) /\ n + 1 \in 1..Len(Selected) /\ Len(Selected) \in Nat
  <2>1. Len(Selected) \in Nat
    BY <1>2, SelectedCounts
  <2>4. Len(todo) \in Nat \ {0} /\ n \in Nat
    BY <1>5, <1>8
  <2>5. n + Len(todo) = Len(Selected) /\ \A k \in 1..Len(todo) : todo[k] = Selected[n + k]
    BY <1>2 DEF LeftToDo
  <2>2. todo[1] = Selected[n + 1]
    BY <2>4, <2>5
  <2>3. n + 1 \in 1..Len(Selected)
    BY <2>1, <2>4, <2>5
  <2>6. Selected[n + 1] \in 0..(Count - 1)
    BY <1>2, <2>3 DEF LeftToDo
  <2> QED BY <1>8, <2>1, <2>2, <2>3, <2>6
<1>10. Selected' = Selected /\ Count' = Count /\ doc' = doc /\ DoorOpened'
  BY <1>1, <1>2, SelectedSame DEF DoorOpened
<1>11. AnsweredSoFar'
  <2>1. Len(reply'.entries) = n + 1
    BY <1>4, <1>5
  <2>2. ASSUME NEW k \in 1..(n + 1) PROVE Append(reply.entries, e)[k].page_index = Selected[k]
    <3>1. CASE k = n + 1
      BY <3>1, <1>5, <1>6, <1>9
    <3>2. CASE k # n + 1
      <4>1. k \in 1..n
        BY <3>2, <1>5
      <4> QED BY <4>1, <1>2, <1>5 DEF AnsweredSoFar
    <3> QED BY <3>1, <3>2
  <2>3. n + 1 <= Len(Selected)
    BY <1>5, <1>9
  <2>4. \A k \in 1..Len(reply'.entries) : reply'.entries[k].page_index = Selected'[k]
    BY <1>4, <1>10, <2>1, <2>2
  <2>5. Len(reply'.entries) <= Len(Selected')
    BY <1>10, <2>1, <2>3
  <2> QED BY <2>4, <2>5 DEF AnsweredSoFar
<1>12. LeftToDo'
  <2>1. Len(reply'.entries) = n + 1
    BY <1>4, <1>5
  <2>2. n + Len(todo) = Len(Selected) /\ \A k \in 1..Len(todo) : todo[k] = Selected[n + k]
    BY <1>2 DEF LeftToDo
  <2>6. n \in Nat /\ Len(todo) \in Nat \ {0} /\ Len(todo') = Len(todo) - 1
    BY <1>5, <1>8
  <2> HIDE DEF n
  <2>3. (n + 1) + Len(todo') = Len(Selected)
    BY <2>2, <2>6
  <2>4. ASSUME NEW k \in 1..Len(todo') PROVE todo'[k] = Selected[(n + 1) + k]
    <3>1. k + 1 \in 1..Len(todo) /\ n + (k + 1) = (n + 1) + k
      BY <2>6
    <3>2. todo[k + 1] = Selected[n + (k + 1)]
      BY <2>2, <3>1
    <3> QED BY <1>8, <3>1, <3>2
  <2>5. \A k \in 1..Len(Selected) : Selected[k] \in 0..(Count - 1)
    BY <1>2 DEF LeftToDo
  <2> QED BY <1>10, <2>1, <2>3, <2>4, <2>5 DEF LeftToDo
<1>13. EntriesRead'
  <2>1. \A page : PageReadFails(page)' = PageReadFails(page)
    BY <1>1 DEF PageReadFails
  <2>2. Len(reply'.entries) = n + 1
    BY <1>4, <1>5
  <2>3. ASSUME NEW k \in 1..(n + 1)
        PROVE  LET i == Append(reply.entries, e)[k].page_index
               IN  i \in 0..(Count - 1) /\ ~PageReadFails(doc.pages[i + 1])
    <3>1. CASE k = n + 1
      BY <3>1, <1>1, <1>5, <1>6, <1>9
    <3>2. CASE k # n + 1
      <4>1. k \in 1..n
        BY <3>2, <1>5
      <4>2. Append(reply.entries, e)[k] = reply.entries[k]
        BY <4>1, <1>5
      <4> QED BY <4>1, <4>2, <1>2 DEF EntriesRead
    <3> QED BY <3>1, <3>2
  <2>4. \A page : PageReadFails(page) <=> IF request.how = "links" THEN page.annotations = Unreadable
            ELSE request.how \in {"extract", "markdown"} /\ page.text = Unreadable
    BY DEF PageReadFails
  <2> QED BY <1>1, <1>4, <1>10, <2>2, <2>3 DEF EntriesRead, PageReadFails
<1> QED BY <1>1, <1>2, <1>4, <1>7, <1>8, <1>10, <1>11, <1>12, <1>13 DEF CallInv

\* The invariant of a call holds where nothing changes.
LEMMA CallStutters == ASSUME CallInv, UNCHANGED pdf_vars PROVE CallInv'
<1>1. request' = request /\ stage' = stage /\ todo' = todo /\ spent' = spent /\ reply' = reply
  BY DEF pdf_vars
<1>2. Selected' = Selected /\ Count' = Count /\ doc' = doc
  BY <1>1, SelectedSame
<1> QED BY <1>1, <1>2 DEF CallInv, ReplyIs, EntriesRead, PageReadFails, DoorOpened, AnsweredSoFar, LeftToDo, Refused

\* Only how far the call is changes.
LEMMA ContinueKeeps ==
  ASSUME CallInv, NEW to, Continue(to), to \in {"scan", "open", "select", "done"},
         stage \in {"spawn", "scan", "open", "select"} => to # "done",
         to = "select" => DoorOpened, stage # "done",
         to = "done" => stage = "pages" /\ todo = <<>>, stage = "pages" => to = "done"
  PROVE  CallInv'
<1>1. request' = request /\ stage' = to /\ todo' = todo /\ spent' = spent /\ reply' = reply
  BY DEF Continue
<1>2. Selected' = Selected /\ Count' = Count /\ doc' = doc
  BY <1>1, SelectedSame
<1>3. /\ request \in PdfCases /\ ReplyIs /\ EntriesRead /\ todo \in Seq(Nat)
      /\ stage \in {"spawn", "scan", "open", "select", "pages"}
  BY DEF CallInv
<1>4. ReplyIs' /\ EntriesRead'
  BY <1>1, <1>2, <1>3 DEF ReplyIs, EntriesRead, PageReadFails
<1>5. CASE to # "done"
  <2>1. reply = NoAnswer /\ spent = 0 /\ stage # "pages"
    BY <1>3, <1>5 DEF CallInv
  <2>2. DoorOpened' <=> DoorOpened
    BY <1>1, <1>2 DEF DoorOpened
  <2>3. reply' = NoAnswer /\ spent' = 0
    BY <1>1, <2>1
  <2> QED BY <1>1, <1>3, <1>4, <1>5, <2>2, <2>3 DEF CallInv
<1>6. CASE to = "done"
  <2>1. DoorOpened /\ reply.by = "" /\ AnsweredSoFar /\ LeftToDo
    BY <1>6 DEF CallInv
  <2>2. Len(todo) = 0 /\ Len(reply.entries) \in Nat
    BY <1>3, <1>6 DEF ReplyIs, IsSeq
  <2>5. Len(reply.entries) + Len(todo) = Len(Selected)
    BY <2>1 DEF LeftToDo
  <2>3. Len(reply.entries) = Len(Selected)
    BY <2>2, <2>5
  <2>4. DoorOpened' /\ AnsweredSoFar' /\ (reply'.by = "") /\ (Len(reply.entries) = Len(Selected))'
    BY <1>1, <1>2, <2>1, <2>3 DEF DoorOpened, AnsweredSoFar
  <2> QED BY <1>1, <1>3, <1>4, <1>6, <2>4 DEF CallInv
<1> QED BY <1>5, <1>6

\* The selection of pages keeps the invariant of a call.
LEMMA SelectKeeps ==
  ASSUME CallInv, Select
  PROVE  CallInv'
<1>1. /\ request \in PdfCases /\ ReplyIs /\ EntriesRead /\ todo \in Seq(Nat) /\ stage = "select"
      /\ DoorOpened /\ reply = NoAnswer /\ spent = 0
  BY DEF CallInv, Select
<1>2. CASE ~Whole /\ (Selected = <<>> \/ \E k \in 1..Len(Selected) : Selected[k] >= Count)
  <2>1. RefuseCall("selection", "pages")
    BY <1>2 DEF Select
  <2> QED BY <2>1, RefusalKeeps
<1>3. CASE ~(~Whole /\ (Selected = <<>> \/ \E k \in 1..Len(Selected) : Selected[k] >= Count))
  <2>1. todo' = Selected /\ stage' = "pages" /\ request' = request /\ spent' = spent /\ reply' = reply
    BY <1>3 DEF Select
  <2>2. Selected' = Selected /\ Count' = Count /\ doc' = doc
    BY <2>1, SelectedSame
  <2>3. Selected \in Seq(Nat) /\ Count \in Nat /\ Len(Selected) \in Nat
    BY <1>1, SelectedIs, SelectedCounts
  <2>4. ReplyIs' /\ EntriesRead' /\ DoorOpened'
    BY <1>1, <2>1, <2>2 DEF ReplyIs, EntriesRead, PageReadFails, DoorOpened
  <2>5. \A k \in 1..Len(Selected) : Selected[k] \in 0..(Count - 1)
    <3>1. CASE Whole
      <4>1. \A x : Has(Selected, x) <=> x \in 0..(Count - 1)
        BY <1>1, <3>1, SelectedIs
      <4> QED BY <4>1 DEF Has
    <3>2. CASE ~Whole
      <4>1. \A k \in 1..Len(Selected) : ~(Selected[k] >= Count)
        BY <1>3, <3>2
      <4> HIDE DEF Selected, Count
      <4>2. \A k \in 1..Len(Selected) : Selected[k] \in Nat
        BY <2>3
      <4> QED BY <2>3, <4>1, <4>2
    <3> QED BY <3>1, <3>2
  <2>6. reply.by = "" /\ Len(reply.entries) = 0 /\ 1..Len(reply.entries) = {}
    BY <1>1, NoAnswerIs, NothingIsSeq
  <2>10. Len(reply.entries) = 0 /\ Len(Selected) \in Nat
    BY <2>3, <2>6, Zenon
  <2>7. AnsweredSoFar'
    <3>1. Len(reply.entries) <= Len(Selected)
      BY <2>10
    <3>2. \A k \in 1..Len(reply.entries) : reply.entries[k].page_index = Selected[k]
      BY <2>6, Zenon
    <3> QED BY <2>1, <2>2, <3>1, <3>2 DEF AnsweredSoFar
  <2>8. LeftToDo'
    <3>1. Len(reply.entries) + Len(Selected) = Len(Selected)
      BY <2>10
    <3>2. ASSUME NEW k \in 1..Len(Selected) PROVE Selected[k] = Selected[Len(reply.entries) + k]
      <4>1. 0 + k = k
        BY <2>3
      <4> QED BY <2>6, <4>1
    <3> QED BY <2>1, <2>2, <2>5, <3>1, <3>2 DEF LeftToDo
  <2>9. (reply.by = "")' /\ request' \in PdfCases /\ todo' \in Seq(Nat)
    BY <1>1, <2>1, <2>3, <2>6
  <2> QED BY <2>1, <2>4, <2>7, <2>8, <2>9 DEF CallInv
<1> QED BY <1>2, <1>3

\* The report on security keeps the invariant of a call.
LEMMA ReportKeeps ==
  ASSUME CallInv, Report
  PROVE  CallInv'
<1> DEFINE report == security(doc.security, request.password)
<1>1. /\ request.how = "security" /\ stage' = "done" /\ request' = request /\ todo' = todo
      /\ reply' = [NoAnswer EXCEPT !.report = <<report>>]
      /\ request \in PdfCases /\ todo \in Seq(Nat)
  BY DEF Report, CallInv
<1> HIDE DEF report
<1>2. reply' = [by |-> "", refused |-> "", report |-> <<report>>, entries |-> <<>>]
  BY <1>1 DEF NoAnswer
<1>3. reply'.by = "" /\ reply'.entries = <<>> /\ ReplyIs'
  <2>1. reply'.by = "" /\ reply'.refused = "" /\ reply'.report = <<report>> /\ reply'.entries = <<>>
    BY <1>2
  <2> QED BY <1>2, <2>1, NothingIsSeq DEF ReplyIs
<1>4. EntriesRead'
  <2>1. 1..Len(reply'.entries) = {}
    BY <1>3, NothingIsSeq, Zenon
  <2> QED BY <2>1, Zenon DEF EntriesRead
<1> QED BY <1>1, <1>3, <1>4 DEF CallInv

\* Every step of a call keeps what is known of it.
LEMMA CallKeeps ==
  ASSUME CallInv, [PdfNext]_pdf_vars
  PROVE  CallInv'
<1>1. CASE with_depth_headroom
  <2>1. stage = "spawn" /\ (Continue("scan") \/ RefuseCall("thread", "io"))
    BY <1>1 DEF with_depth_headroom
  <2>2. CASE Continue("scan")
    BY <2>1, <2>2, ContinueKeeps
  <2>3. CASE RefuseCall("thread", "io")
    BY <2>3, RefusalKeeps
  <2> QED BY <2>1, <2>2, <2>3
<1>2. CASE EnginePanics
  <2>1. RefuseCall("engine", "malformed")
    BY <1>2 DEF EnginePanics
  <2> QED BY <2>1, RefusalKeeps
<1>3. CASE Scan
  <2> DEFINE verdict == scan_document(doc.bytes)
  <2>1. stage = "scan" /\ (Continue("open") \/ RefuseCall("scan", verdict))
    BY <1>3 DEF Scan
  <2> HIDE DEF verdict
  <2>2. CASE Continue("open")
    BY <2>1, <2>2, ContinueKeeps
  <2>3. CASE RefuseCall("scan", verdict)
    BY <2>3, RefusalKeeps
  <2> QED BY <2>1, <2>2, <2>3
<1>4. CASE OpenDocument
  <2> DEFINE opened == open(doc.security, request.password)
  <2>1. /\ stage = "open" /\ request.how # "security"
        /\ IF opened = "opened" THEN Continue("select") ELSE RefuseCall("door", opened)
    BY <1>4 DEF OpenDocument
  <2>2. CASE opened = "opened"
    <3>1. DoorOpened
      BY <2>1, <2>2 DEF DoorOpened
    <3>2. Continue("select")
      BY <2>1, <2>2
    <3> QED BY <2>1, <3>1, <3>2, ContinueKeeps
  <2>3. CASE opened # "opened"
    <3>1. RefuseCall("door", opened)
      BY <2>1, <2>3
    <3> QED BY <2>1, <2>3, <3>1, RefusalKeeps
  <2> QED BY <2>2, <2>3
<1>5. CASE Report
  BY <1>5, ReportKeeps
<1>6. CASE Select
  BY <1>6, SelectKeeps
<1>7. CASE PageFails
  <2>1. RefuseCall("engine", "malformed")
    BY <1>7 DEF PageFails
  <2> QED BY <2>1, RefusalKeeps
<1>8. CASE NextPage
  BY <1>8, NextPageKeeps
<1>9. CASE Return
  <2>1. stage = "pages" /\ todo = <<>> /\ Continue("done")
    BY <1>9 DEF Return
  <2> QED BY <2>1, ContinueKeeps
<1>10. CASE UNCHANGED pdf_vars
  BY <1>10, CallStutters
<1> QED BY <1>1, <1>2, <1>3, <1>4, <1>5, <1>6, <1>7, <1>8, <1>9, <1>10 DEF PdfNext

\* The report of a document tells what the door does with it.
LEMMA DoorAndReport ==
  ASSUME NEW sec \in [encrypted : BOOLEAN, handler : BOOLEAN, empty_opens : BOOLEAN],
         NEW password \in {"none", "right", "wrong"}
  PROVE  LET report == security(sec, password)
             opened == open(sec, password)
         IN  /\ opened = "opened" => Readable(report)
             /\ opened # "opened" /\ Readable(report) => report.owner_password_only /\ password = "wrong"
             /\ sec.encrypted /\ ~sec.handler => report = security(sec, "none")
<1> DEFINE unlocked == IF password = "none" THEN is_authenticated(sec) ELSE authenticate(sec, password) = "yes"
           report   == security(sec, password)
<1>1. /\ report.encrypted = sec.encrypted /\ report.unlocked_with_supplied_password = unlocked
      /\ report.owner_password_only = (sec.encrypted /\ is_authenticated(sec))
  BY DEF security
<1>2. Readable(report) <=> ~sec.encrypted \/ unlocked \/ (sec.encrypted /\ is_authenticated(sec))
  BY <1>1, Zenon DEF Readable
<1>3. sec.encrypted \in BOOLEAN /\ sec.handler \in BOOLEAN /\ sec.empty_opens \in BOOLEAN
  OBVIOUS
<1> HIDE DEF report
<1>4. /\ password = "none" => (open(sec, password) = "opened" <=> ~(sec.encrypted /\ ~is_authenticated(sec)))
      /\ password # "none" => (open(sec, password) = "opened" <=> authenticate(sec, password) = "yes")
  BY <1>3 DEF open, authenticate, is_authenticated
<1>5. authenticate(sec, password) = "yes" <=> ~sec.encrypted \/ (sec.handler /\ password = "right")
  BY <1>3 DEF authenticate
<1>6. is_authenticated(sec) <=> ~sec.encrypted \/ (sec.handler /\ sec.empty_opens)
  BY DEF is_authenticated
<1>7. open(sec, password) = "opened" => Readable(report)
  BY <1>2, <1>4, <1>5, <1>6
<1>8. ASSUME open(sec, password) # "opened", Readable(report)
      PROVE  report.owner_password_only /\ password = "wrong"
  <2>1. sec.encrypted /\ is_authenticated(sec) /\ password = "wrong"
    BY <1>2, <1>4, <1>5, <1>6, <1>8
  <2> QED BY <1>1, <2>1
<1>9. ASSUME sec.encrypted, ~sec.handler PROVE report = security(sec, "none")
  <2>1. unlocked = FALSE /\ is_authenticated(sec) = FALSE
    BY <1>3, <1>5, <1>6, <1>9
  <2> QED BY <2>1 DEF security, report
<1> QED BY <1>7, <1>8, <1>9 DEF report

\* The invariant of a call says who was let in.
LEMMA DoorHolds ==
  ASSUME CallInv
  PROVE  OneDoor
<1> DEFINE report == security(doc.security, request.password)
           opened == open(doc.security, request.password)
           locked == reply.by = "door"
           asked  == IF Whole THEN 0..(Count - 1) ELSE {request.pages[k] : k \in 1..Len(request.pages)}
           given  == [k \in 1..Len(reply.entries) |-> reply.entries[k].page_index]
<1>1. /\ doc.security \in [encrypted : BOOLEAN, handler : BOOLEAN, empty_opens : BOOLEAN]
      /\ request.password \in {"none", "right", "wrong"} /\ request \in PdfCases
  BY PdfCasesAssumption DEF CallInv, IsCall, doc
<1>2. /\ opened = "opened" => Readable(report)
      /\ opened # "opened" /\ Readable(report) => report.owner_password_only /\ request.password = "wrong"
      /\ doc.security.encrypted /\ ~doc.security.handler => report = security(doc.security, "none")
  BY <1>1, DoorAndReport
<1>3. ASSUME reply.entries # <<>> PROVE Readable(report)
  <2>1. reply # NoAnswer
    BY <1>3, NoAnswerIs
  <2>2. DoorOpened
    BY <1>3, <2>1 DEF CallInv, Refused
  <2> QED BY <1>2, <2>2 DEF DoorOpened
<1>4. ASSUME locked PROVE request.how # "security" /\ opened # "opened"
  <2>1. reply # NoAnswer
    BY <1>4, NoAnswerIs
  <2>2. Refused
    BY <1>4, <2>1 DEF CallInv
  <2> QED BY <1>4, <2>2 DEF Refused
<1>5. ASSUME reply.by # "" PROVE reply.entries = <<>>
  <2>1. reply # NoAnswer
    BY <1>5, NoAnswerIs
  <2>2. Refused
    BY <1>5, <2>1 DEF CallInv
  <2> QED BY <2>2 DEF Refused
<1>6. ASSUME stage = "done", reply.by = "", request.how # "security"
      PROVE  /\ {given[k] : k \in 1..Len(given)} = asked
             /\ \A k \in 2..Len(given) : given[k - 1] < given[k]
             /\ request.how \in AllOrNone =>
                  \A index \in asked : IF request.how = "links" THEN doc.pages[index + 1].annotations # Unreadable
                                      ELSE doc.pages[index + 1].text # Unreadable
  <2>1. AnsweredSoFar /\ Len(reply.entries) = Len(Selected) /\ EntriesRead
    BY <1>6 DEF CallInv, Refused
  <2> DEFINE n == Len(Selected)
  <2>2. n \in Nat /\ Len(reply.entries) = n /\ \A k \in 1..n : reply.entries[k].page_index = Selected[k]
    BY <1>1, <2>1, SelectedCounts DEF AnsweredSoFar
  <2>3. given = [k \in 1..n |-> Selected[k]]
    BY <2>2
  <2> HIDE DEF n, given, asked
  <2>4. Len(given) = n /\ \A k \in 1..n : given[k] = Selected[k]
    BY <2>2, <2>3
  <2>5. \A x : Has(Selected, x) <=> x \in asked
    <3>1. CASE Whole
      BY <1>1, <3>1, SelectedIs, Zenon DEF asked
    <3>2. CASE ~Whole
      <4>1. \A x : Has(Selected, x) <=> Has(request.pages, x)
        BY <1>1, <3>2, SelectedIs
      <4>2. \A x : Has(request.pages, x) <=> x \in asked
        BY <3>2, Zenon DEF Has, asked
      <4> QED BY <4>1, <4>2, Zenon
    <3> QED BY <3>1, <3>2
  <2>6. {given[k] : k \in 1..Len(given)} = asked
    <3>1. \A x : Has(Selected, x) <=> \E k \in 1..n : Selected[k] = x
      BY DEF Has, n
    <3>2. \A x : x \in asked <=> \E k \in 1..n : given[k] = x
      BY <2>4, <2>5, <3>1
    <3>3. \A x : x \in {given[k] : k \in 1..Len(given)} <=> \E k \in 1..n : given[k] = x
      BY <2>4
    <3> QED BY <3>2, <3>3
  <2>7. \A k \in 2..Len(given) : given[k - 1] < given[k]
    <3>1. Ascending(Selected)
      BY <1>1, SelectedIs
    <3>2. \A i, j \in 1..n : i < j => Selected[i] < Selected[j]
      BY <3>1, Zenon DEF Ascending, n
    <3>3. ASSUME NEW k \in 2..n PROVE Selected[k - 1] < Selected[k]
      <4>1. k - 1 \in 1..n /\ k \in 1..n /\ k - 1 < k
        BY <2>2
      <4> DEFINE i == k - 1
      <4>2. i \in 1..n /\ i < k
        BY <4>1
      <4> HIDE DEF i
      <4>3. Selected[i] < Selected[k]
        BY <3>2, <4>1, <4>2
      <4> QED BY <4>3 DEF i
    <3>4. \A k \in 2..n : k - 1 \in 1..n /\ k \in 1..n
      BY <2>2
    <3> QED BY <2>4, <3>3, <3>4
  <2>8. ASSUME request.how \in AllOrNone, NEW index \in asked
        PROVE  IF request.how = "links" THEN doc.pages[index + 1].annotations # Unreadable
               ELSE doc.pages[index + 1].text # Unreadable
    <3>1. PICK k \in 1..n : Selected[k] = index
      BY <2>5, <2>8 DEF Has, n
    <3>2. reply.entries[k].page_index = index
      BY <2>2, <3>1
    <3>3. ~PageReadFails(doc.pages[reply.entries[k].page_index + 1])
      BY <2>1, <2>2, <3>1 DEF EntriesRead
    <3>4. ~PageReadFails(doc.pages[index + 1])
      BY <3>2, <3>3
    <3>5. request.how \in {"links", "extract", "markdown"}
      BY <2>8 DEF AllOrNone
    <3> QED BY <3>4, <3>5 DEF PageReadFails
  <2> QED BY <2>6, <2>7, <2>8
<1> HIDE DEF report, opened, given, asked
<1>7. (reply.entries # <<>> => Readable(report)) /\ (locked /\ Readable(report) => report.owner_password_only /\ request.password = "wrong")
  BY <1>2, <1>3, <1>4
<1>8. (reply.by # "" => reply.entries = <<>>) /\ (request.how = "security" => ~locked)
  BY <1>4, <1>5
<1> QED BY <1>2, <1>6, <1>7, <1>8, Zenon DEF OneDoor, report, opened, given, asked

\* One door for every surface: what is answered is what the report calls readable, for
\* the pages that were asked for, each once and in the order of the document, and
\* a refusal answers nothing (pdf_impl.rs 705-727, 1150-1198, 3498-3510).
THEOREM DoorIsOne == PdfSpec => []OneDoor
<1>1. PdfSpec => []CallInv
  <2>1. CallInv /\ [PdfNext]_pdf_vars => CallInv'
    BY CallKeeps
  <2> QED BY CallStarts, <2>1, PTL DEF PdfSpec
<1>2. CallInv => OneDoor
  BY DoorHolds
<1> QED BY <1>1, <1>2, PTL

-----------------------------------------------------------------------------
(* Where the boxes of an entry are.                                        *)

\* A sum is the last of the sums of what comes first.
LEMMA SumIs ==
  ASSUME NEW ns, NEW N \in Nat, Len(ns) = N, \A k \in 1..N : ns[k] \in Int
  PROVE  \E w \in [0..N -> Int] :
           w[0] = 0 /\ (\A n \in 1..N : w[n] = w[n - 1] + ns[n]) /\ Sum(ns) = w[N]
<1> DEFINE X == Int
           P(h) == h = [n \in 0..N |-> IF n = 0 THEN 0 ELSE h[n - 1] + ns[n]]
           g == [n \in 1..N |-> [x \in X |-> x + ns[n]]]
<1>1. Sum(ns) = (CHOOSE h : P(h))[N]
  BY DEF Sum
<1>2. g \in [1..N -> [X -> X]]
  OBVIOUS
<1>3. PICK f : Runs(f, N, X, 0, g)
  <2> HIDE DEF g
  <2>1. 0 \in X
    OBVIOUS
  <2> HIDE DEF X
  <2> QED BY <1>2, <2>1, Recursion
<1>4. f \in [0..N -> Int] /\ f[0] = 0 /\ \A n \in 1..N : f[n] = g[n][f[n - 1]]
  BY <1>3 DEF Runs
<1>5. P(f)
  <2>1. ASSUME NEW n \in 1..N PROVE f[n] = f[n - 1] + ns[n]
    <3>1. n - 1 \in 0..N
      OBVIOUS
    <3>2. f[n - 1] \in Int /\ f[n] = g[n][f[n - 1]]
      BY <1>4, <3>1
    <3> QED BY <3>2
  <2>2. \A n \in 0..N : f[n] = IF n = 0 THEN 0 ELSE f[n - 1] + ns[n]
    BY <1>4, <2>1
  <2> HIDE DEF g
  <2>3. f = [n \in 0..N |-> f[n]]
    BY <1>4
  <2> QED BY <2>2, <2>3
<1> DEFINE w == CHOOSE h : P(h)
<1> HIDE DEF P, g
<1>6. P(w)
  BY <1>5
<1> HIDE DEF w
<1>7. w = [n \in 0..N |-> IF n = 0 THEN 0 ELSE w[n - 1] + ns[n]]
  BY <1>6 DEF P
<1>8. w[0] = 0 /\ \A n \in 1..N : w[n] = w[n - 1] + ns[n]
  BY <1>7
<1>9. \A n \in 0..N : w[n] \in Int
  <2>1. w[0] \in X
    BY <1>8
  <2>2. \A n \in 1..N : w[n - 1] \in X => w[n] \in X
    BY <1>8
  <2> HIDE DEF X
  <2>3. \A n \in 0..N : w[n] \in X
    BY <2>1, <2>2, Stays
  <2> QED BY <2>3 DEF X
<1>10. w \in [0..N -> Int]
  BY <1>7, <1>9
<1> QED BY <1>1, <1>8, <1>10 DEF w

\* The parts of a span and the boxes of its characters.
LEMMA SpanIs ==
  ASSUME NEW span, IsSpan(span)
  PROVE  /\ span.bbox \in Boxes /\ span.turned \in BOOLEAN /\ span.advances \in Seq(Nat)
         /\ Len(span.advances) \in Nat \ {0} /\ Len(RawChars(span)) = Len(span.advances)
         /\ \A b : [span EXCEPT !.bbox = b].bbox = b /\ [span EXCEPT !.bbox = b].turned = span.turned
         /\ \A n \in 1..Len(span.advances) : RawChars(span)[n] \in Boxes
<1>1. span \in [bbox : Boxes, turned : BOOLEAN, advances : Seq(Nat) \ {<<>>}]
  BY DEF IsSpan
<1>2. /\ span.bbox \in Boxes /\ span.turned \in BOOLEAN /\ span.advances \in Seq(Nat)
      /\ span.advances # <<>>
      /\ \A b : [span EXCEPT !.bbox = b].bbox = b /\ [span EXCEPT !.bbox = b].turned = span.turned
  <2> HIDE DEF Boxes
  <2> QED BY <1>1
<1> DEFINE s == span.advances
           b == span.bbox
<1>3. s \in Seq(Nat) /\ s # <<>> /\ b \in Boxes
  BY <1>2
<1>4. RawChars(span) = [k \in 1..Len(s) |-> <<b[1] + Sum(SubSeq(s, 1, k - 1)), b[2], s[k], b[4]>>]
  BY DEF RawChars, to_chars
<1> HIDE DEF s, b
<1>5. Len(s) \in Nat \ {0}
  BY <1>3
<1>6. Len(RawChars(span)) = Len(s)
  BY <1>4, <1>5
<1>7. ASSUME NEW n \in 1..Len(s) PROVE RawChars(span)[n] \in Boxes
  <2> DEFINE u == SubSeq(s, 1, n - 1)
  <2>1. u \in Seq(Nat) /\ Len(u) = n - 1 /\ n - 1 \in Nat
    BY <1>3, <1>5
  <2> HIDE DEF u
  <2>2. \A k \in 1..Len(u) : u[k] \in Int
    BY <2>1
  <2>3. Sum(u) \in Int
    <3>1. Len(u) \in Nat
      BY <2>1
    <3>2. PICK w \in [0..Len(u) -> Int] : Sum(u) = w[Len(u)]
      BY <2>2, <3>1, SumIs
    <3> QED BY <3>1, <3>2
  <2>4. PICK x \in Int, y \in Int, c \in Nat, h \in Nat : b = <<x, y, c, h>>
    BY <1>3 DEF Boxes
  <2>5. b[1] = x /\ b[2] = y /\ b[4] = h /\ s[n] \in Nat
    BY <1>3, <2>4
  <2>6. x + Sum(u) \in Int
    BY <2>3
  <2>7. RawChars(span)[n] = <<x + Sum(u), y, s[n], h>>
    BY <1>4, <2>5 DEF u
  <2> QED BY <2>5, <2>6, <2>7 DEF Boxes
<1> QED BY <1>2, <1>5, <1>6, <1>7 DEF s

\* What the engine had turned is turned back before a surface shows it.
LEMMA RawIs ==
  ASSUME NEW page, page.media \in Corners, page.rotation \in Turns,
         NEW span, span.bbox \in Boxes,
         NEW mapped \in BOOLEAN, mapped <=> page.rotation # 0 /\ engine_mapped(page.rotation, span.turned)
  PROVE  RawBox(page, EngineBox(page, span), mapped) = span.bbox
<1>1. CASE mapped
  <2>1. Applied(page, span) = page.rotation /\ page.rotation # 0
    BY <1>1 DEF Applied
  <2>2. EngineBox(page, span)
          = Absolute(rotate_box_forward(Relative(span.bbox, page.media), Extent(page.media), page.rotation),
                     page.media)
    BY <2>1 DEF EngineBox
  <2>3. unmap_engine_box(EngineBox(page, span), page.media, page.rotation) = span.bbox
    BY <2>2, EngineUndone
  <2> QED BY <1>1, <2>3 DEF RawBox
<1>2. CASE ~mapped
  <2>1. Applied(page, span) = 0
    BY <1>2 DEF Applied
  <2> QED BY <1>2, <2>1 DEF RawBox, EngineBox
<1> QED BY <1>1, <1>2

\* A page with a frame.
Framed(page) == IsPage(page) /\ page_box(page) # NoPageBox

\* A page with a frame has its boxes and its turn.
LEMMA FramedIs ==
  ASSUME NEW page, Framed(page)
  PROVE  page.media \in Corners /\ page.visible \in Corners /\ page.rotation \in Turns
<1>1. BoxIsRead(page)
  BY DEF Framed, page_box
<1> QED BY <1>1 DEF Framed, IsPage, BoxIsRead

\* The spans that the engine gives are those that are painted, in their order.
LEMMA SpansIs ==
  ASSUME NEW page, IsPage(page)
  PROVE  LET spans == extract_spans(page)
             n == Len(Painted(page))
         IN  /\ n \in Nat /\ Len(spans) = n /\ \A k \in 1..n : IsSpan(Painted(page)[k])
             /\ n = 0 <=> spans = <<>>
             /\ \A k \in 1..n :
                  /\ spans[k].bbox = EngineBox(page, Painted(page)[k])
                  /\ spans[k].turned = Painted(page)[k].turned
                  /\ spans[k].advances = Painted(page)[k].advances
                  /\ IsMapped(page, spans[k]) <=>
                       page.rotation # 0 /\ engine_mapped(page.rotation, Painted(page)[k].turned)
<1> DEFINE spans == extract_spans(page)
<1>1. CASE page.spans = Unreadable
  <2>1. Painted(page) = <<>> /\ spans = <<>>
    BY <1>1 DEF Painted, extract_spans
  <2> QED BY <2>1, NothingIsSeq, Zenon
<1>2. CASE page.spans # Unreadable
  <2> DEFINE n == Len(page.spans)
  <2>1. /\ Painted(page) = page.spans /\ n \in Nat /\ \A k \in 1..n : IsSpan(page.spans[k])
    BY <1>2 DEF Painted, IsPage, IsListOf, IsSeq
  <2>2. spans = [k \in 1..n |->
          [bbox |-> EngineBox(page, page.spans[k]), applied |-> Applied(page, page.spans[k]),
           turned |-> page.spans[k].turned, advances |-> page.spans[k].advances]]
    BY <1>2 DEF extract_spans
  <2> HIDE DEF spans, n
  <2>3. Len(spans) = n /\ (n = 0 <=> spans = <<>>)
    BY <2>1, <2>2
  <2>4. ASSUME NEW k \in 1..n
        PROVE  /\ spans[k].bbox = EngineBox(page, page.spans[k])
               /\ spans[k].turned = page.spans[k].turned
               /\ spans[k].advances = page.spans[k].advances
               /\ spans[k].applied = Applied(page, page.spans[k])
    BY <2>2
  <2>5. ASSUME NEW k \in 1..n
        PROVE  IsMapped(page, spans[k]) <=>
                 page.rotation # 0 /\ engine_mapped(page.rotation, page.spans[k].turned)
    BY <2>4 DEF IsMapped, Applied
  <2> QED BY <2>1, <2>3, <2>4, <2>5 DEF spans, n
<1> QED BY <1>1, <1>2

\* Spans are shown where they are painted.
LEMMA LayoutSpansShown ==
  ASSUME NEW page, Framed(page)
  PROVE  AllShown(page, SpanBoxes(page), LayoutSpans(page))
<1> DEFINE spans == extract_spans(page)
           n == Len(Painted(page))
<1>1. /\ n \in Nat /\ Len(spans) = n
      /\ \A k \in 1..n :
           /\ IsSpan(Painted(page)[k])
           /\ spans[k].bbox = EngineBox(page, Painted(page)[k])
           /\ IsMapped(page, spans[k]) <=>
                page.rotation # 0 /\ engine_mapped(page.rotation, Painted(page)[k].turned)
  BY SpansIs DEF Framed
<1>2. LayoutSpans(page) = [k \in 1..n |-> Forward(page, RawBox(page, spans[k].bbox, IsMapped(page, spans[k])))]
  BY <1>1 DEF LayoutSpans
<1>3. SpanBoxes(page) = [k \in 1..n |-> Painted(page)[k].bbox]
  BY DEF SpanBoxes
<1> HIDE DEF spans, n
<1>4. ASSUME NEW k \in 1..n
      PROVE  Forward(page, RawBox(page, spans[k].bbox, IsMapped(page, spans[k])))
               = BoxShown(page, Painted(page)[k].bbox)
  <2>1. page.media \in Corners /\ page.visible \in Corners /\ page.rotation \in Turns
    BY FramedIs
  <2>2. Painted(page)[k].bbox \in Boxes
    BY <1>1, SpanIs
  <2>3. RawBox(page, EngineBox(page, Painted(page)[k]), IsMapped(page, spans[k])) = Painted(page)[k].bbox
    <3>1. IsMapped(page, spans[k]) \in BOOLEAN
      BY DEF IsMapped
    <3> QED BY <1>1, <2>1, <2>2, <3>1, RawIs
  <2> QED BY <1>1, <2>1, <2>2, <2>3, ForwardShows
<1>5. Len(LayoutSpans(page)) = n /\ Len(SpanBoxes(page)) = n
  BY <1>1, <1>2, <1>3
<1>6. ASSUME NEW k \in 1..n PROVE LayoutSpans(page)[k] = BoxShown(page, SpanBoxes(page)[k])
  BY <1>2, <1>3, <1>4
<1> QED BY <1>5, <1>6 DEF AllShown

\* A line is shown where its span is, and its words where the characters are.
LEMMA LayoutLinesShown ==
  ASSUME NEW page, Framed(page)
  PROVE  LET lines == LayoutLines(page)
         IN  /\ AllShown(page, SpanBoxes(page), [k \in 1..Len(lines) |-> lines[k].bbox])
             /\ \A k \in 1..Len(lines) : AllShown(page, RawChars(Painted(page)[k]), lines[k].words)
<1> DEFINE lines == LayoutLines(page)
           given == extract_text_lines(page)
           n == Len(Painted(page))
           span(k) == Painted(page)[k]
           size(k) == Len(span(k).advances)
           mapped(k) == page.rotation # 0 /\ engine_mapped(page.rotation, span(k).turned)
           word(k, m) == [span(k) EXCEPT !.bbox = RawChars(span(k))[m]]
<1>1. n \in Nat /\ \A k \in 1..n : IsSpan(span(k))
  BY SpansIs DEF Framed
<1>2. /\ Len(given) = n
      /\ \A k \in 1..n :
           /\ given[k].bbox = EngineBox(page, span(k))
           /\ given[k].words = [m \in 1..size(k) |-> [bbox |-> EngineBox(page, word(k, m)), turned |-> span(k).turned]]
  <2>1. CASE page.spans = Unreadable
    <3>1. Painted(page) = <<>> /\ given = <<>>
      BY <2>1 DEF Painted, extract_text_lines
    <3> QED BY <3>1, NothingIsSeq, Zenon
  <2>2. CASE page.spans # Unreadable
    <3>1. Painted(page) = page.spans
      BY <2>2 DEF Painted
    <3>2. given = [k \in 1..n |->
            [bbox |-> EngineBox(page, span(k)),
             words |-> [m \in 1..size(k) |-> [bbox |-> EngineBox(page, word(k, m)), turned |-> span(k).turned]]]]
      BY <2>2, <3>1 DEF extract_text_lines
    <3> DEFINE words(k) == [m \in 1..size(k) |-> [bbox |-> EngineBox(page, word(k, m)), turned |-> span(k).turned]]
               box(k) == EngineBox(page, span(k))
    <3>3. given = [k \in 1..n |-> [bbox |-> box(k), words |-> words(k)]]
      BY <3>2, Zenon
    <3>4. n \in Nat
      BY <1>1
    <3> HIDE DEF given, n, words, box
    <3>5. Len(given) = n /\ \A k \in 1..n : given[k].bbox = box(k) /\ given[k].words = words(k)
      BY <3>3, <3>4
    <3> QED BY <3>5 DEF words, box
  <2> QED BY <2>1, <2>2
<1>3. lines = [k \in 1..n |->
        LET l == given[k]
            line_mapped == /\ page.rotation # 0
                           /\ \A m \in 1..Len(l.words) : engine_mapped(page.rotation, l.words[m].turned)
        IN  [bbox |-> Forward(page, RawBox(page, l.bbox, line_mapped)),
             words |-> [m \in 1..Len(l.words) |-> Forward(page, RawBox(page, l.words[m].bbox, line_mapped))]]]
  BY <1>2 DEF LayoutLines
<1> HIDE DEF lines, given, n
<1>4. Len(lines) = n
  BY <1>1, <1>3
<1>5. page.media \in Corners /\ page.visible \in Corners /\ page.rotation \in Turns
  BY FramedIs
<1>6. ASSUME NEW k \in 1..n
      PROVE  /\ lines[k].bbox = BoxShown(page, span(k).bbox)
             /\ Len(lines[k].words) = size(k)
             /\ \A m \in 1..size(k) : lines[k].words[m] = BoxShown(page, RawChars(span(k))[m])
  <2> DEFINE l == given[k]
             s == span(k)
             line_mapped == /\ page.rotation # 0
                            /\ \A m \in 1..Len(l.words) : engine_mapped(page.rotation, l.words[m].turned)
  <2>1. /\ s.bbox \in Boxes /\ size(k) \in Nat \ {0}
        /\ \A b : [s EXCEPT !.bbox = b].bbox = b /\ [s EXCEPT !.bbox = b].turned = s.turned
        /\ \A m \in 1..size(k) : RawChars(s)[m] \in Boxes
    BY <1>1, SpanIs
  <2>2. lines[k] = [bbox |-> Forward(page, RawBox(page, l.bbox, line_mapped)),
                    words |-> [m \in 1..Len(l.words) |-> Forward(page, RawBox(page, l.words[m].bbox, line_mapped))]]
    BY <1>3
  <2>3. /\ l.bbox = EngineBox(page, s)
        /\ l.words = [m \in 1..size(k) |-> [bbox |-> EngineBox(page, word(k, m)), turned |-> s.turned]]
    BY <1>2
  <2> HIDE DEF l, s, size, word
  <2>4. /\ Len(l.words) = size(k)
        /\ \A m \in 1..size(k) : l.words[m].turned = s.turned /\ l.words[m].bbox = EngineBox(page, word(k, m))
    BY <2>1, <2>3
  <2>5. line_mapped <=> page.rotation # 0 /\ engine_mapped(page.rotation, s.turned)
    <3>1. 1 \in 1..size(k)
      BY <2>1
    <3> QED BY <2>4, <3>1
  <2>6. line_mapped \in BOOLEAN
    OBVIOUS
  <2> HIDE DEF line_mapped
  <2>7. RawBox(page, l.bbox, line_mapped) = s.bbox
    BY <1>5, <2>1, <2>3, <2>5, <2>6, RawIs
  <2>8. ASSUME NEW m \in 1..size(k) PROVE RawBox(page, l.words[m].bbox, line_mapped) = RawChars(s)[m]
    <3>1. word(k, m).bbox = RawChars(s)[m] /\ word(k, m).turned = s.turned /\ word(k, m).bbox \in Boxes
      BY <2>1 DEF word, s
    <3> QED BY <1>5, <2>4, <2>5, <2>6, <3>1, RawIs
  <2>9. lines[k].bbox = Forward(page, s.bbox)
    BY <2>2, <2>7
  <2>10. lines[k].words = [m \in 1..size(k) |-> Forward(page, RawBox(page, l.words[m].bbox, line_mapped))]
    BY <2>2, <2>4
  <2>11. /\ Len(lines[k].words) = size(k)
         /\ \A m \in 1..size(k) : lines[k].words[m] = Forward(page, RawChars(s)[m])
    BY <2>1, <2>8, <2>10
  <2>12. \A b \in Boxes : Forward(page, b) = BoxShown(page, b)
    BY <1>5, ForwardShows
  <2> QED BY <2>1, <2>9, <2>11, <2>12 DEF s
<1>7. AllShown(page, SpanBoxes(page), [k \in 1..Len(lines) |-> lines[k].bbox])
  <2> DEFINE shown == [k \in 1..Len(lines) |-> lines[k].bbox]
             raw == SpanBoxes(page)
  <2>1. raw = [k \in 1..n |-> span(k).bbox] /\ shown = [k \in 1..n |-> lines[k].bbox]
    BY <1>4 DEF SpanBoxes, n
  <2> HIDE DEF raw, shown, span
  <2>2. Len(raw) = n /\ Len(shown) = n /\ \A k \in 1..n : shown[k] = BoxShown(page, raw[k])
    BY <1>1, <1>6, <2>1
  <2> QED BY <2>2 DEF AllShown, raw, shown
<1>8. ASSUME NEW k \in 1..Len(lines) PROVE AllShown(page, RawChars(span(k)), lines[k].words)
  <2>1. k \in 1..n
    BY <1>4
  <2>2. Len(RawChars(span(k))) = size(k)
    BY <1>1, <2>1, SpanIs
  <2> QED BY <1>6, <2>1, <2>2 DEF AllShown
<1> QED BY <1>7, <1>8 DEF lines

\* Whatever the engine had turned, every box of a layout is shown where it is painted.
LEMMA LayoutHolds ==
  ASSUME NEW page, IsPage(page)
  PROVE  LET of == page_layout_one(page)
         IN  IF of.geometry # NoPageBox THEN LayoutShown(page, of)
             ELSE of.spans = <<>> /\ of.lines = <<>> /\ of.images = <<>>
<1> DEFINE of == page_layout_one(page)
<1>1. CASE page_box(page) = NoPageBox
  <2>1. of = [geometry |-> NoPageBox, spans |-> <<>>, lines |-> <<>>, images |-> <<>>]
    BY <1>1 DEF page_layout_one
  <2> HIDE DEF of
  <2>2. of.geometry = NoPageBox /\ of.spans = <<>> /\ of.lines = <<>> /\ of.images = <<>>
    BY <2>1
  <2> QED BY <2>2 DEF of
<1>2. CASE page_box(page) # NoPageBox
  <2>1. of = [geometry |-> page_box(page), spans |-> LayoutSpans(page), lines |-> LayoutLines(page),
              images |-> ImageBoxes(page)]
    BY <1>2 DEF page_layout_one
  <2> HIDE DEF of
  <2>2. /\ of.geometry = page_box(page) /\ of.spans = LayoutSpans(page) /\ of.lines = LayoutLines(page)
        /\ of.images = ImageBoxes(page)
    BY <2>1
  <2>3. Framed(page)
    BY <1>2 DEF Framed
  <2> DEFINE raw == [k \in 1..Len(page.images) |-> page.images[k].bbox]
  <2>4. AllShown(page, raw, ImageBoxes(page))
    <3> DEFINE n == Len(page.images)
    <3>1. n \in Nat /\ \A k \in 1..n : page.images[k].bbox \in Boxes
      BY DEF IsPage, IsListOf, IsSeq, IsImage
    <3>2. ImageBoxes(page) = [k \in 1..n |-> Forward(page, page.images[k].bbox)] /\ raw = [k \in 1..n |-> page.images[k].bbox]
      BY DEF ImageBoxes
    <3>3. \A b \in Boxes : Forward(page, b) = BoxShown(page, b)
      BY <2>3, FramedIs, ForwardShows
    <3> HIDE DEF n, raw
    <3>4. Len(raw) = n /\ Len(ImageBoxes(page)) = n /\ \A k \in 1..n : ImageBoxes(page)[k] = BoxShown(page, raw[k])
      BY <3>1, <3>2, <3>3
    <3> QED BY <3>4 DEF AllShown
  <2>5. LayoutShown(page, of)
    <3> HIDE DEF raw
    <3>1. /\ AllShown(page, SpanBoxes(page), [k \in 1..Len(of.lines) |-> of.lines[k].bbox])
          /\ \A k \in 1..Len(of.lines) : AllShown(page, RawChars(Painted(page)[k]), of.lines[k].words)
      BY <2>2, <2>3, LayoutLinesShown
    <3> QED BY <2>2, <2>3, <2>4, <3>1, LayoutSpansShown DEF LayoutShown, raw
  <2> QED BY <1>2, <2>2, <2>5 DEF of
<1> QED BY <1>1, <1>2

\* The characters of a span are laid out where it is painted.
LEMMA CharsHold ==
  ASSUME NEW page, IsPage(page)
  PROVE  LET of == page_text_chars_one(page)
         IN  IF of.geometry # NoPageBox THEN CharsShown(page, of.chars) ELSE of.chars = <<>>
<1> DEFINE of == page_text_chars_one(page)
<1>1. CASE page_box(page) = NoPageBox
  <2>1. of = [geometry |-> NoPageBox, chars |-> <<>>]
    BY <1>1 DEF page_text_chars_one
  <2> HIDE DEF of
  <2>2. of.geometry = NoPageBox /\ of.chars = <<>>
    BY <2>1
  <2> QED BY <2>2 DEF of
<1>2. CASE page_box(page) # NoPageBox
  <2> DEFINE spans == extract_spans(page)
             n == Len(Painted(page))
             chars == [k \in 1..n |-> CharBoxes(page, spans[k])]
  <2>1. /\ n \in Nat /\ Len(spans) = n
        /\ \A k \in 1..n :
             /\ IsSpan(Painted(page)[k])
             /\ spans[k].bbox = EngineBox(page, Painted(page)[k])
             /\ spans[k].advances = Painted(page)[k].advances
             /\ IsMapped(page, spans[k]) <=>
                  page.rotation # 0 /\ engine_mapped(page.rotation, Painted(page)[k].turned)
    BY SpansIs
  <2>2. of = [geometry |-> page_box(page), chars |-> chars]
    BY <1>2, <2>1 DEF page_text_chars_one
  <2> HIDE DEF of, chars, spans, n
  <2>3. of.geometry = page_box(page) /\ of.chars = chars
    BY <2>2
  <2>4. Framed(page)
    BY <1>2 DEF Framed
  <2>5. page.media \in Corners /\ page.visible \in Corners /\ page.rotation \in Turns
    BY <2>4, FramedIs
  <2>6. ASSUME NEW k \in 1..n PROVE AllShown(page, RawChars(Painted(page)[k]), CharBoxes(page, spans[k]))
    <3> DEFINE s == Painted(page)[k]
               boxes == RawChars(s)
    <3>1. /\ s.bbox \in Boxes /\ Len(boxes) \in Nat /\ Len(boxes) = Len(s.advances)
          /\ \A m \in 1..Len(boxes) : boxes[m] \in Boxes
      BY <2>1, SpanIs
    <3>2. IsMapped(page, spans[k]) \in BOOLEAN
      BY DEF IsMapped
    <3>3. RawBox(page, spans[k].bbox, IsMapped(page, spans[k])) = s.bbox
      BY <2>1, <2>5, <3>1, <3>2, RawIs
    <3>4. CharBoxes(page, spans[k]) = [m \in 1..Len(boxes) |-> Forward(page, boxes[m])]
      BY <2>1, <3>3 DEF CharBoxes, RawChars
    <3>5. \A b \in Boxes : Forward(page, b) = BoxShown(page, b)
      BY <2>5, ForwardShows
    <3> HIDE DEF boxes, s
    <3>6. /\ Len(CharBoxes(page, spans[k])) = Len(boxes)
          /\ \A m \in 1..Len(boxes) : CharBoxes(page, spans[k])[m] = BoxShown(page, boxes[m])
      BY <3>1, <3>4, <3>5
    <3> QED BY <3>6 DEF AllShown, boxes, s
  <2>7. CharsShown(page, chars)
    <3>1. Len(chars) = n /\ \A k \in 1..n : chars[k] = CharBoxes(page, spans[k])
      BY <2>1 DEF chars
    <3> QED BY <2>6, <3>1 DEF CharsShown, n
  <2> QED BY <1>2, <2>3, <2>7 DEF of
<1> QED BY <1>1, <1>2

\* More than one frame is both of them.
LEMMA TwoFrames ==
  ASSUME NEW S \in SUBSET BOOLEAN
  PROVE  Cardinality(S) > 1 <=> TRUE \in S /\ FALSE \in S
<1>1. Cardinality({}) = 0
  BY FS_EmptySet
<1>2. \A x : IsFiniteSet({x}) /\ Cardinality({x}) = 1
  BY FS_Singleton
<1>3. Cardinality({TRUE} \cup {FALSE}) = 2
  <2>1. FALSE \notin {TRUE}
    OBVIOUS
  <2>2. Cardinality({TRUE} \cup {FALSE}) = Cardinality({TRUE}) + 1
    BY <1>2, <2>1, FS_AddElement
  <2>3. Cardinality({TRUE}) = 1
    BY <1>2
  <2>4. 1 + 1 = 2
    OBVIOUS
  <2> QED BY <2>2, <2>3, <2>4, Zenon
<1>4. \/ S = {} /\ TRUE \notin S
      \/ S = {TRUE} /\ FALSE \notin S
      \/ S = {FALSE} /\ TRUE \notin S
      \/ S = {TRUE} \cup {FALSE} /\ TRUE \in S /\ FALSE \in S
  <2>1. \A x : x \in S => x = TRUE \/ x = FALSE
    OBVIOUS
  <2> QED BY <2>1, Zenon
<1>5. CASE S = {} /\ TRUE \notin S
  <2>1. ~(0 > 1)
    OBVIOUS
  <2> QED BY <1>1, <1>5, <2>1, Zenon
<1>6. CASE S = {TRUE} /\ FALSE \notin S
  <2>1. ~(1 > 1)
    OBVIOUS
  <2> QED BY <1>2, <1>6, <2>1, Zenon
<1>7. CASE S = {FALSE} /\ TRUE \notin S
  <2>1. ~(1 > 1)
    OBVIOUS
  <2> QED BY <1>2, <1>7, <2>1, Zenon
<1>8. CASE S = {TRUE} \cup {FALSE} /\ TRUE \in S /\ FALSE \in S
  <2>1. 2 > 1
    OBVIOUS
  <2> QED BY <1>3, <1>8, <2>1, Zenon
<1> QED BY <1>4, <1>5, <1>6, <1>7, <1>8

\* The gate of the tables tells whether texts and rulings are in one frame.
LEMMA FramesAre ==
  ASSUME NEW page, IsPage(page)
  PROVE  LET n == Len(Painted(page))
             mapped(k) == engine_mapped(page.rotation, Painted(page)[k].turned)
         IN  Cardinality(Frames(page)) > 1 <=>
               (\E k \in 1..n : mapped(k)) /\ (page.rulings # <<>> \/ \E k \in 1..n : ~mapped(k))
<1> DEFINE n == Len(Painted(page))
           mapped(k) == engine_mapped(page.rotation, Painted(page)[k].turned)
           S == {mapped(k) : k \in 1..n} \cup (IF page.rulings = <<>> THEN {} ELSE {FALSE})
<1>1. Frames(page) = S
  BY DEF Frames
<1>2. \A k : mapped(k) \in BOOLEAN
  BY DEF engine_mapped
<1> HIDE DEF mapped
<1>3. S \in SUBSET BOOLEAN
  BY <1>2
<1>4. TRUE \in S <=> \E k \in 1..n : mapped(k)
  <2>1. \A k \in 1..n : mapped(k) = TRUE <=> mapped(k)
    BY <1>2
  <2>2. TRUE \in S <=> \E k \in 1..n : TRUE = mapped(k)
    <3>1. TRUE # FALSE
      OBVIOUS
    <3>2. ~(TRUE \in (IF page.rulings = <<>> THEN {} ELSE {FALSE}))
      BY <3>1
    <3>3. TRUE \in {mapped(k) : k \in 1..n} <=> \E k \in 1..n : TRUE = mapped(k)
      BY Zenon
    <3> QED BY <3>2, <3>3
  <2> QED BY <2>1, <2>2
<1>5. FALSE \in S <=> page.rulings # <<>> \/ \E k \in 1..n : ~mapped(k)
  <2>1. \A k \in 1..n : mapped(k) = FALSE <=> ~mapped(k)
    BY <1>2
  <2>2. FALSE \in {mapped(k) : k \in 1..n} <=> \E k \in 1..n : FALSE = mapped(k)
    BY Zenon
  <2>3. FALSE \in (IF page.rulings = <<>> THEN {} ELSE {FALSE}) <=> page.rulings # <<>>
    BY Zenon
  <2> QED BY <2>1, <2>2, <2>3
<1> HIDE DEF S
<1>6. Cardinality(S) > 1 <=> TRUE \in S /\ FALSE \in S
  BY <1>3, TwoFrames
<1> QED BY <1>1, <1>4, <1>5, <1>6 DEF mapped

\* Tables are refused when their frames are not one, and shown where they are painted.
LEMMA TablesHold ==
  ASSUME NEW page, IsPage(page)
  PROVE  LET of == page_tables_one(page)
         IN  IF of.geometry # NoPageBox THEN TablesShown(page, of)
             ELSE of.cells = <<>> /\ ~of.tables_refused
<1> DEFINE of == page_tables_one(page)
           spans == extract_spans(page)
           n == Len(Painted(page))
           cells == extract_tables(page)
           turned(k) == engine_mapped(page.rotation, Painted(page)[k].turned)
           paths_error == page.rulings = Unreadable
           primitives == IF paths_error THEN 0 ELSE Len(page.rulings)
           any == \E k \in 1..Len(spans) : IsMapped(page, spans[k])
           all == \A k \in 1..Len(spans) : IsMapped(page, spans[k])
           frame == table_frame_gate(page.rotation, primitives > 0, any, all, paths_error)
           unfit == paths_error \/ Len(page.rulings) > MAX_TABLE_PRIMITIVES \/ Cardinality(Frames(page)) > 1
           boxed(k) == [cells[k] EXCEPT !.bbox = Forward(page, RawBox(page, @, frame = "mapped"))]
           refused == [geometry |-> page_box(page), cells |-> <<>>, tables_refused |-> TRUE]
           given == [geometry |-> page_box(page), tables_refused |-> FALSE, cells |-> [k \in 1..Len(cells) |-> boxed(k)]]
<1>1. /\ n \in Nat /\ Len(spans) = n
      /\ n = 0 <=> spans = <<>>
      /\ \A k \in 1..n :
           /\ IsSpan(Painted(page)[k])
           /\ spans[k].bbox = EngineBox(page, Painted(page)[k])
           /\ IsMapped(page, spans[k]) <=> page.rotation # 0 /\ turned(k)
  BY SpansIs
<1>2. of = IF page_box(page) = NoPageBox THEN [geometry |-> NoPageBox, cells |-> <<>>, tables_refused |-> FALSE]
           ELSE IF primitives > MAX_TABLE_PRIMITIVES \/ frame = "incoherent" THEN refused ELSE given
  BY DEF page_tables_one
<1>3. CASE page_box(page) = NoPageBox
  <2>1. of = [geometry |-> NoPageBox, cells |-> <<>>, tables_refused |-> FALSE]
    BY <1>2, <1>3
  <2> HIDE DEF of
  <2>2. of.geometry = NoPageBox /\ of.cells = <<>> /\ of.tables_refused = FALSE
    BY <2>1
  <2> QED BY <2>2 DEF of
<1>4. CASE page_box(page) # NoPageBox
  <2>1. Framed(page)
    BY <1>4 DEF Framed
  <2>2. page.media \in Corners /\ page.visible \in Corners /\ page.rotation \in Turns
    BY <2>1, FramedIs
  <2>3. /\ any <=> page.rotation # 0 /\ \E k \in 1..n : turned(k)
        /\ all <=> \A k \in 1..n : page.rotation # 0 /\ turned(k)
    BY <1>1
  <2>4. page.rotation = 0 => \A k \in 1..n : ~turned(k)
    BY DEF engine_mapped, QuarterTurn
  <2>5. ~paths_error => Len(page.rulings) \in Nat /\ (Len(page.rulings) > 0 <=> page.rulings # <<>>)
                        /\ (\A k \in 1..Len(page.rulings) : page.rulings[k] \in Boxes)
    <3>1. ASSUME ~paths_error
          PROVE Len(page.rulings) \in Nat /\ page.rulings = [k \in 1..Len(page.rulings) |-> page.rulings[k]]
                /\ \A k \in 1..Len(page.rulings) : page.rulings[k] \in Boxes
      BY <3>1 DEF IsPage, IsListOf, IsSeq, IsBox
    <3>2. ASSUME ~paths_error PROVE Len(page.rulings) > 0 <=> page.rulings # <<>>
      <4> DEFINE r == page.rulings
      <4>1. Len(r) \in Nat /\ r = [k \in 1..Len(r) |-> r[k]]
        BY <3>1, <3>2
      <4> HIDE DEF r
      <4>2. Len(r) > 0 <=> r # <<>>
        BY <4>1
      <4> QED BY <4>2 DEF r
    <3> QED BY <3>1, <3>2
  <2>6. Cardinality(Frames(page)) > 1 <=>
          (\E k \in 1..n : turned(k)) /\ (page.rulings # <<>> \/ \E k \in 1..n : ~turned(k))
    BY FramesAre
  <2>7. frame = IF paths_error THEN "incoherent" ELSE IF page.rotation = 0 THEN "raw"
                ELSE IF any THEN IF ~(primitives > 0) /\ all THEN "mapped" ELSE "incoherent" ELSE "raw"
    BY DEF table_frame_gate
  <2> HIDE DEF frame, turned, any, all, spans, n
  <2>8. unfit <=> primitives > MAX_TABLE_PRIMITIVES \/ frame = "incoherent"
    <3>1. CASE paths_error
      BY <2>7, <3>1
    <3>2. CASE ~paths_error
      <4>1. primitives = Len(page.rulings) /\ (primitives > 0 <=> page.rulings # <<>>)
        BY <2>5, <3>2
      <4>2. Cardinality(Frames(page)) > 1 <=> frame = "incoherent"
        <5>1. CASE page.rotation = 0
          BY <2>4, <2>6, <2>7, <3>2, <5>1
        <5>2. CASE page.rotation # 0
          <6>1. /\ any <=> \E k \in 1..n : turned(k)
                /\ all <=> \A k \in 1..n : turned(k)
            BY <2>3, <5>2
          <6>2. frame = "incoherent" <=> any /\ (primitives > 0 \/ ~all)
            BY <2>7, <3>2, <5>2
          <6> QED BY <2>6, <4>1, <6>1, <6>2
        <5> QED BY <5>1, <5>2
      <4> QED BY <3>2, <4>1, <4>2
    <3> QED BY <3>1, <3>2
  <2>9. CASE unfit
    <3>1. of = refused
      BY <1>2, <1>4, <2>8, <2>9
    <3> HIDE DEF of, unfit
    <3>2. of.geometry = page_box(page) /\ of.cells = <<>> /\ of.tables_refused = TRUE
      BY <3>1
    <3>3. TablesShown(page, of)
      <4>1. 1..Len(of.cells) = {}
        BY <3>2, NothingIsSeq, Zenon
      <4>2. of.tables_refused <=> unfit
        BY <2>9, <3>2
      <4> QED BY <3>2, <4>1, <4>2, Zenon DEF TablesShown, unfit
    <3> QED BY <1>4, <3>2, <3>3 DEF of
  <2>10. CASE ~unfit
    <3>1. of = given
      BY <1>2, <1>4, <2>8, <2>10
    <3> DEFINE out == [k \in 1..Len(cells) |-> boxed(k)]
    <3>2. of.geometry = page_box(page) /\ of.tables_refused = FALSE /\ of.cells = out
      <4> HIDE DEF of, boxed, cells
      <4> QED BY <3>1
    <3>3. frame # "incoherent" /\ ~paths_error
      BY <2>8, <2>10
    <3>4. \A b \in Boxes : Forward(page, b) = BoxShown(page, b)
      BY <2>2, ForwardShows
    <3>5. CASE n = 0
      <4>1. spans = <<>>
        BY <1>1, <3>5
      <4>2. cells = <<>>
        BY <4>1 DEF extract_tables, spans
      <4> HIDE DEF cells, boxed
      <4>3. 1..Len(out) = {}
        <5>1. Len(cells) = 0
          BY <4>2, NothingIsSeq, Zenon
        <5> QED BY <5>1
      <4> HIDE DEF of, out, unfit
      <4>4. 1..Len(of.cells) = {}
        BY <3>2, <4>3
      <4>5. (of.tables_refused <=> unfit) /\ (of.tables_refused => of.cells = <<>>)
        BY <2>10, <3>2
      <4>6. TablesShown(page, of)
        BY <4>4, <4>5, Zenon DEF TablesShown, unfit
      <4> QED BY <1>4, <3>2, <4>6 DEF of
    <3>6. CASE n # 0 /\ page.rulings = <<>>
      <4>1. spans # <<>>
        BY <1>1, <3>6
      <4>2. cells = [k \in 1..n |-> [bbox |-> spans[k].bbox, holds |-> {k}]]
        <5>1. cells = [k \in 1..Len(spans) |-> [bbox |-> spans[k].bbox, holds |-> {k}]]
          BY <3>3, <3>6, <4>1 DEF extract_tables, spans
        <5> QED BY <1>1, <5>1
      <4>3. ~(primitives > 0)
        BY <2>5, <3>3, <3>6
      <4>4. \A k \in 1..n : (frame = "mapped") <=> page.rotation # 0 /\ turned(k)
        <5>1. CASE page.rotation = 0
          BY <2>7, <3>3, <5>1
        <5>2. CASE page.rotation # 0
          <6>1. /\ any <=> \E k \in 1..n : turned(k)
                /\ all <=> \A k \in 1..n : turned(k)
            BY <2>3, <5>2
          <6>2. frame = IF any THEN IF all THEN "mapped" ELSE "incoherent" ELSE "raw"
            BY <2>7, <3>3, <4>3, <5>2
          <6>3. any => all
            BY <3>3, <6>2
          <6>4. frame = "mapped" <=> any
            BY <3>3, <6>2
          <6> QED BY <5>2, <6>1, <6>3, <6>4
        <5> QED BY <5>1, <5>2
      <4> HIDE DEF cells
      <4>5. ASSUME NEW k \in 1..n PROVE boxed(k).bbox = BoxShown(page, Painted(page)[k].bbox)
        <5>1. Painted(page)[k].bbox \in Boxes
          BY <1>1, SpanIs
        <5>2. cells[k] = [bbox |-> spans[k].bbox, holds |-> {k}]
          BY <4>2
        <5>3. boxed(k).bbox = Forward(page, RawBox(page, spans[k].bbox, frame = "mapped"))
          BY <5>2
        <5>4. RawBox(page, spans[k].bbox, frame = "mapped") = Painted(page)[k].bbox
          <6> DEFINE mapped == frame = "mapped"
          <6>1. mapped \in BOOLEAN /\ (mapped <=> page.rotation # 0 /\ engine_mapped(page.rotation, Painted(page)[k].turned))
            BY <4>4 DEF turned
          <6> HIDE DEF mapped
          <6>2. RawBox(page, EngineBox(page, Painted(page)[k]), mapped) = Painted(page)[k].bbox
            BY <2>2, <5>1, <6>1, RawIs
          <6> QED BY <1>1, <6>2 DEF mapped
        <5> QED BY <3>4, <5>1, <5>3, <5>4
      <4>6. Len(out) = n /\ \A k \in 1..n : out[k] = boxed(k)
        <5>1. Len(cells) = n
          BY <1>1, <4>2
        <5> HIDE DEF boxed
        <5> QED BY <1>1, <5>1
      <4> HIDE DEF of, out, boxed, unfit
      <4>7. (of.tables_refused <=> unfit) /\ (of.tables_refused => of.cells = <<>>)
        BY <2>10, <3>2
      <4>8. \A k \in 1..Len(of.cells) : of.cells[k].bbox = BoxShown(page, Painted(page)[k].bbox)
        BY <3>2, <4>5, <4>6
      <4>9. TablesShown(page, of)
        BY <3>6, <4>7, <4>8 DEF TablesShown, unfit
      <4> QED BY <1>4, <3>2, <4>9 DEF of
    <3>7. CASE n # 0 /\ page.rulings # <<>>
      <4> DEFINE r == page.rulings
                 holds(k) == {m \in 1..n : Within(spans[m].bbox, r[k])}
      <4>1. spans # <<>>
        BY <1>1, <3>7
      <4>2. cells = [k \in 1..Len(r) |-> [bbox |-> r[k], holds |-> holds(k)]]
        <5>1. cells = [k \in 1..Len(r) |->
                         [bbox |-> r[k], holds |-> {m \in 1..Len(spans) : Within(spans[m].bbox, r[k])}]]
          BY <3>3, <3>7, <4>1 DEF extract_tables, spans
        <5> QED BY <1>1, <5>1
      <4>3. Len(r) \in Nat /\ \A k \in 1..Len(r) : r[k] \in Boxes
        BY <2>5, <3>3
      <4>4. frame = "raw" /\ \A k \in 1..n : ~turned(k)
        <5>1. primitives > 0
          BY <2>5, <3>3, <3>7
        <5>2. CASE page.rotation = 0
          BY <2>4, <2>7, <3>3, <5>2
        <5>3. CASE page.rotation # 0
          BY <2>3, <2>7, <3>3, <5>1, <5>3
        <5> QED BY <5>2, <5>3
      <4>5. \A m \in 1..n : spans[m].bbox = Painted(page)[m].bbox
        BY <1>1, <4>4 DEF EngineBox, Applied, turned
      <4> HIDE DEF cells, r
      <4>6. ASSUME NEW k \in 1..Len(r)
            PROVE  boxed(k).bbox = BoxShown(page, r[k]) /\ boxed(k).holds = {m \in 1..n : Within(Painted(page)[m].bbox, r[k])}
        <5>1. cells[k] = [bbox |-> r[k], holds |-> holds(k)]
          BY <4>2
        <5> HIDE DEF holds
        <5>2. boxed(k).bbox = Forward(page, RawBox(page, r[k], frame = "mapped")) /\ boxed(k).holds = holds(k)
          BY <5>1
        <5>3. RawBox(page, r[k], frame = "mapped") = r[k]
          BY <4>4 DEF RawBox
        <5>4. holds(k) = {m \in 1..n : Within(Painted(page)[m].bbox, r[k])}
          BY <4>5 DEF holds
        <5> QED BY <3>4, <4>3, <5>2, <5>3, <5>4
      <4>7. Len(out) = Len(r) /\ \A k \in 1..Len(r) : out[k] = boxed(k)
        <5>1. Len(cells) = Len(r)
          BY <4>2, <4>3
        <5> HIDE DEF boxed
        <5> QED BY <4>3, <5>1
      <4> HIDE DEF of, out, boxed, unfit
      <4>8. (of.tables_refused <=> unfit) /\ (of.tables_refused => of.cells = <<>>)
        BY <2>10, <3>2
      <4>9. \A k \in 1..Len(of.cells) :
              /\ of.cells[k].bbox = BoxShown(page, r[k])
              /\ of.cells[k].holds = {m \in 1..n : Within(Painted(page)[m].bbox, r[k])}
        BY <3>2, <4>6, <4>7
      <4>10. TablesShown(page, of)
        BY <3>7, <4>8, <4>9 DEF TablesShown, unfit, r, n
      <4> QED BY <1>4, <3>2, <4>10 DEF of
    <3> QED BY <3>5, <3>6, <3>7
  <2> QED BY <2>9, <2>10
<1> QED BY <1>3, <1>4

\* The whole visible box of a page is shown as the whole page.
LEMMA GeometryHolds ==
  ASSUME NEW page, IsPage(page), page_box(page) # NoPageBox
  PROVE  BoxShown(page, <<page.visible[1], page.visible[2], page.visible[3] - page.visible[1],
                          page.visible[4] - page.visible[2]>>)
           = <<0, 0, page_box(page).width_pt, page_box(page).height_pt>>
<1>1. page.visible \in Corners /\ page.rotation \in Turns /\ Framed(page)
  BY FramedIs DEF Framed
<1>2. PICK v1 \in Int, v2 \in Int, v3 \in Int, v4 \in Int : page.visible = <<v1, v2, v3, v4>>
  BY <1>1 DEF Corners
<1>3. page_box(page) = from_visible_box(page.visible, page.rotation, page.media)
  BY DEF page_box
<1> DEFINE w == v3 - v1
           h == v4 - v2
           frame == page_box(page)
           turned == QuarterTurn(page.rotation)
<1>4. ~(w <= 0 \/ h <= 0)
  BY <1>2, <1>3 DEF from_visible_box
<1>5. frame.width_pt = (IF turned THEN h ELSE w) /\ frame.height_pt = (IF turned THEN w ELSE h)
  BY <1>2, <1>3, <1>4 DEF from_visible_box
<1> DEFINE b == <<v1, v2, w, h>>
<1>6. b \in Boxes
  BY <1>4 DEF Boxes
<1>7. Forward(page, b) = BoxShown(page, b)
  BY <1>1, <1>6, ForwardShows
<1>8. Forward(page, b) = rotate_box_forward(<<v1 - v1, v2 - v2, w, h>>, <<w, h>>, page.rotation)
  BY <1>2, RelativeIs, ExtentIs DEF Forward, map_box_forward
<1>9. rotate_box_forward(<<v1 - v1, v2 - v2, w, h>>, <<w, h>>, page.rotation)
        = IF turned THEN <<0, 0, h, w>> ELSE <<0, 0, w, h>>
  <2>1. v1 - v1 = 0 /\ v2 - v2 = 0 /\ w - 0 - w = 0 /\ h - 0 - h = 0
    OBVIOUS
  <2> HIDE DEF w, h
  <2>2. rotate_box_forward(<<v1 - v1, v2 - v2, w, h>>, <<w, h>>, page.rotation)
          = rotate_box_forward(<<0, 0, w, h>>, <<w, h>>, page.rotation)
    BY <2>1
  <2> QED BY <1>1, <2>1, <2>2, ForwardIs DEF QuarterTurn, Turns
<1> HIDE DEF frame, turned, w, h
<1>10. <<0, 0, frame.width_pt, frame.height_pt>> = IF turned THEN <<0, 0, h, w>> ELSE <<0, 0, w, h>>
  BY <1>5
<1>11. <<page.visible[1], page.visible[2], page.visible[3] - page.visible[1], page.visible[4] - page.visible[2]>> = b
  BY <1>2 DEF w, h
<1> QED BY <1>7, <1>8, <1>9, <1>10, <1>11, Zenon DEF frame

-----------------------------------------------------------------------------
(* What the entries of a call say, and what they cost.                     *)

\* Two sequences of whatever they are, one behind the other.
LEMMA JoinIs ==
  ASSUME NEW u, NEW v, IsSeq(u), IsSeq(v)
  PROVE  /\ IsSeq(u \o v) /\ Len(u \o v) = Len(u) + Len(v)
         /\ \A k \in 1..Len(u) : (u \o v)[k] = u[k]
         /\ \A k \in 1..Len(v) : (u \o v)[Len(u) + k] = v[k]
<1> DEFINE S == {u[k] : k \in 1..Len(u)} \cup {v[k] : k \in 1..Len(v)}
           t == u \o v
<1>1. u \in Seq(S)
  <2>1. Len(u) \in Nat /\ u = [k \in 1..Len(u) |-> u[k]] /\ \A k \in 1..Len(u) : u[k] \in S
    BY DEF IsSeq
  <2> HIDE DEF S
  <2>2. [k \in 1..Len(u) |-> u[k]] \in Seq(S)
    BY <2>1
  <2> QED BY <2>1, <2>2, Zenon
<1>2. v \in Seq(S)
  <2>1. Len(v) \in Nat /\ v = [k \in 1..Len(v) |-> v[k]] /\ \A k \in 1..Len(v) : v[k] \in S
    BY DEF IsSeq
  <2> HIDE DEF S
  <2>2. [k \in 1..Len(v) |-> v[k]] \in Seq(S)
    BY <2>1
  <2> QED BY <2>1, <2>2, Zenon
<1> HIDE DEF S
<1>3. /\ t \in Seq(S) /\ Len(t) = Len(u) + Len(v)
      /\ \A k \in 1..Len(u) : t[k] = u[k]
      /\ \A k \in 1..Len(v) : t[Len(u) + k] = v[k]
  BY <1>1, <1>2, ConcatIs
<1> HIDE DEF t
<1>4. Len(t) \in Nat /\ t = [k \in 1..Len(t) |-> t[k]]
  BY <1>3
<1> QED BY <1>3, <1>4 DEF IsSeq, t

\* f joins the first of the lists.
Joins(f, lists, N, S) ==
  /\ f \in [0..N -> Seq(S)] /\ f[0] = <<>>
  /\ \A n \in 1..N : f[n] = f[n - 1] \o lists[n]
  /\ Joined(lists) = f[N]

\* Lists are joined one behind the other.
LEMMA JoinedIs ==
  ASSUME NEW lists, NEW N \in Nat, Len(lists) = N, NEW S, \A k \in 1..N : lists[k] \in Seq(S)
  PROVE  \E f : Joins(f, lists, N, S)
<1> DEFINE X == Seq(S)
           a == <<>>
           Then(n, x) == x \o lists[n]
           P(h) == h = [n \in 0..N |-> IF n = 0 THEN a ELSE Then(n, h[n - 1])]
           g == [n \in 1..N |-> [x \in X |-> Then(n, x)]]
<1>1. a \in X /\ \A n \in 1..N, x \in X : Then(n, x) \in X
  <2>1. a \in X
    OBVIOUS
  <2> QED BY <2>1, ConcatIs
<1>2. Joined(lists) = (CHOOSE h : P(h))[N]
  BY DEF Joined
<1> HIDE DEF X, a, Then
<1>3. g \in [1..N -> [X -> X]]
  BY <1>1
<1>4. PICK f : Runs(f, N, X, a, g)
  <2> HIDE DEF g
  <2> QED BY <1>1, <1>3, Recursion
<1>5. f \in [0..N -> X] /\ f[0] = a /\ \A n \in 1..N : f[n] = g[n][f[n - 1]]
  BY <1>4 DEF Runs
<1>6. P(f)
  <2>1. ASSUME NEW n \in 1..N PROVE f[n] = Then(n, f[n - 1])
    <3>1. n - 1 \in 0..N
      OBVIOUS
    <3>2. f[n - 1] \in X /\ f[n] = g[n][f[n - 1]]
      BY <1>5, <3>1
    <3>3. g[n] = [x \in X |-> Then(n, x)]
      OBVIOUS
    <3> HIDE DEF g
    <3> QED BY <3>2, <3>3
  <2>2. \A n \in 0..N : f[n] = IF n = 0 THEN a ELSE Then(n, f[n - 1])
    BY <1>5, <2>1
  <2> HIDE DEF g
  <2>3. f = [n \in 0..N |-> f[n]]
    BY <1>5
  <2> QED BY <2>2, <2>3
<1> DEFINE w == CHOOSE h : P(h)
<1> HIDE DEF P, g
<1>7. P(w)
  BY <1>6
<1> HIDE DEF w
<1>8. w = [n \in 0..N |-> IF n = 0 THEN a ELSE Then(n, w[n - 1])]
  BY <1>7 DEF P
<1>9. w[0] = a /\ \A n \in 1..N : w[n] = Then(n, w[n - 1])
  BY <1>8
<1>10. \A n \in 0..N : w[n] \in X
  BY <1>1, <1>9, Stays
<1>11. w \in [0..N -> X]
  BY <1>8, <1>10
<1> QED BY <1>2, <1>9, <1>11 DEF w, X, a, Then, Joins

\* One more list is joined behind the others.
LEMMA JoinedGrows ==
  ASSUME NEW lists, NEW more, NEW N \in Nat, Len(lists) = N, Len(more) = N + 1,
         \A k \in 1..N : more[k] = lists[k], \A k \in 1..(N + 1) : IsSeq(more[k])
  PROVE  Joined(more) = Joined(lists) \o more[N + 1]
<1> DEFINE S == UNION {{more[k][m] : m \in 1..Len(more[k])} : k \in 1..(N + 1)}
<1>1. ASSUME NEW k \in 1..(N + 1) PROVE more[k] \in Seq(S)
  <2> DEFINE u == more[k]
  <2>1. Len(u) \in Nat /\ u = [m \in 1..Len(u) |-> u[m]]
    BY DEF IsSeq
  <2>2. \A m \in 1..Len(u) : u[m] \in S
    OBVIOUS
  <2> HIDE DEF u, S
  <2>3. [m \in 1..Len(u) |-> u[m]] \in Seq(S)
    BY <2>1, <2>2
  <2> QED BY <2>1, <2>3, Zenon DEF u
<1> HIDE DEF S
<1>2. PICK f : Joins(f, lists, N, S)
  <2>1. \A k \in 1..N : lists[k] \in Seq(S)
    BY <1>1
  <2> QED BY <2>1, JoinedIs
<1>3. PICK h : Joins(h, more, N + 1, S)
  <2> DEFINE M == N + 1
  <2>1. M \in Nat /\ Len(more) = M /\ \A k \in 1..M : more[k] \in Seq(S)
    BY <1>1
  <2> HIDE DEF M
  <2>2. \E h : Joins(h, more, M, S)
    BY <2>1, JoinedIs
  <2> QED BY <2>2 DEF M
<1>7. f[0] = <<>> /\ (\A n \in 1..N : f[n] = f[n - 1] \o lists[n]) /\ Joined(lists) = f[N]
  BY <1>2 DEF Joins
<1>8. h[0] = <<>> /\ (\A n \in 1..(N + 1) : h[n] = h[n - 1] \o more[n]) /\ Joined(more) = h[N + 1]
  BY <1>3 DEF Joins
<1> DEFINE P == [n \in 0..N |-> f[n] = h[n]]
<1>4. \A n \in 0..N : P[n]
  <2>1. P[0]
    <3>1. 0 \in 0..N /\ f[0] = h[0]
      BY <1>7, <1>8
    <3> QED BY <3>1
  <2>2. ASSUME NEW n \in 1..N, P[n - 1] PROVE P[n]
    <3>1. n - 1 \in 0..N /\ n \in 0..N /\ n \in 1..(N + 1)
      OBVIOUS
    <3>2. f[n - 1] = h[n - 1]
      BY <2>2, <3>1
    <3>3. f[n] = f[n - 1] \o lists[n] /\ h[n] = h[n - 1] \o more[n] /\ more[n] = lists[n]
      BY <1>7, <1>8, <3>1
    <3> QED BY <3>1, <3>2, <3>3
  <2> HIDE DEF P
  <2> QED BY <2>1, <2>2, HoldsAt
<1>5. f[N] = h[N]
  <2>1. N \in 0..N
    OBVIOUS
  <2> QED BY <1>4, <2>1
<1>6. h[N + 1] = h[N] \o more[N + 1]
  <2>1. N + 1 \in 1..(N + 1) /\ (N + 1) - 1 = N
    OBVIOUS
  <2> QED BY <1>8, <2>1
<1> QED BY <1>7, <1>8, <1>5, <1>6

\* No lists join to the empty list.
LEMMA JoinedNothing == ASSUME NEW lists, Len(lists) = 0 PROVE Joined(lists) = <<>>
<1>1. \A k \in 1..0 : lists[k] \in Seq({})
  OBVIOUS
<1>2. 0 \in Nat
  OBVIOUS
<1>3. \E f : Joins(f, lists, 0, {})
  BY <1>1, <1>2, JoinedIs
<1> QED BY <1>3 DEF Joins

\* The parts of an image.
LEMMA ImageIs ==
  ASSUME NEW handle, IsImage(handle)
  PROVE  /\ handle.bbox \in Boxes /\ handle.decoded.bytes \in Nat /\ handle.byte_size_compressed \in Nat
         /\ handle.width \in Nat /\ handle.height \in Nat /\ handle.bits_per_component \in Nat
         /\ handle.sniffed \in {"jp2", "j2k", "neither"}
  BY DEF IsImage

\* What has been spent before each image of a page.
Serves(w, page, encrypted, decode, max_image_bytes, used, r) ==
  /\ w \in [0..Len(page.images) -> 0..MAX_CALL_IMAGE_BYTES] /\ w[0] = used /\ r.spent = w[Len(page.images)]
  /\ \A k \in 1..Len(page.images) :
       LET data == image_bytes_for(page.images[k], encrypted, decode, max_image_bytes, w[k - 1])
       IN  r.images[k] = ImageEntry(page, page.images[k], data) /\ w[k] = w[k - 1] + data.bytes

\* The images of a page are answered in their order, each with what is left for it.
LEMMA ServedIs ==
  ASSUME NEW page, IsListOf(page.images, IsImage), NEW encrypted, NEW decode,
         NEW max_image_bytes \in Nat, NEW used \in 0..MAX_CALL_IMAGE_BYTES
  PROVE  LET N == Len(page.images)
             r == page_images_one(page, encrypted, decode, max_image_bytes, used)
         IN  /\ IsSeq(r.images) /\ Len(r.images) = N /\ N \in Nat
             /\ \E w : Serves(w, page, encrypted, decode, max_image_bytes, used, r)
<1> DEFINE N == Len(page.images)
           M == 0..MAX_CALL_IMAGE_BYTES
           r == page_images_one(page, encrypted, decode, max_image_bytes, used)
           Data(n, u) == image_bytes_for(page.images[n], encrypted, decode, max_image_bytes, u)
           Entry(n, u) == ImageEntry(page, page.images[n], Data(n, u))
           E == {Entry(n, u) : n \in 1..N, u \in M}
           X == [images : Seq(E), spent : M]
           a == [images |-> <<>>, spent |-> used]
           Then(n, x) == [images |-> Append(x.images, Entry(n, x.spent)),
                          spent |-> Saturated(x.spent + Data(n, x.spent).bytes)]
           P(h) == h = [n \in 0..N |-> IF n = 0 THEN a ELSE Then(n, h[n - 1])]
           g == [n \in 1..N |-> [x \in X |-> Then(n, x)]]
<1>1. N \in Nat /\ \A n \in 1..N : IsImage(page.images[n])
  BY DEF IsListOf, IsSeq
<1>2. \A n \in 1..N, u \in M : u + Data(n, u).bytes \in M /\ Saturated(u + Data(n, u).bytes) = u + Data(n, u).bytes
  <2> SUFFICES ASSUME NEW n \in 1..N, NEW u \in M
               PROVE  u + Data(n, u).bytes \in M /\ Saturated(u + Data(n, u).bytes) = u + Data(n, u).bytes
    OBVIOUS
  <2>1. Affordable(Data(n, u), max_image_bytes, u)
    <3>1. page.images[n].decoded.bytes \in Nat /\ page.images[n].byte_size_compressed \in Nat
      BY <1>1, ImageIs
    <3> QED BY <3>1, ImageBytesBind
  <2> DEFINE b == Data(n, u).bytes
  <2>2. b \in Nat /\ u + b <= MAX_CALL_IMAGE_BYTES
    BY <2>1 DEF Affordable
  <2> HIDE DEF b, Data
  <2>3. u + b \in M /\ ~(u + b > MAX_U64)
    BY <2>2, ImagesAssumption
  <2>4. Saturated(u + b) = u + b
    BY <2>3 DEF Saturated
  <2> QED BY <2>3, <2>4 DEF b
<1>3. r = (CHOOSE h : P(h))[N]
  BY DEF page_images_one
<1> HIDE DEF r, N, M, Data, Entry
<1>4. a \in X
  <2>1. <<>> \in Seq(E) /\ used \in M
    BY DEF M
  <2> HIDE DEF E, M
  <2> QED BY <2>1
<1>5. \A n \in 1..N, x \in X : Then(n, x) \in X
  <2> SUFFICES ASSUME NEW n \in 1..N, NEW x \in X PROVE Then(n, x) \in X
    OBVIOUS
  <2>1. x.images \in Seq(E) /\ x.spent \in M
    <3> HIDE DEF E
    <3> QED OBVIOUS
  <2>2. Entry(n, x.spent) \in E
    BY <2>1
  <2> HIDE DEF E
  <2>3. Append(x.images, Entry(n, x.spent)) \in Seq(E)
    BY <2>1, <2>2
  <2>4. Saturated(x.spent + Data(n, x.spent).bytes) \in M
    BY <1>2, <2>1
  <2> QED BY <2>3, <2>4
<1>6. \A x \in X : x.images \in Seq(E) /\ x.spent \in M
  <2> HIDE DEF E
  <2> QED OBVIOUS
<1>7. \A n, x : /\ Then(n, x).images = Append(x.images, Entry(n, x.spent))
                /\ Then(n, x).spent = Saturated(x.spent + Data(n, x.spent).bytes)
  OBVIOUS
<1>8. a.images = <<>> /\ a.spent = used
  OBVIOUS
<1> HIDE DEF X, a, Then, E
<1>9. g \in [1..N -> [X -> X]]
  BY <1>5
<1>10. PICK f : Runs(f, N, X, a, g)
  <2> HIDE DEF g
  <2> QED BY <1>1, <1>4, <1>9, Recursion
<1>11. f \in [0..N -> X] /\ f[0] = a /\ \A n \in 1..N : f[n] = g[n][f[n - 1]]
  BY <1>10 DEF Runs
<1>12. P(f)
  <2>1. ASSUME NEW n \in 1..N PROVE f[n] = Then(n, f[n - 1])
    <3>1. n - 1 \in 0..N
      BY <1>1
    <3>2. f[n - 1] \in X /\ f[n] = g[n][f[n - 1]]
      BY <1>11, <3>1
    <3>3. g[n] = [x \in X |-> Then(n, x)]
      OBVIOUS
    <3> HIDE DEF g
    <3> QED BY <3>2, <3>3
  <2>2. \A n \in 0..N : f[n] = IF n = 0 THEN a ELSE Then(n, f[n - 1])
    BY <1>1, <1>11, <2>1
  <2> HIDE DEF g
  <2>3. f = [n \in 0..N |-> f[n]]
    BY <1>11
  <2> QED BY <2>2, <2>3
<1> DEFINE served == CHOOSE h : P(h)
<1> HIDE DEF P, g
<1>13. P(served)
  BY <1>12
<1> HIDE DEF served
<1>14. served = [n \in 0..N |-> IF n = 0 THEN a ELSE Then(n, served[n - 1])]
  BY <1>13 DEF P
<1>15. served[0] = a /\ \A n \in 1..N : served[n] = Then(n, served[n - 1])
  BY <1>1, <1>14
<1>16. \A n \in 0..N : served[n] \in X
  BY <1>1, <1>4, <1>5, <1>15, Stays
<1> DEFINE w == [n \in 0..N |-> served[n].spent]
<1>17. w \in [0..N -> M] /\ \A n \in 0..N : w[n] = served[n].spent
  BY <1>6, <1>16
<1> HIDE DEF w
<1>18. \A n \in 1..N : n - 1 \in 0..N /\ n \in 0..N
  BY <1>1
<1>19. \A n \in 1..N : served[n].images = Append(served[n - 1].images, Entry(n, w[n - 1]))
  <2> SUFFICES ASSUME NEW n \in 1..N PROVE served[n].images = Append(served[n - 1].images, Entry(n, w[n - 1]))
    OBVIOUS
  <2>1. served[n] = Then(n, served[n - 1]) /\ w[n - 1] = served[n - 1].spent
    BY <1>15, <1>17, <1>18
  <2>2. Then(n, served[n - 1]).images = Append(served[n - 1].images, Entry(n, served[n - 1].spent))
    BY <1>7
  <2> QED BY <2>1, <2>2
<1>20. \A n \in 1..N : w[n] = w[n - 1] + Data(n, w[n - 1]).bytes
  <2> SUFFICES ASSUME NEW n \in 1..N PROVE w[n] = w[n - 1] + Data(n, w[n - 1]).bytes
    OBVIOUS
  <2>1. w[n] = Saturated(w[n - 1] + Data(n, w[n - 1]).bytes)
    BY <1>7, <1>15, <1>17, <1>18
  <2>2. w[n - 1] \in M
    BY <1>17, <1>18
  <2> QED BY <1>2, <2>1, <2>2
<1> DEFINE Q == [n \in 0..N |-> /\ Len(served[n].images) = n
                                /\ \A k \in 1..n : served[n].images[k] = Entry(k, w[k - 1])]
<1>21. \A n \in 0..N : Q[n]
  <2>1. Q[0]
    <3>1. Len(served[0].images) = 0 /\ 1..0 = {}
      <4>1. served[0].images = <<>>
        BY <1>8, <1>15
      <4> QED BY <4>1, NothingIsSeq, Zenon
    <3>2. 0 \in 0..N
      BY <1>1
    <3> QED BY <3>1, <3>2
  <2>2. ASSUME NEW n \in 1..N, Q[n - 1] PROVE Q[n]
    <3> DEFINE u == served[n - 1].images
               e == Entry(n, w[n - 1])
               t == served[n].images
    <3>1. n - 1 \in 0..N /\ n \in 0..N /\ n \in Nat
      BY <1>1
    <3>2. u \in Seq(E) /\ Len(u) = n - 1 /\ \A k \in 1..(n - 1) : u[k] = Entry(k, w[k - 1])
      BY <1>6, <1>16, <2>2, <3>1
    <3>3. t = Append(u, e)
      BY <1>19
    <3>4. t \in Seq(E)
      BY <1>6, <1>16, <3>1
    <3> HIDE DEF u, t, e
    <3>5. IsSeq(u)
      <4>1. Len(u) \in Nat /\ u = [k \in 1..Len(u) |-> u[k]]
        BY <3>2
      <4> QED BY <4>1 DEF IsSeq
    <3>6. /\ Len(t) = Len(u) + 1 /\ (\A k \in 1..Len(u) : t[k] = u[k]) /\ t[Len(u) + 1] = e
      BY <3>3, <3>5, AppendIs
    <3>7. Len(t) = n /\ (\A k \in 1..(n - 1) : t[k] = u[k]) /\ t[n] = e
      <4>1. (n - 1) + 1 = n
        BY <3>1
      <4> QED BY <3>2, <3>6, <4>1
    <3>8. ASSUME NEW k \in 1..n PROVE t[k] = Entry(k, w[k - 1])
      <4>1. k = n \/ k \in 1..(n - 1)
        BY <3>1
      <4> QED BY <3>2, <3>7, <4>1 DEF e
    <3> QED BY <3>1, <3>7, <3>8 DEF t
  <2> HIDE DEF Q
  <2> QED BY <1>1, <2>1, <2>2, HoldsAt
<1>22. N \in 0..N
  BY <1>1
<1>23. Len(served[N].images) = N /\ \A k \in 1..N : served[N].images[k] = Entry(k, w[k - 1])
  BY <1>21, <1>22
<1>24. r.images = served[N].images /\ r.spent = w[N]
  BY <1>3, <1>17, <1>22 DEF served
<1>25. IsSeq(r.images)
  <2> DEFINE u == served[N].images
  <2>1. u \in Seq(E)
    BY <1>6, <1>16, <1>22
  <2> HIDE DEF u
  <2>2. Len(u) \in Nat /\ u = [k \in 1..Len(u) |-> u[k]]
    BY <2>1
  <2> QED BY <1>24, <2>2 DEF u, IsSeq
<1>26. w[0] = used
  BY <1>1, <1>8, <1>15, <1>17
<1>27. \A k \in 1..N : r.images[k] = Entry(k, w[k - 1])
  BY <1>23, <1>24
<1>28. Serves(w, page, encrypted, decode, max_image_bytes, used, r)
  BY <1>17, <1>20, <1>24, <1>26, <1>27 DEF Serves, N, M, Entry, Data
<1>29. Len(r.images) = N
  BY <1>23, <1>24
<1> QED BY <1>1, <1>25, <1>28, <1>29 DEF r, N

\* Saturation gives a natural no greater than what it is given.
LEMMA SaturatedIs == ASSUME NEW n \in Nat PROVE Saturated(n) \in Nat /\ Saturated(n) <= n
BY ImagesAssumption DEF Saturated

\* Rounding up gives a natural.
LEMMA UpIs ==
  ASSUME NEW n \in Nat
  PROVE  Up(n, 8) \in Nat
BY DEF Up

\* Naturals multiply to a natural.
LEMMA TimesIs == ASSUME NEW m \in Nat, NEW n \in Nat PROVE m * n \in Nat
OBVIOUS

\* An estimate is a size, whatever the dictionary of an image says.
LEMMA EstimateIs ==
  ASSUME NEW handle, IsImage(handle)
  PROVE  decode_estimate(handle) \in Nat
<1> DEFINE dims == Saturated(AtLeastOne(handle.width) * AtLeastOne(handle.height))
           samples == Saturated(dims * Components(handle))
           depth == Up(handle.bits_per_component, 8)
<1>1. dims \in Nat
  <2>1. AtLeastOne(handle.width) \in Nat /\ AtLeastOne(handle.height) \in Nat
    BY ImageIs DEF AtLeastOne
  <2> QED BY <2>1, TimesIs, SaturatedIs
<1>2. Components(handle) \in Nat
  <2>1. \A space \in {"gray", "rgb", "lab", "cmyk", "icc2", "indexed"} : COMPONENTS[space] \in Nat
    BY DEF COMPONENTS
  <2>2. DOMAIN COMPONENTS = {"gray", "rgb", "lab", "cmyk", "icc2", "indexed"}
    BY DEF COMPONENTS
  <2>3. handle.color_space \in DOMAIN COMPONENTS
        /\ handle.indexed_base \in {"none"} \cup (DOMAIN COMPONENTS \ {"indexed"})
    BY DEF IsImage
  <2> QED BY <2>1, <2>2, <2>3 DEF Components
<1> HIDE DEF dims
<1>3. samples \in Nat
  BY <1>1, <1>2, TimesIs, SaturatedIs
<1> HIDE DEF samples
<1>4. depth \in Nat
  BY ImageIs, UpIs
<1> HIDE DEF depth
<1>5. Saturated(samples * depth) \in Nat /\ Up(dims, 8) \in Nat /\ handle.byte_size_compressed \in Nat
  BY <1>1, <1>3, <1>4, TimesIs, SaturatedIs, UpIs, ImageIs
<1>6. \/ decode_estimate(handle) = handle.byte_size_compressed \/ decode_estimate(handle) = Up(dims, 8)
      \/ decode_estimate(handle) = samples \/ decode_estimate(handle) = Saturated(samples * depth)
  BY DEF decode_estimate, dims, samples, depth
<1> QED BY <1>3, <1>5, <1>6

\* A cap names the limit that is broken.
LEMMA CapIs ==
  ASSUME NEW n \in Nat, NEW max_image_bytes \in Nat, NEW used \in Nat,
         actual_size_cap(n, max_image_bytes, used) # NoCap
  PROVE  LET cap == actual_size_cap(n, max_image_bytes, used)
         IN  /\ cap.arm = "size_cap"
             /\ IF cap.scope = "image" THEN n > max_image_bytes ELSE used + n > MAX_CALL_IMAGE_BYTES
<1> DEFINE cap == actual_size_cap(n, max_image_bytes, used)
<1>1. \A scope, m : SizeCap(scope, m).arm = "size_cap" /\ SizeCap(scope, m).scope = scope
  BY DEF SizeCap
<1>2. CASE n > max_image_bytes
  <2>1. cap = SizeCap("image", n)
    BY <1>2 DEF actual_size_cap
  <2> QED BY <1>1, <1>2, <2>1
<1>3. CASE ~(n > max_image_bytes)
  <2>1. Saturated(used + n) > MAX_CALL_IMAGE_BYTES /\ cap = SizeCap("call", Saturated(used + n))
    BY <1>3 DEF actual_size_cap
  <2>2. used + n > MAX_CALL_IMAGE_BYTES
    <3>1. used + n \in Nat
      OBVIOUS
    <3>2. Saturated(used + n) \in Nat /\ Saturated(used + n) <= used + n
      BY <3>1, SaturatedIs
    <3> QED BY <2>1, <3>1, <3>2, ImagesAssumption
  <2>3. cap.arm = "size_cap" /\ cap.scope = "call"
    BY <1>1, <2>1
  <2> QED BY <2>2, <2>3
<1> QED BY <1>2, <1>3

\* What an image's data says is so: a cap is broken by one of its sizes, what is
\* stored is no ciphertext, and what is decoded is served whole.
LEMMA DataIs ==
  ASSUME NEW handle, IsImage(handle), NEW encrypted, NEW decode,
         NEW max_image_bytes \in Nat, NEW used \in Nat
  PROVE  LET data == image_bytes_for(handle, encrypted, decode, max_image_bytes, used)
             size == {decode_estimate(handle), handle.decoded.bytes, handle.byte_size_compressed}
         IN  /\ data.arm = "size_cap" =>
                  \E n \in size : IF data.scope = "image" THEN n > max_image_bytes
                                  ELSE used + n > MAX_CALL_IMAGE_BYTES
             /\ data.arm \in {"jp2", "j2k"} => handle.is_inline \/ ~encrypted
             /\ data.arm \in {"jpeg", "raw"} => data.bytes = handle.decoded.bytes
<1> DEFINE data == image_bytes_for(handle, encrypted, decode, max_image_bytes, used)
           size == {decode_estimate(handle), handle.decoded.bytes, handle.byte_size_compressed}
           Cap(n) == actual_size_cap(n, max_image_bytes, used)
           decoded == handle.decoded
           stored == handle.byte_size_compressed
           Says(d) == /\ d.arm = "size_cap" =>
                           \E n \in size : IF d.scope = "image" THEN n > max_image_bytes
                                           ELSE used + n > MAX_CALL_IMAGE_BYTES
                      /\ d.arm \in {"jp2", "j2k"} => handle.is_inline \/ ~encrypted
                      /\ d.arm \in {"jpeg", "raw"} => d.bytes = handle.decoded.bytes
<1>1. size \subseteq Nat
  BY EstimateIs, ImageIs
<1>2. ASSUME NEW n \in size, Cap(n) # NoCap PROVE Says(Cap(n))
  <2>1. /\ Cap(n).arm = "size_cap"
        /\ IF Cap(n).scope = "image" THEN n > max_image_bytes ELSE used + n > MAX_CALL_IMAGE_BYTES
    BY <1>1, <1>2, CapIs
  <2> HIDE DEF Cap, size
  <2>2. Cap(n).arm \notin {"jp2", "j2k"} /\ Cap(n).arm \notin {"jpeg", "raw"}
    BY <2>1
  <2> QED BY <2>1, <2>2
<1>3. \A arm, n : Served(arm, n).arm = arm /\ Served(arm, n).bytes = n
  BY DEF Served
<1>4. \A why : Says(DecodeError(why))
  BY DEF DecodeError
<1>5. Says(NotRequested)
  BY DEF NotRequested
<1> DEFINE given == Served(decoded.arm, decoded.bytes)
           kept == Served(handle.sniffed, stored)
<1>6. \/ data = NotRequested
      \/ data = Cap(decode_estimate(handle)) /\ Cap(decode_estimate(handle)) # NoCap
      \/ decoded.arm \in {"jpeg", "raw"} /\ data = Under(max_image_bytes, used, given)
      \/ data = StoredJpx(handle, encrypted, max_image_bytes, used)
      \/ data = DecodeError(decoded.arm)
  BY DEF image_bytes_for
<1>7. CASE decoded.arm \in {"jpeg", "raw"} /\ data = Under(max_image_bytes, used, given)
  <2>1. data = IF Cap(decoded.bytes) # NoCap THEN Cap(decoded.bytes) ELSE given
    BY <1>3, <1>7 DEF Under
  <2>2. Says(given)
    <3>1. given.arm = decoded.arm /\ given.bytes = decoded.bytes
      BY <1>3
    <3> HIDE DEF given, size
    <3> QED BY <1>7, <3>1
  <2>3. decoded.bytes \in size
    OBVIOUS
  <2> HIDE DEF data, Says, Cap, given, size
  <2> QED BY <1>2, <2>1, <2>2, <2>3 DEF Says, data, size
<1>8. CASE data = StoredJpx(handle, encrypted, max_image_bytes, used)
  <2>1. CASE encrypted /\ ~handle.is_inline
    <3>1. data = DecodeError("encrypted")
      BY <1>8, <2>1 DEF StoredJpx
    <3> HIDE DEF data, Says
    <3> QED BY <1>4, <3>1 DEF Says, data
  <2>2. CASE ~(encrypted /\ ~handle.is_inline) /\ handle.sniffed = "neither"
    <3>1. data = DecodeError("not_jpx")
      BY <1>8, <2>2 DEF StoredJpx
    <3> HIDE DEF data, Says
    <3> QED BY <1>4, <3>1 DEF Says, data
  <2>3. CASE ~(encrypted /\ ~handle.is_inline) /\ handle.sniffed # "neither"
    <3>1. data = Under(max_image_bytes, used, kept)
      BY <1>8, <2>3 DEF StoredJpx
    <3>2. data = IF Cap(stored) # NoCap THEN Cap(stored) ELSE kept
      BY <1>3, <3>1 DEF Under
    <3>3. Says(kept)
      <4>1. kept.arm = handle.sniffed /\ handle.sniffed \in {"jp2", "j2k"}
        BY <1>3, <2>3, ImageIs
      <4>2. handle.is_inline \/ ~encrypted
        BY <2>3
      <4> HIDE DEF kept, size
      <4> QED BY <4>1, <4>2
    <3>4. stored \in size
      OBVIOUS
    <3> HIDE DEF data, Says, Cap, kept, size
    <3> QED BY <1>2, <3>2, <3>3, <3>4 DEF Says, data, size
  <2> QED BY <2>1, <2>2, <2>3
<1>9. CASE data = Cap(decode_estimate(handle)) /\ Cap(decode_estimate(handle)) # NoCap
  <2>1. decode_estimate(handle) \in size
    OBVIOUS
  <2> HIDE DEF data, Says, Cap, size
  <2> QED BY <1>2, <1>9, <2>1 DEF Says, data, size
<1> HIDE DEF data, Says
<1>10. Says(data)
  BY <1>4, <1>5, <1>6, <1>7, <1>8, <1>9 DEF Says, data
<1> QED BY <1>10 DEF Says, data

\* What an entry says of its page, and what the images answered have cost so far.
Says(req, index, of) ==
  LET page == req.doc.pages[index + 1]
  IN  /\ index \in 0..(Len(req.doc.pages) - 1)
      /\ req.how = "labels"   => of = render_page_label(req.doc.ranges, index)
      /\ req.how = "geometry" => of = page_box(page)
      /\ req.how = "layout"   => of = page_layout_one(page)
      /\ req.how = "tables"   => of = page_tables_one(page)
      /\ req.how = "chars"    => of = page_text_chars_one(page)
      /\ req.how = "images"   =>
           /\ of.geometry = page_box(page) /\ IsSeq(of.images) /\ Len(of.images) = Len(page.images)
           /\ \A k \in 1..Len(page.images) : of.images[k].bbox = ImageBox(page, page.images[k])

ShownIn(entries)       == Joined([k \in 1..Len(entries) |-> entries[k].entry.images])
BehindIn(req, entries) == Joined([k \in 1..Len(entries) |-> req.doc.pages[entries[k].page_index + 1].images])

DataFor(req, image, used) ==
  image_bytes_for(image, req.doc.security.encrypted, req.decode, req.max_image_bytes, used)

Spends(w, req, shown, images, used) ==
  /\ IsSeq(shown) /\ IsSeq(images) /\ Len(images) = Len(shown)
  /\ w \in [0..Len(shown) -> 0..MAX_CALL_IMAGE_BYTES] /\ w[0] = 0 /\ w[Len(shown)] = used
  /\ \A k \in 1..Len(shown) :
       /\ IsImage(images[k]) /\ shown[k].data = DataFor(req, images[k], w[k - 1])
       /\ w[k] = w[k - 1] + DataFor(req, images[k], w[k - 1]).bytes

EntriesFit(req, entries, used) ==
  /\ \A k \in 1..Len(entries) : Says(req, entries[k].page_index, entries[k].entry)
  /\ req.how = "images" => \E w : Spends(w, req, ShownIn(entries), BehindIn(req, entries), used)

\* Before the first page nothing is said and nothing is spent.
LEMMA NothingFits == ASSUME NEW req PROVE EntriesFit(req, <<>>, 0)
<1>1. 1..Len(<<>>) = {} /\ Len(<<>>) = 0 /\ IsSeq(<<>>)
  BY NothingIsSeq
<1> DEFINE shown == ShownIn(<<>>)
           images == BehindIn(req, <<>>)
           w == [k \in 0..0 |-> 0]
<1>2. shown = <<>>
  <2> DEFINE l == [k \in 1..Len(<<>>) |-> <<>>[k].entry.images]
  <2>1. Len(l) = 0
    <3>1. l = [k \in 1..0 |-> <<>>[k].entry.images]
      BY <1>1, Zenon
    <3> HIDE DEF l
    <3> QED BY <3>1
  <2> HIDE DEF l
  <2>2. Joined(l) = <<>>
    BY <2>1, JoinedNothing
  <2> QED BY <2>2 DEF l, ShownIn
<1>3. images = <<>>
  <2> DEFINE l == [k \in 1..Len(<<>>) |-> req.doc.pages[<<>>[k].page_index + 1].images]
  <2>1. Len(l) = 0
    <3>1. l = [k \in 1..0 |-> req.doc.pages[<<>>[k].page_index + 1].images]
      BY <1>1, Zenon
    <3> HIDE DEF l
    <3> QED BY <3>1
  <2> HIDE DEF l
  <2>2. Joined(l) = <<>>
    BY <2>1, JoinedNothing
  <2> QED BY <2>2 DEF l, BehindIn
<1>4. w \in [0..0 -> 0..MAX_CALL_IMAGE_BYTES] /\ w[0] = 0
  BY ImagesAssumption
<1> HIDE DEF w, shown, images
<1>5. Spends(w, req, shown, images, 0)
  BY <1>1, <1>2, <1>3, <1>4, Zenon DEF Spends
<1> QED BY <1>1, <1>5 DEF EntriesFit, shown, images

\* What was spent on the images so far, and then on those of one more page.
LEMMA SpendsMore ==
  ASSUME NEW req, NEW w, NEW shown, NEW images, NEW used, Spends(w, req, shown, images, used),
         req.max_image_bytes \in Nat, NEW page, IsListOf(page.images, IsImage)
  PROVE  LET r == page_images_one(page, req.doc.security.encrypted, req.decode, req.max_image_bytes, used)
         IN  \E v : Spends(v, req, shown \o r.images, images \o page.images, r.spent)
<1> DEFINE N == Len(shown)
           M == Len(page.images)
           B == 0..MAX_CALL_IMAGE_BYTES
           r == page_images_one(page, req.doc.security.encrypted, req.decode, req.max_image_bytes, used)
           Cost(image, n) == DataFor(req, image, n).bytes
<1>1. /\ IsSeq(shown) /\ IsSeq(images) /\ Len(images) = N /\ N \in Nat
      /\ w \in [0..N -> B] /\ w[0] = 0 /\ w[N] = used
      /\ \A k \in 1..N : /\ IsImage(images[k]) /\ shown[k].data = DataFor(req, images[k], w[k - 1])
                         /\ w[k] = w[k - 1] + Cost(images[k], w[k - 1])
  BY DEF Spends, IsSeq
<1>2. used \in B
  <2>1. N \in 0..N
    BY <1>1
  <2> HIDE DEF N, B
  <2> QED BY <1>1, <2>1
<1>3. /\ IsSeq(r.images) /\ Len(r.images) = M /\ M \in Nat
      /\ \E u : Serves(u, page, req.doc.security.encrypted, req.decode, req.max_image_bytes, used, r)
  BY <1>2, ServedIs
<1>4. IsSeq(page.images) /\ \A k \in 1..M : IsImage(page.images[k])
  BY DEF IsListOf
<1> HIDE DEF r, N, M, B, Cost
<1>15. PICK u : Serves(u, page, req.doc.security.encrypted, req.decode, req.max_image_bytes, used, r)
  BY <1>3
<1>5. /\ u \in [0..M -> B] /\ u[0] = used /\ r.spent = u[M]
      /\ \A k \in 1..M :
           /\ r.images[k] = ImageEntry(page, page.images[k], DataFor(req, page.images[k], u[k - 1]))
           /\ u[k] = u[k - 1] + Cost(page.images[k], u[k - 1])
  BY <1>15 DEF Serves, DataFor, M, B, Cost
<1> DEFINE s == shown \o r.images
           i == images \o page.images
           v == [k \in 0..(N + M) |-> IF k <= N THEN w[k] ELSE u[k - N]]
<1>6. /\ IsSeq(s) /\ Len(s) = N + M
      /\ \A k \in 1..N : s[k] = shown[k]
      /\ \A k \in 1..M : s[N + k] = r.images[k]
  <2> DEFINE t == r.images
  <2>1. IsSeq(shown) /\ IsSeq(t) /\ Len(shown) = N /\ Len(t) = M
    BY <1>1, <1>3 DEF N
  <2> HIDE DEF t
  <2>2. /\ IsSeq(shown \o t) /\ Len(shown \o t) = N + M
        /\ \A k \in 1..N : (shown \o t)[k] = shown[k]
        /\ \A k \in 1..M : (shown \o t)[N + k] = t[k]
    BY <2>1, JoinIs
  <2> QED BY <2>2 DEF t
<1>7. /\ IsSeq(i) /\ Len(i) = N + M
      /\ \A k \in 1..N : i[k] = images[k]
      /\ \A k \in 1..M : i[N + k] = page.images[k]
  <2>1. IsSeq(images) /\ IsSeq(page.images) /\ Len(images) = N /\ Len(page.images) = M
    BY <1>1, <1>4 DEF M
  <2> QED BY <2>1, JoinIs
<1> HIDE DEF s, i
<1>8. v \in [0..(N + M) -> B]
  <2> SUFFICES ASSUME NEW k \in 0..(N + M) PROVE (IF k <= N THEN w[k] ELSE u[k - N]) \in B
    OBVIOUS
  <2>1. CASE k <= N
    <3>1. k \in 0..N
      BY <1>1, <1>3, <2>1
    <3> QED BY <1>1, <2>1, <3>1
  <2>2. CASE ~(k <= N)
    <3>1. k - N \in 0..M
      BY <1>1, <1>3, <2>2
    <3> QED BY <1>5, <2>2, <3>1
  <2> QED BY <2>1, <2>2
<1>9. \A k \in 0..N : v[k] = w[k]
  <2>1. \A k \in 0..N : k \in 0..(N + M) /\ k <= N
    BY <1>1, <1>3
  <2> QED BY <2>1
<1>10. \A k \in 0..M : v[N + k] = u[k]
  <2> SUFFICES ASSUME NEW k \in 0..M PROVE v[N + k] = u[k]
    OBVIOUS
  <2>1. N + k \in 0..(N + M) /\ (N + k) - N = k /\ (N + k <= N <=> k = 0) /\ (k = 0 => N + k = N)
    BY <1>1, <1>3
  <2>2. CASE k = 0
    BY <1>1, <1>5, <2>1, <2>2
  <2>3. CASE k # 0
    <3>1. v[N + k] = u[(N + k) - N]
      BY <2>1, <2>3
    <3> QED BY <2>1, <3>1
  <2> QED BY <2>2, <2>3
<1> HIDE DEF v
<1>11. v[0] = 0 /\ v[N + M] = r.spent
  <2>1. 0 \in 0..N /\ M \in 0..M
    BY <1>1, <1>3
  <2> QED BY <1>1, <1>5, <1>9, <1>10, <2>1
<1>12. \A page_image, data : ImageEntry(page, page_image, data).data = data
  BY DEF ImageEntry
<1>13. ASSUME NEW k \in 1..(N + M)
       PROVE  /\ IsImage(i[k]) /\ s[k].data = DataFor(req, i[k], v[k - 1])
              /\ v[k] = v[k - 1] + Cost(i[k], v[k - 1])
  <2>1. CASE k <= N
    <3>1. k \in 1..N /\ k \in 0..N /\ k - 1 \in 0..N
      BY <1>1, <1>3, <2>1
    <3>2. v[k] = w[k] /\ v[k - 1] = w[k - 1] /\ s[k] = shown[k] /\ i[k] = images[k]
      BY <1>6, <1>7, <1>9, <3>1
    <3> QED BY <1>1, <3>1, <3>2
  <2>2. CASE ~(k <= N)
    <3> DEFINE m == k - N
    <3>1. m \in 1..M /\ m \in 0..M /\ m - 1 \in 0..M /\ N + m = k /\ N + (m - 1) = k - 1
      BY <1>1, <1>3, <2>2
    <3> HIDE DEF m
    <3>2. v[k] = u[m] /\ v[k - 1] = u[m - 1] /\ s[k] = r.images[m] /\ i[k] = page.images[m]
      <4>1. v[N + m] = u[m] /\ v[N + (m - 1)] = u[m - 1] /\ s[N + m] = r.images[m] /\ i[N + m] = page.images[m]
        BY <1>6, <1>7, <1>10, <3>1
      <4> QED BY <3>1, <4>1
    <3>3. r.images[m].data = DataFor(req, page.images[m], u[m - 1])
      BY <1>5, <1>12, <3>1
    <3>4. u[m] = u[m - 1] + Cost(page.images[m], u[m - 1]) /\ IsImage(page.images[m])
      BY <1>4, <1>5, <3>1
    <3> QED BY <3>2, <3>3, <3>4
  <2> QED BY <2>1, <2>2
<1>14. Spends(v, req, s, i, r.spent)
  BY <1>6, <1>7, <1>8, <1>11, <1>13 DEF Spends, B, Cost
<1> QED BY <1>14 DEF s, i, r

\* One more page is answered with what its surface says of it.
LEMMA OneMoreFits ==
  ASSUME NEW req, req \in PdfCases, NEW entries, IsSeq(entries), NEW used, EntriesFit(req, entries, used),
         NEW index, NEW of, Says(req, index, of), NEW next,
         req.how = "images" =>
           LET r == page_images_one(req.doc.pages[index + 1], req.doc.security.encrypted, req.decode,
                                    req.max_image_bytes, used)
           IN  of.images = r.images /\ next = r.spent
  PROVE  EntriesFit(req, Append(entries, [page_index |-> index, entry |-> of]), next)
<1> DEFINE e == [page_index |-> index, entry |-> of]
           more == Append(entries, e)
           n == Len(entries)
           page == req.doc.pages[index + 1]
<1>1. e.page_index = index /\ e.entry = of
  OBVIOUS
<1> HIDE DEF e
<1>2. /\ n \in Nat /\ Len(more) = n + 1 /\ (\A k \in 1..n : more[k] = entries[k]) /\ more[n + 1] = e
  BY AppendIs DEF IsSeq
<1> HIDE DEF more, n
<1>3. ASSUME NEW k \in 1..(n + 1)
      PROVE  Says(req, more[k].page_index, more[k].entry)
  <2>1. CASE k = n + 1
    BY <1>1, <1>2, <2>1
  <2>2. CASE k # n + 1
    <3>1. k \in 1..n
      BY <1>2, <2>2
    <3> QED BY <1>2, <3>1 DEF EntriesFit, n
  <2> QED BY <2>1, <2>2
<1>4. ASSUME req.how = "images"
      PROVE  \E v : Spends(v, req, ShownIn(more), BehindIn(req, more), next)
  <2> DEFINE r == page_images_one(page, req.doc.security.encrypted, req.decode, req.max_image_bytes, used)
  <2>1. PICK w : Spends(w, req, ShownIn(entries), BehindIn(req, entries), used)
    BY <1>4 DEF EntriesFit
  <2>2. /\ req.max_image_bytes \in Nat
        /\ \A k \in 1..Len(req.doc.pages) : IsListOf(req.doc.pages[k].images, IsImage)
        /\ Len(req.doc.pages) \in Nat
    BY PdfCasesAssumption DEF IsCall, IsListOf, IsSeq, IsPage
  <2>3. ASSUME NEW k \in 0..(Len(req.doc.pages) - 1) PROVE IsListOf(req.doc.pages[k + 1].images, IsImage)
    <3>1. k + 1 \in 1..Len(req.doc.pages)
      BY <2>2
    <3> QED BY <2>2, <3>1
  <2>4. index \in 0..(Len(req.doc.pages) - 1)
    BY DEF Says
  <2>5. \E v : Spends(v, req, ShownIn(entries) \o r.images, BehindIn(req, entries) \o page.images, r.spent)
    BY <2>1, <2>2, <2>3, <2>4, SpendsMore
  <2> HIDE DEF r, page
  <2>6. ShownIn(more) = ShownIn(entries) \o r.images
    <3> DEFINE old == [k \in 1..n |-> entries[k].entry.images]
               new == [k \in 1..(n + 1) |-> more[k].entry.images]
    <3>1. ShownIn(entries) = Joined(old) /\ ShownIn(more) = Joined(new)
      BY <1>2 DEF ShownIn, n
    <3>2. Len(old) = n /\ Len(new) = n + 1 /\ \A k \in 1..(n + 1) : new[k] = more[k].entry.images
      BY <1>2
    <3>3. \A k \in 1..n : new[k] = old[k]
      BY <1>2
    <3> HIDE DEF old, new
    <3>4. \A k \in 1..(n + 1) : IsSeq(new[k])
      BY <1>3, <1>4, <3>2 DEF Says
    <3>5. Joined(new) = Joined(old) \o new[n + 1]
      BY <1>2, <3>2, <3>3, <3>4, JoinedGrows
    <3>6. new[n + 1] = r.images
      <4>1. n + 1 \in 1..(n + 1)
        BY <1>2
      <4> QED BY <1>1, <1>2, <1>4, <3>2, <4>1 DEF r, page
    <3> QED BY <3>1, <3>5, <3>6
  <2>7. BehindIn(req, more) = BehindIn(req, entries) \o page.images
    <3> DEFINE old == [k \in 1..n |-> req.doc.pages[entries[k].page_index + 1].images]
               new == [k \in 1..(n + 1) |-> req.doc.pages[more[k].page_index + 1].images]
    <3>1. BehindIn(req, entries) = Joined(old) /\ BehindIn(req, more) = Joined(new)
      BY <1>2 DEF BehindIn, n
    <3>2. Len(old) = n /\ Len(new) = n + 1
          /\ \A k \in 1..(n + 1) : new[k] = req.doc.pages[more[k].page_index + 1].images
      BY <1>2
    <3>3. \A k \in 1..n : new[k] = old[k]
      BY <1>2
    <3> HIDE DEF old, new
    <3>4. \A k \in 1..(n + 1) : IsSeq(new[k])
      <4>1. \A k \in 1..(n + 1) : more[k].page_index \in 0..(Len(req.doc.pages) - 1)
        BY <1>3 DEF Says
      <4> QED BY <2>3, <3>2, <4>1 DEF IsListOf
    <3>5. Joined(new) = Joined(old) \o new[n + 1]
      BY <1>2, <3>2, <3>3, <3>4, JoinedGrows
    <3>6. new[n + 1] = page.images
      <4>1. n + 1 \in 1..(n + 1)
        BY <1>2
      <4> QED BY <1>1, <1>2, <3>2, <4>1 DEF page
    <3> QED BY <3>1, <3>5, <3>6
  <2>8. next = r.spent
    BY <1>4 DEF r, page
  <2> QED BY <2>5, <2>6, <2>7, <2>8
<1> QED BY <1>2, <1>3, <1>4 DEF EntriesFit, more, e

\* What a call knows, and what its entries say and cost.
EntriesInv == CallInv /\ EntriesFit(request, reply.entries, spent)

\* A call begins within the invariant of its entries.
LEMMA EntriesStart == PdfInit => EntriesInv
<1> SUFFICES ASSUME PdfInit PROVE EntriesInv
  OBVIOUS
<1>1. reply.entries = <<>> /\ spent = 0
  BY NoAnswerIs DEF PdfInit
<1> QED BY <1>1, CallStarts, NothingFits DEF EntriesInv

\* A refusal says nothing and has spent nothing.
LEMMA RefusalFits == ASSUME NEW by, NEW why, RefuseCall(by, why) PROVE EntriesFit(request', reply'.entries, spent')
<1>1. /\ reply' = [by |-> by, refused |-> why, report |-> <<>>, entries |-> <<>>]
      /\ spent' = 0
  BY DEF RefuseCall, NoAnswer
<1>2. reply'.entries = <<>>
  BY <1>1
<1> QED BY <1>1, <1>2, NothingFits

\* A page that is answered is answered from its document, and what its images spend is counted.
LEMMA NextPageFits ==
  ASSUME EntriesInv, NextPage
  PROVE  EntriesFit(request', reply'.entries, spent')
<1> DEFINE index == Head(todo)
           page == doc.pages[index + 1]
           of == EntryOf(index, page)
           e == [page_index |-> index, entry |-> of]
<1>1. /\ stage = "pages" /\ todo # <<>> /\ request' = request
      /\ reply' = [reply EXCEPT !.entries = Append(@, e)]
      /\ spent' = IF request.how = "images" THEN ImagesOf(page).spent ELSE spent
  BY DEF NextPage
<1>2. /\ request \in PdfCases /\ ReplyIs /\ todo \in Seq(Nat) /\ LeftToDo /\ EntriesFit(request, reply.entries, spent)
  BY <1>1 DEF EntriesInv, CallInv
<1>3. reply'.entries = Append(reply.entries, e) /\ IsSeq(reply.entries)
  <2>1. /\ reply = [by |-> reply.by, refused |-> reply.refused, report |-> reply.report, entries |-> reply.entries]
        /\ IsSeq(reply.entries)
    BY <1>2 DEF ReplyIs
  <2> HIDE DEF e
  <2>2. reply' = [by |-> reply.by, refused |-> reply.refused, report |-> reply.report,
                  entries |-> Append(reply.entries, e)]
    BY <1>1, <2>1
  <2> QED BY <2>1, <2>2
<1>4. index \in 0..(Len(request.doc.pages) - 1)
  <2>1. /\ Len(todo) \in Nat \ {0} /\ index = todo[1]
    BY <1>1, <1>2, TailIs
  <2>2. todo[1] = Selected[Len(reply.entries) + 1] /\ Len(reply.entries) \in Nat
        /\ Len(reply.entries) + Len(todo) = Len(Selected)
    BY <1>2, <1>3, <2>1 DEF LeftToDo, IsSeq
  <2>3. Len(Selected) \in Nat
    BY <1>2, SelectedCounts
  <2>4. Len(reply.entries) + 1 \in 1..Len(Selected)
    BY <2>1, <2>2, <2>3
  <2>5. Selected[Len(reply.entries) + 1] \in 0..(Count - 1)
    BY <1>2, <2>4 DEF LeftToDo
  <2> QED BY <2>1, <2>2, <2>5 DEF Count, doc
<1>5. page = request.doc.pages[index + 1] /\ IsListOf(page.images, IsImage) /\ request.max_image_bytes \in Nat
  <2>1. IsListOf(request.doc.pages, IsPage) /\ request.max_image_bytes \in Nat
    BY <1>2, PdfCasesAssumption DEF IsCall
  <2>2. Len(request.doc.pages) \in Nat /\ \A k \in 1..Len(request.doc.pages) : IsPage(request.doc.pages[k])
    BY <2>1 DEF IsListOf, IsSeq
  <2>3. index + 1 \in 1..Len(request.doc.pages)
    BY <1>4, <2>2
  <2>4. IsPage(request.doc.pages[index + 1])
    BY <2>2, <2>3
  <2>5. IsListOf(request.doc.pages[index + 1].images, IsImage)
    BY <2>4 DEF IsPage
  <2> QED BY <2>1, <2>5 DEF doc
<1>6. ImagesOf(page) = page_images_one(request.doc.pages[index + 1], request.doc.security.encrypted,
                                       request.decode, request.max_image_bytes, spent)
  BY <1>5 DEF ImagesOf, doc
<1>7. ASSUME request.how = "images"
      PROVE  of.geometry = page_box(page) /\ of.images = ImagesOf(page).images /\ spent' = ImagesOf(page).spent
  <2>1. of = [geometry |-> page_box(page), images |-> ImagesOf(page).images]
    BY <1>7 DEF EntryOf
  <2> HIDE DEF of
  <2> QED BY <1>1, <1>7, <2>1
<1>8. /\ request.how = "labels"   => of = render_page_label(request.doc.ranges, index)
      /\ request.how = "geometry" => of = page_box(page)
      /\ request.how = "layout"   => of = page_layout_one(page)
      /\ request.how = "tables"   => of = page_tables_one(page)
      /\ request.how = "chars"    => of = page_text_chars_one(page)
  BY DEF EntryOf, doc
<1> HIDE DEF of, e, page, index
<1>9. ASSUME request.how = "images"
      PROVE  /\ of.geometry = page_box(page) /\ IsSeq(of.images) /\ Len(of.images) = Len(page.images)
             /\ \A k \in 1..Len(page.images) : of.images[k].bbox = ImageBox(page, page.images[k])
  <2>1. PICK w : Spends(w, request, ShownIn(reply.entries), BehindIn(request, reply.entries), spent)
    BY <1>2, <1>9 DEF EntriesFit
  <2>2. spent \in 0..MAX_CALL_IMAGE_BYTES
    <3> DEFINE n == Len(ShownIn(reply.entries))
    <3>1. w \in [0..n -> 0..MAX_CALL_IMAGE_BYTES] /\ w[n] = spent /\ n \in Nat
      BY <2>1 DEF Spends, IsSeq
    <3> HIDE DEF n
    <3> QED BY <3>1
  <2> DEFINE r == page_images_one(page, request.doc.security.encrypted, request.decode,
                                  request.max_image_bytes, spent)
  <2>3. /\ IsSeq(r.images) /\ Len(r.images) = Len(page.images)
        /\ \E v : Serves(v, page, request.doc.security.encrypted, request.decode, request.max_image_bytes, spent, r)
    BY <1>5, <2>2, ServedIs
  <2>4. r = ImagesOf(page)
    BY <1>5, <1>6
  <2> HIDE DEF r
  <2>5. \A k \in 1..Len(page.images) : r.images[k].bbox = ImageBox(page, page.images[k])
    <3>1. \A image, data : ImageEntry(page, image, data).bbox = ImageBox(page, image)
      BY DEF ImageEntry
    <3> QED BY <2>3, <3>1 DEF Serves
  <2> QED BY <1>7, <1>9, <2>3, <2>4, <2>5
<1>10. Says(request, index, of)
  BY <1>4, <1>5, <1>8, <1>9 DEF Says
<1>11. EntriesFit(request, Append(reply.entries, [page_index |-> index, entry |-> of]), spent')
  <2> DEFINE next == spent'
             r == page_images_one(request.doc.pages[index + 1], request.doc.security.encrypted,
                                  request.decode, request.max_image_bytes, spent)
  <2>1. request.how = "images" => of.images = r.images /\ next = r.spent
    BY <1>6, <1>7
  <2> HIDE DEF next
  <2>2. EntriesFit(request, Append(reply.entries, [page_index |-> index, entry |-> of]), next)
    BY <1>2, <1>3, <1>10, <2>1, OneMoreFits
  <2> QED BY <2>2 DEF next
<1> QED BY <1>1, <1>3, <1>11 DEF e

\* Every step of a call keeps what its entries say.
LEMMA EntriesKeep ==
  ASSUME EntriesInv, [PdfNext]_pdf_vars
  PROVE  EntriesInv'
<1>1. CallInv'
  BY CallKeeps DEF EntriesInv
<1>2. EntriesFit(request, reply.entries, spent)
  BY DEF EntriesInv
<1>3. ASSUME NEW to, Continue(to) PROVE EntriesFit(request', reply'.entries, spent')
  BY <1>2, <1>3 DEF Continue
<1>4. EntriesFit(request', reply'.entries, spent')
  <2>1. CASE with_depth_headroom
    BY <1>3, <2>1, RefusalFits DEF with_depth_headroom
  <2>2. CASE EnginePanics
    BY <2>2, RefusalFits DEF EnginePanics
  <2>3. CASE Scan
    <3> DEFINE verdict == scan_document(doc.bytes)
    <3>1. Continue("open") \/ RefuseCall("scan", verdict)
      BY <2>3 DEF Scan
    <3> HIDE DEF verdict
    <3> QED BY <1>3, <3>1, RefusalFits
  <2>4. CASE OpenDocument
    <3> DEFINE opened == open(doc.security, request.password)
    <3>1. Continue("select") \/ RefuseCall("door", opened)
      BY <2>4 DEF OpenDocument
    <3> HIDE DEF opened
    <3> QED BY <1>3, <3>1, RefusalFits
  <2>5. CASE Report
    <3> DEFINE report == <<security(doc.security, request.password)>>
    <3>1. /\ stage = "open" /\ spent' = spent /\ reply' = [NoAnswer EXCEPT !.report = report]
      BY <2>5 DEF Report
    <3> HIDE DEF report
    <3>2. reply' = [by |-> "", refused |-> "", report |-> report, entries |-> <<>>]
      BY <3>1 DEF NoAnswer
    <3>3. reply'.entries = <<>>
      BY <3>2
    <3>4. spent = 0
      BY <3>1 DEF EntriesInv, CallInv
    <3> QED BY <3>1, <3>3, <3>4, NothingFits
  <2>6. CASE Select
    <3>1. \/ RefuseCall("selection", "pages")
          \/ request' = request /\ spent' = spent /\ reply' = reply
      BY <2>6 DEF Select
    <3> QED BY <1>2, <3>1, RefusalFits
  <2>7. CASE PageFails
    BY <2>7, RefusalFits DEF PageFails
  <2>8. CASE NextPage
    BY <2>8, NextPageFits
  <2>9. CASE Return
    BY <1>3, <2>9 DEF Return
  <2>10. CASE UNCHANGED pdf_vars
    BY <1>2, <2>10 DEF pdf_vars
  <2> QED BY <2>1, <2>2, <2>3, <2>4, <2>5, <2>6, <2>7, <2>8, <2>9, <2>10 DEF PdfNext
<1> QED BY <1>1, <1>4 DEF EntriesInv

\* The invariant of the entries holds in every state of a call.
LEMMA EntriesAlways == PdfSpec => []EntriesInv
<1>1. EntriesInv /\ [PdfNext]_pdf_vars => EntriesInv'
  BY EntriesKeep
<1> QED BY EntriesStart, <1>1, PTL DEF PdfSpec

\* What entries say of boxes is where the page is shown.
LEMMA BoxesHold ==
  ASSUME EntriesInv
  PROVE  BoxesInOneFrame
<1>1. request \in PdfCases /\ \A k \in 1..Len(reply.entries) : Says(request, reply.entries[k].page_index, reply.entries[k].entry)
  BY DEF EntriesInv, CallInv, EntriesFit
<1>2. ASSUME NEW index \in 0..(Len(request.doc.pages) - 1) PROVE IsPage(request.doc.pages[index + 1])
  <2>1. Len(request.doc.pages) \in Nat /\ \A k \in 1..Len(request.doc.pages) : IsPage(request.doc.pages[k])
    BY <1>1, PdfCasesAssumption DEF IsCall, IsListOf, IsSeq
  <2>2. index + 1 \in 1..Len(request.doc.pages)
    BY <2>1
  <2> QED BY <2>1, <2>2
<1>3. ASSUME NEW how, NEW e \in EntriesOf(how)
      PROVE  /\ request.how = how /\ IsPage(e.page)
             /\ how = "geometry" => e.of = page_box(e.page)
             /\ how = "layout"   => e.of = page_layout_one(e.page)
             /\ how = "tables"   => e.of = page_tables_one(e.page)
             /\ how = "chars"    => e.of = page_text_chars_one(e.page)
             /\ how = "images"   =>
                  /\ e.of.geometry = page_box(e.page) /\ Len(e.of.images) = Len(e.page.images)
                  /\ \A k \in 1..Len(e.page.images) : e.of.images[k].bbox = ImageBox(e.page, e.page.images[k])
  <2>1. request.how = how
    BY <1>3 DEF EntriesOf
  <2>2. PICK k \in 1..Len(reply.entries) :
          e = [page |-> doc.pages[reply.entries[k].page_index + 1], of |-> reply.entries[k].entry]
    BY <1>3, <2>1 DEF EntriesOf
  <2> DEFINE index == reply.entries[k].page_index
             of == reply.entries[k].entry
             page == request.doc.pages[index + 1]
  <2>3. Says(request, index, of)
    BY <1>1
  <2>4. e = [page |-> page, of |-> of]
    BY <2>2 DEF doc
  <2> HIDE DEF of, page
  <2>5. e.page = page /\ e.of = of
    BY <2>4
  <2>6. IsPage(page)
    BY <1>2, <2>3 DEF Says, page
  <2>7. /\ how = "geometry" => of = page_box(page)
        /\ how = "layout"   => of = page_layout_one(page)
        /\ how = "tables"   => of = page_tables_one(page)
        /\ how = "chars"    => of = page_text_chars_one(page)
        /\ how = "images"   =>
             /\ of.geometry = page_box(page) /\ Len(of.images) = Len(page.images)
             /\ \A n \in 1..Len(page.images) : of.images[n].bbox = ImageBox(page, page.images[n])
    BY <2>1, <2>3 DEF Says, page
  <2> QED BY <2>1, <2>5, <2>6, <2>7
<1>4. ASSUME NEW e \in EntriesOf("layout")
      PROVE  IF e.of.geometry # NoPageBox THEN LayoutShown(e.page, e.of)
             ELSE e.of.spans = <<>> /\ e.of.lines = <<>> /\ e.of.images = <<>>
  <2>1. IsPage(e.page) /\ e.of = page_layout_one(e.page)
    BY <1>3
  <2> QED BY <2>1, LayoutHolds
<1>5. ASSUME NEW e \in EntriesOf("chars")
      PROVE  IF e.of.geometry # NoPageBox THEN CharsShown(e.page, e.of.chars) ELSE e.of.chars = <<>>
  <2>1. IsPage(e.page) /\ e.of = page_text_chars_one(e.page)
    BY <1>3
  <2> QED BY <2>1, CharsHold
<1>6. ASSUME NEW e \in EntriesOf("tables")
      PROVE  IF e.of.geometry # NoPageBox THEN TablesShown(e.page, e.of)
             ELSE e.of.cells = <<>> /\ ~e.of.tables_refused
  <2>1. IsPage(e.page) /\ e.of = page_tables_one(e.page)
    BY <1>3
  <2> QED BY <2>1, TablesHold
<1>7. ASSUME NEW e \in EntriesOf("images"), NEW k \in 1..Len(e.of.images)
      PROVE  e.of.images[k].bbox = IF e.of.geometry = NoPageBox THEN NoBox
                                   ELSE BoxShown(e.page, e.page.images[k].bbox)
  <2>1. /\ IsPage(e.page) /\ e.of.geometry = page_box(e.page) /\ k \in 1..Len(e.page.images)
        /\ e.of.images[k].bbox = ImageBox(e.page, e.page.images[k])
    BY <1>3, <1>7
  <2>2. CASE page_box(e.page) = NoPageBox
    BY <2>1, <2>2 DEF ImageBox
  <2>3. CASE page_box(e.page) # NoPageBox
    <3>1. e.page.visible \in Corners /\ e.page.rotation \in Turns
      BY <2>1, <2>3, FramedIs DEF Framed
    <3>2. e.page.images[k].bbox \in Boxes
      BY <2>1, ImageIs DEF IsPage, IsListOf
    <3> QED BY <2>1, <2>3, <3>1, <3>2, ForwardShows DEF ImageBox
  <2> QED BY <2>2, <2>3
<1>8. ASSUME NEW e \in EntriesOf("geometry"), e.of # NoPageBox
      PROVE  BoxShown(e.page, <<e.page.visible[1], e.page.visible[2], e.page.visible[3] - e.page.visible[1],
                                e.page.visible[4] - e.page.visible[2]>>)
               = <<0, 0, e.of.width_pt, e.of.height_pt>>
  <2>1. IsPage(e.page) /\ e.of = page_box(e.page)
    BY <1>3
  <2> QED BY <1>8, <2>1, GeometryHolds
<1> QED BY <1>4, <1>5, <1>6, <1>7, <1>8, Zenon DEF BoxesInOneFrame

\* Every surface gives every box where the page is shown, whatever the engine had turned
\* of it, and tables are refused exactly when their text and their rulings are not in
\* one frame, for every page, turn, crop and selection (pdf_impl.rs 1445-1570, 1955).
THEOREM BoxesAreInOneFrame == PdfSpec => []BoxesInOneFrame
<1>1. EntriesInv => BoxesInOneFrame
  BY BoxesHold
<1> QED BY <1>1, EntriesAlways, PTL

\* Every image is served within what its own limit and those before it leave.
LEMMA EachIsAffordable ==
  ASSUME NEW req, req.max_image_bytes \in Nat, NEW w, NEW shown, NEW images, NEW used,
         Spends(w, req, shown, images, used), NEW k \in 1..Len(shown)
  PROVE  /\ w[k - 1] \in 0..MAX_CALL_IMAGE_BYTES
         /\ Affordable(shown[k].data, req.max_image_bytes, w[k - 1])
<1>1. /\ Len(shown) \in Nat /\ w \in [0..Len(shown) -> 0..MAX_CALL_IMAGE_BYTES]
      /\ IsImage(images[k]) /\ shown[k].data = DataFor(req, images[k], w[k - 1])
  BY DEF Spends, IsSeq
<1>2. k - 1 \in 0..Len(shown)
  BY <1>1
<1>3. w[k - 1] \in 0..MAX_CALL_IMAGE_BYTES
  BY <1>1, <1>2
<1>4. images[k].decoded.bytes \in Nat /\ images[k].byte_size_compressed \in Nat
  BY <1>1, ImageIs
<1> QED BY <1>1, <1>3, <1>4, ImageBytesBind DEF DataFor

\* What was spent before an image is the sum of what was served before it.
LEMMA BeforeIs ==
  ASSUME NEW req, req.max_image_bytes \in Nat, NEW w, NEW shown, NEW images, NEW used,
         Spends(w, req, shown, images, used), NEW k \in 1..(Len(shown) + 1)
  PROVE  Sum([n \in 1..(k - 1) |-> shown[n].data.bytes]) = w[k - 1]
<1> DEFINE M == k - 1
           ns == [n \in 1..M |-> shown[n].data.bytes]
           L == Len(shown)
<1>1. /\ L \in Nat /\ w[0] = 0
      /\ \A n \in 1..L : w[n] = w[n - 1] + shown[n].data.bytes
  BY DEF Spends, IsSeq
<1>2. M \in Nat /\ \A n \in 1..M : n \in 1..L
  BY <1>1
<1>3. \A n \in 1..L : shown[n].data.bytes \in Int
  <2>1. \A n \in 1..L : Affordable(shown[n].data, req.max_image_bytes, w[n - 1])
    BY EachIsAffordable
  <2> QED BY <2>1 DEF Affordable
<1> HIDE DEF M, L
<1>4. Len(ns) = M /\ \A n \in 1..M : ns[n] = shown[n].data.bytes
  BY <1>2
<1>5. \A n \in 1..M : ns[n] \in Int
  BY <1>2, <1>3, <1>4
<1> HIDE DEF ns
<1>6. PICK s \in [0..M -> Int] : s[0] = 0 /\ (\A n \in 1..M : s[n] = s[n - 1] + ns[n]) /\ Sum(ns) = s[M]
  BY <1>2, <1>4, <1>5, SumIs
<1> DEFINE P == [n \in 0..M |-> s[n] = w[n]]
<1>7. \A n \in 0..M : P[n]
  <2>1. P[0]
    <3>1. 0 \in 0..M /\ s[0] = w[0]
      BY <1>1, <1>2, <1>6
    <3> QED BY <3>1
  <2>2. ASSUME NEW n \in 1..M, P[n - 1] PROVE P[n]
    <3>1. n - 1 \in 0..M /\ n \in 0..M
      BY <1>2
    <3>2. s[n - 1] = w[n - 1]
      BY <2>2, <3>1
    <3>3. w[n] = w[n - 1] + shown[n].data.bytes /\ s[n] = s[n - 1] + ns[n]
      BY <1>1, <1>2, <1>6
    <3> QED BY <1>4, <3>1, <3>2, <3>3
  <2> HIDE DEF P
  <2> QED BY <1>2, <2>1, <2>2, HoldsAt
<1>8. s[M] = w[M]
  <2>1. M \in 0..M
    BY <1>2
  <2> QED BY <1>7, <2>1
<1> QED BY <1>6, <1>8 DEF ns, M

\* What entries say of images was within the budget.
LEMMA BudgetHolds ==
  ASSUME EntriesInv
  PROVE  BudgetBinds
<1> SUFFICES ASSUME request.how = "images" PROVE BudgetBinds
  BY DEF BudgetBinds
<1> DEFINE shown == Shown(reply.entries)
           images == Behind(reply.entries)
           before(k) == Sum([n \in 1..(k - 1) |-> shown[n].data.bytes])
           Size(k) == {decode_estimate(images[k]), images[k].decoded.bytes, images[k].byte_size_compressed}
<1>1. PICK w : Spends(w, request, shown, images, spent)
  BY DEF EntriesInv, EntriesFit, ShownIn, BehindIn, Shown, Behind, doc
<1>2. request.max_image_bytes \in Nat
  BY PdfCasesAssumption DEF EntriesInv, CallInv, IsCall
<1>3. /\ Len(shown) \in Nat /\ Len(images) = Len(shown) /\ w[Len(shown)] = spent
      /\ \A k \in 1..Len(shown) : IsImage(images[k]) /\ shown[k].data = DataFor(request, images[k], w[k - 1])
  BY <1>1 DEF Spends, IsSeq
<1> HIDE DEF shown, images
<1>4. \A k \in 1..(Len(shown) + 1) : before(k) = w[k - 1]
  BY <1>1, <1>2, BeforeIs
<1> HIDE DEF before
<1>5. spent = before(Len(shown) + 1)
  <2>1. Len(shown) + 1 \in 1..(Len(shown) + 1) /\ (Len(shown) + 1) - 1 = Len(shown)
    BY <1>3
  <2>2. before(Len(shown) + 1) = w[(Len(shown) + 1) - 1]
    BY <1>4, <2>1
  <2> QED BY <1>3, <2>1, <2>2
<1>6. ASSUME NEW k \in 1..Len(shown)
      PROVE  LET data == shown[k].data
             IN  /\ data.bytes <= request.max_image_bytes
                 /\ before(k) + data.bytes <= MAX_CALL_IMAGE_BYTES
                 /\ data.arm = "size_cap" =>
                      \E n \in Size(k) : IF data.scope = "image" THEN n > request.max_image_bytes
                                         ELSE before(k) + n > MAX_CALL_IMAGE_BYTES
                 /\ data.arm \in {"jp2", "j2k"} => images[k].is_inline \/ ~doc.security.encrypted
                 /\ data.arm \in {"jpeg", "raw"} => data.bytes = images[k].decoded.bytes
  <2> DEFINE data == shown[k].data
  <2>1. before(k) = w[k - 1]
    <3>1. k \in 1..(Len(shown) + 1)
      BY <1>3
    <3> QED BY <1>4, <3>1
  <2>2. w[k - 1] \in 0..MAX_CALL_IMAGE_BYTES /\ Affordable(data, request.max_image_bytes, w[k - 1])
    BY <1>1, <1>2, EachIsAffordable
  <2>3. data.bytes <= request.max_image_bytes /\ w[k - 1] + data.bytes <= MAX_CALL_IMAGE_BYTES
    BY <1>2, <2>2 DEF Affordable
  <2>4. IsImage(images[k]) /\ w[k - 1] \in Nat
        /\ data = image_bytes_for(images[k], request.doc.security.encrypted, request.decode, request.max_image_bytes, w[k - 1])
    BY <1>3, <2>2 DEF DataFor
  <2>5. /\ data.arm = "size_cap" =>
             \E n \in Size(k) : IF data.scope = "image" THEN n > request.max_image_bytes
                                ELSE w[k - 1] + n > MAX_CALL_IMAGE_BYTES
        /\ data.arm \in {"jp2", "j2k"} => images[k].is_inline \/ ~request.doc.security.encrypted
        /\ data.arm \in {"jpeg", "raw"} => data.bytes = images[k].decoded.bytes
    BY <1>2, <2>4, DataIs
  <2> QED BY <2>1, <2>3, <2>5 DEF doc
<1> QED BY <1>3, <1>5, <1>6, Zenon DEF BudgetBinds, shown, images, before, Size

\* The limits bind on the bytes that are served, whatever a dictionary says of them and
\* however many pages and images there are: the count of a call is the sum of what
\* it has served, and what it refuses takes nothing of it (pdf_impl.rs 2723-2770).
THEOREM BudgetIsKept == PdfSpec => []BudgetBinds
<1>1. EntriesInv => BudgetBinds
  BY BudgetHolds
<1> QED BY <1>1, EntriesAlways, PTL

-----------------------------------------------------------------------------
(* Labels.                                                                 *)

\* What every number takes over from all below it holds of all.
LEMMA HoldsAll ==
  ASSUME NEW N \in Nat, NEW P, \A n \in 0..N : (\A m \in 0..(n - 1) : P[m]) => P[n]
  PROVE  \A n \in 0..N : P[n]
<1> DEFINE Bad == {n \in 0..N : ~P[n]}
<1>1. SUFFICES ASSUME Bad # {} PROVE FALSE
  OBVIOUS
<1>2. PICK x \in Bad : \A y \in Bad : x <= y
  <2>1. Bad \in SUBSET Nat
    OBVIOUS
  <2> HIDE DEF Bad
  <2> QED BY <1>1, <2>1, HasLeast
<1>3. ASSUME NEW m \in 0..(x - 1) PROVE P[m]
  <2>1. m \in 0..N /\ ~(x <= m)
    BY <1>2
  <2> QED BY <1>2, <2>1
<1>4. x \in 0..N /\ ~P[x]
  OBVIOUS
<1> QED BY <1>3, <1>4

\* f starts with a and takes the steps g from values further back, those at d.
Descends(f, N, X, a, d, g) ==
  f \in [0..N -> X] /\ f[0] = a /\ \A n \in 1..N : f[n] = g[n][f[d[n]]]

\* A function can be given by its first value and steps from any value before.
LEMMA Descent ==
  ASSUME NEW N \in Nat, NEW X, NEW a \in X, NEW g \in [1..N -> [X -> X]],
         NEW d, \A n \in 1..N : d[n] \in 0..(n - 1)
  PROVE  \E f : Descends(f, N, X, a, d, g)
<1> DEFINE Q(k) == \E f \in [0..k -> X] : f[0] = a /\ \A n \in 1..k : f[n] = g[n][f[d[n]]]
           Bad  == {k \in 0..N : ~Q(k)}
<1>1. Bad = {}
  <2>1. SUFFICES ASSUME Bad # {} PROVE FALSE
    OBVIOUS
  <2>2. PICK x \in Bad : \A y \in Bad : x <= y
    <3>1. Bad \in SUBSET Nat
      OBVIOUS
    <3> HIDE DEF Bad
    <3> QED BY <2>1, <3>1, HasLeast
  <2>3. Q(0)
    <3> DEFINE f == [n \in 0..0 |-> a]
    <3>1. f \in [0..0 -> X] /\ f[0] = a /\ \A n \in 1..0 : f[n] = g[n][f[d[n]]]
      OBVIOUS
    <3> QED BY <3>1
  <2>4. x \in 1..N /\ x - 1 \in 0..N /\ x - 1 \notin Bad
    <3> HIDE DEF Q
    <3> QED BY <2>2, <2>3
  <2>5. PICK f \in [0..(x - 1) -> X] :
          f[0] = a /\ \A n \in 1..(x - 1) : f[n] = g[n][f[d[n]]]
    BY <2>4
  <2> DEFINE h == [n \in 0..x |-> IF n = x THEN g[x][f[d[x]]] ELSE f[n]]
  <2>6. g[x][f[d[x]]] \in X
    <3>1. d[x] \in 0..(x - 1)
      BY <2>4
    <3> QED BY <2>4, <2>5, <3>1
  <2>7. h \in [0..x -> X]
    BY <2>4, <2>5, <2>6
  <2>8. h[0] = a
    BY <2>4, <2>5
  <2>9. ASSUME NEW n \in 1..x PROVE h[n] = g[n][h[d[n]]]
    <3>1. n \in 1..N /\ d[n] \in 0..(n - 1) /\ d[n] \in 0..x /\ d[n] # x /\ n \in 0..x
      BY <2>4
    <3>2. h[d[n]] = f[d[n]]
      BY <3>1
    <3>3. CASE n = x
      <4>1. h[n] = g[x][f[d[x]]]
        BY <3>1, <3>3
      <4> QED BY <3>2, <3>3, <4>1
    <3>4. CASE n # x
      <4>1. n \in 1..(x - 1)
        BY <2>4, <3>4
      <4>2. h[n] = f[n]
        BY <3>1, <3>4
      <4> QED BY <2>5, <3>2, <4>1, <4>2
    <3> QED BY <3>3, <3>4
  <2> HIDE DEF h
  <2>10. Q(x)
    BY <2>7, <2>8, <2>9
  <2> QED BY <2>2, <2>10
<1>2. Q(N)
  <2> HIDE DEF Q
  <2> QED BY <1>1
<1> QED BY <1>2 DEF Descends

\* A quotient and its remainder.
LEMMA DivisionIs ==
  ASSUME NEW m \in Nat, NEW b \in Nat \ {0}
  PROVE  m \div b \in 0..m /\ m % b \in 0..(b - 1) /\ b * (m \div b) + (m % b) = m
OBVIOUS

\* Letters are read from the first, each after what is read before it.
LEMMA ReadIs ==
  ASSUME NEW ns, NEW N \in Nat, Len(ns) = N, \A k \in 1..N : ns[k] \in Int
  PROVE  \E w \in [0..N -> Int] :
           w[0] = 0 /\ (\A n \in 1..N : w[n] = LETTERS * w[n - 1] + ns[n]) /\ ReadAlpha(ns) = w[N]
<1> DEFINE X == Int
           Then(n, x) == LETTERS * x + ns[n]
           P(h) == h = [n \in 0..N |-> IF n = 0 THEN 0 ELSE Then(n, h[n - 1])]
           g == [n \in 1..N |-> [x \in X |-> Then(n, x)]]
<1>1. ReadAlpha(ns) = (CHOOSE h : P(h))[N]
  BY DEF ReadAlpha
<1>2. \A n \in 1..N, x \in X : Then(n, x) \in X
  <2>1. LETTERS \in Int
    BY PagesAssumption
  <2>2. \A x \in Int : LETTERS * x \in Int
    BY <2>1
  <2> QED BY <2>2
<1> HIDE DEF Then
<1>3. g \in [1..N -> [X -> X]]
  BY <1>2
<1>4. PICK f : Runs(f, N, X, 0, g)
  <2> HIDE DEF g
  <2>1. 0 \in X
    OBVIOUS
  <2> HIDE DEF X
  <2> QED BY <1>3, <2>1, Recursion
<1>5. f \in [0..N -> X] /\ f[0] = 0 /\ \A n \in 1..N : f[n] = g[n][f[n - 1]]
  BY <1>4 DEF Runs
<1> HIDE DEF X
<1>6. P(f)
  <2>1. ASSUME NEW n \in 1..N PROVE f[n] = Then(n, f[n - 1])
    <3>1. n - 1 \in 0..N
      OBVIOUS
    <3>2. f[n - 1] \in X /\ f[n] = g[n][f[n - 1]]
      BY <1>5, <3>1
    <3>3. g[n] = [x \in X |-> Then(n, x)]
      OBVIOUS
    <3> HIDE DEF g
    <3> QED BY <3>2, <3>3
  <2>2. \A n \in 0..N : f[n] = IF n = 0 THEN 0 ELSE Then(n, f[n - 1])
    BY <1>5, <2>1
  <2> HIDE DEF g
  <2>3. f = [n \in 0..N |-> f[n]]
    BY <1>5
  <2> QED BY <2>2, <2>3
<1> DEFINE w == CHOOSE h : P(h)
<1> HIDE DEF P, g
<1>7. P(w)
  BY <1>6
<1> HIDE DEF w
<1>8. w = [n \in 0..N |-> IF n = 0 THEN 0 ELSE Then(n, w[n - 1])]
  BY <1>7 DEF P
<1>9. w[0] = 0 /\ \A n \in 1..N : w[n] = Then(n, w[n - 1])
  BY <1>8
<1>10. \A n \in 0..N : w[n] \in X
  <2>1. w[0] \in X
    BY <1>9 DEF X
  <2> QED BY <1>2, <1>9, <2>1, Stays
<1>11. w \in [0..N -> X]
  BY <1>8, <1>10
<1> QED BY <1>1, <1>9, <1>11 DEF w, X, Then

\* One more letter is one more digit.
LEMMA ReadMore ==
  ASSUME NEW s \in Seq(Int), NEW c \in Int
  PROVE  ReadAlpha(Append(s, c)) = LETTERS * ReadAlpha(s) + c /\ ReadAlpha(s) \in Int
<1> DEFINE N == Len(s)
           t == Append(s, c)
<1>1. /\ N \in Nat /\ t \in Seq(Int) /\ Len(t) = N + 1
      /\ (\A k \in 1..N : t[k] = s[k] /\ s[k] \in Int) /\ t[N + 1] = c
  OBVIOUS
<1> HIDE DEF t, N
<1>2. PICK f \in [0..N -> Int] :
        f[0] = 0 /\ (\A n \in 1..N : f[n] = LETTERS * f[n - 1] + s[n]) /\ ReadAlpha(s) = f[N]
  <2>1. Len(s) = N
    BY DEF N
  <2> QED BY <1>1, <2>1, ReadIs
<1>3. PICK h \in [0..(N + 1) -> Int] :
        h[0] = 0 /\ (\A n \in 1..(N + 1) : h[n] = LETTERS * h[n - 1] + t[n]) /\ ReadAlpha(t) = h[N + 1]
  <2> DEFINE M == N + 1
  <2>1. M \in Nat /\ Len(t) = M /\ \A k \in 1..M : t[k] \in Int
    BY <1>1
  <2> HIDE DEF M
  <2>2. \E h \in [0..M -> Int] :
          h[0] = 0 /\ (\A n \in 1..M : h[n] = LETTERS * h[n - 1] + t[n]) /\ ReadAlpha(t) = h[M]
    BY <2>1, ReadIs
  <2> QED BY <2>2 DEF M
<1> DEFINE P == [n \in 0..N |-> f[n] = h[n]]
<1>4. \A n \in 0..N : P[n]
  <2>1. P[0]
    <3>1. 0 \in 0..N /\ f[0] = h[0]
      BY <1>1, <1>2, <1>3
    <3> QED BY <3>1
  <2>2. ASSUME NEW n \in 1..N, P[n - 1] PROVE P[n]
    <3>1. n - 1 \in 0..N /\ n \in 0..N /\ n \in 1..(N + 1)
      BY <1>1
    <3>2. f[n - 1] = h[n - 1] /\ t[n] = s[n]
      BY <1>1, <2>2, <3>1
    <3>3. f[n] = LETTERS * f[n - 1] + s[n] /\ h[n] = LETTERS * h[n - 1] + t[n]
      BY <1>2, <1>3, <3>1
    <3>4. f[n] = h[n]
      BY <3>2, <3>3
    <3> QED BY <3>1, <3>4
  <2> HIDE DEF P
  <2> QED BY <1>1, <2>1, <2>2, HoldsAt
<1>5. f[N] = h[N] /\ f[N] \in Int
  <2>1. N \in 0..N
    BY <1>1
  <2> QED BY <1>4, <2>1
<1>6. h[N + 1] = LETTERS * h[N] + t[N + 1]
  <2>1. N + 1 \in 1..(N + 1) /\ (N + 1) - 1 = N
    BY <1>1
  <2>2. h[N + 1] = LETTERS * h[(N + 1) - 1] + t[N + 1]
    BY <1>3, <2>1
  <2> QED BY <2>1, <2>2
<1> QED BY <1>1, <1>2, <1>3, <1>5, <1>6 DEF t

\* No letters read as nothing.
LEMMA ReadNothing == ReadAlpha(<<>>) = 0
<1>1. 0 \in Nat /\ Len(<<>>) = 0 /\ \A k \in 1..0 : <<>>[k] \in Int
  OBVIOUS
<1>2. \E w \in [0..0 -> Int] :
        w[0] = 0 /\ (\A n \in 1..0 : w[n] = LETTERS * w[n - 1] + <<>>[n]) /\ ReadAlpha(<<>>) = w[0]
  BY <1>1, ReadIs
<1> QED BY <1>2

\* A number reads back from its letters, which count from 1.
LEMMA AlphaReadsBack ==
  ASSUME NEW n \in Nat
  PROVE  /\ render_alpha(n) \in Seq(1..LETTERS)
         /\ ReadAlpha(render_alpha(n)) = n
<1> DEFINE X == Seq(1..LETTERS)
           a == <<>>
           d == [m \in 1..n |-> (m - 1) \div LETTERS]
           c(m) == 1 + ((m - 1) % LETTERS)
           Then(m, x) == Append(x, c(m))
           P(h) == h = [m \in 0..n |-> IF m = 0 THEN a ELSE Then(m, h[(m - 1) \div LETTERS])]
           g == [m \in 1..n |-> [x \in X |-> Then(m, x)]]
<1>1. render_alpha(n) = (CHOOSE h : P(h))[n]
  BY DEF render_alpha
<1>2. ASSUME NEW m \in 1..n
      PROVE  /\ d[m] = (m - 1) \div LETTERS /\ d[m] \in 0..(m - 1)
             /\ c(m) \in 1..LETTERS /\ LETTERS * d[m] + c(m) = m
  <2> DEFINE l == m - 1
  <2>1. l \in Nat /\ LETTERS \in Nat \ {0}
    BY PagesAssumption
  <2> HIDE DEF l
  <2>2. l \div LETTERS \in 0..l /\ l % LETTERS \in 0..(LETTERS - 1) /\ LETTERS * (l \div LETTERS) + (l % LETTERS) = l
    BY <2>1, DivisionIs
  <2> DEFINE q == l \div LETTERS
             r == l % LETTERS
             z == LETTERS * q
  <2>3. q \in 0..l /\ r \in 0..(LETTERS - 1) /\ z + r = l
    BY <2>2
  <2>4. z \in Int
    BY <2>1, <2>3
  <2> HIDE DEF q, r, z
  <2>5. 1 + r \in 1..LETTERS /\ z + (1 + r) = l + 1
    BY <2>1, <2>3, <2>4
  <2>6. l + 1 = m
    BY DEF l
  <2> QED BY <2>3, <2>5, <2>6 DEF q, r, z, l
<1>3. a \in X /\ \A m \in 1..n, x \in X : Then(m, x) \in X
  <2>1. a \in X
    OBVIOUS
  <2>2. ASSUME NEW m \in 1..n, NEW x \in X PROVE Then(m, x) \in X
    <3> DEFINE S == 1..LETTERS
               e == c(m)
    <3>1. e \in S /\ x \in Seq(S)
      BY <1>2
    <3> HIDE DEF S, e
    <3>2. Append(x, e) \in Seq(S)
      BY <3>1
    <3> QED BY <3>2 DEF S, e
  <2> QED BY <2>1, <2>2
<1> HIDE DEF Then
<1>4. g \in [1..n -> [X -> X]]
  BY <1>3
<1>5. PICK f : Descends(f, n, X, a, d, g)
  <2>1. \A m \in 1..n : d[m] \in 0..(m - 1)
    BY <1>2
  <2> HIDE DEF g, d, a, X
  <2> QED BY <1>3, <1>4, <2>1, Descent
<1>6. f \in [0..n -> X] /\ f[0] = a /\ \A m \in 1..n : f[m] = g[m][f[d[m]]]
  BY <1>5 DEF Descends
<1> HIDE DEF X, a
<1>7. P(f)
  <2>1. ASSUME NEW m \in 1..n PROVE f[m] = Then(m, f[(m - 1) \div LETTERS])
    <3>1. d[m] = (m - 1) \div LETTERS /\ d[m] \in 0..n
      <4>1. d[m] = (m - 1) \div LETTERS /\ d[m] \in 0..(m - 1)
        BY <1>2
      <4> HIDE DEF d
      <4>2. \A x \in 0..(m - 1) : x \in 0..n
        OBVIOUS
      <4> QED BY <4>1, <4>2
    <3>2. f[d[m]] \in X /\ f[m] = g[m][f[d[m]]]
      BY <1>6, <3>1
    <3>3. g[m] = [x \in X |-> Then(m, x)]
      OBVIOUS
    <3> HIDE DEF g, d
    <3>4. f[m] = Then(m, f[d[m]])
      BY <3>2, <3>3
    <3> QED BY <3>1, <3>4
  <2>2. \A m \in 0..n : f[m] = IF m = 0 THEN a ELSE Then(m, f[(m - 1) \div LETTERS])
    BY <1>6, <2>1
  <2> HIDE DEF g
  <2>3. f = [m \in 0..n |-> f[m]]
    BY <1>6
  <2> QED BY <2>2, <2>3
<1> DEFINE w == CHOOSE h : P(h)
<1> HIDE DEF P, g
<1>8. P(w)
  BY <1>7
<1> HIDE DEF w
<1>9. w = [m \in 0..n |-> IF m = 0 THEN a ELSE Then(m, w[(m - 1) \div LETTERS])]
  BY <1>8 DEF P
<1>10. w[0] = a /\ \A m \in 1..n : w[m] = Then(m, w[d[m]])
  BY <1>2, <1>9
<1> HIDE DEF d
<1> DEFINE Q == [m \in 0..n |-> w[m] \in X /\ ReadAlpha(w[m]) = m]
<1>11. \A m \in 0..n : Q[m]
  <2>1. ASSUME NEW m \in 0..n, \A k \in 0..(m - 1) : Q[k] PROVE Q[m]
    <3>1. CASE m = 0
      <4>1. w[m] \in X /\ ReadAlpha(w[m]) = 0
        BY <1>3, <1>10, <3>1, ReadNothing DEF a
      <4> QED BY <3>1, <4>1
    <3>2. CASE m # 0
      <4>1. m \in 1..n
        BY <3>2
      <4> DEFINE u == w[d[m]]
      <4>2. d[m] \in 0..(m - 1) /\ d[m] \in 0..n
        BY <1>2, <4>1
      <4>3. u \in X /\ ReadAlpha(u) = d[m]
        BY <2>1, <4>2
      <4>4. w[m] = Append(u, c(m)) /\ w[m] \in X
        <5>1. w[m] = Then(m, u)
          BY <1>10, <4>1
        <5> QED BY <1>3, <4>1, <4>3, <5>1 DEF Then
      <4>5. u \in Seq(Int) /\ c(m) \in Int
        <5>1. c(m) \in 1..LETTERS /\ LETTERS \in Nat
          BY <1>2, <4>1, PagesAssumption
        <5>2. u \in Seq(1..LETTERS)
          BY <4>3 DEF X
        <5> HIDE DEF u, c
        <5> QED BY <5>1, <5>2
      <4> HIDE DEF u, c
      <4>6. ReadAlpha(w[m]) = LETTERS * d[m] + c(m)
        BY <4>3, <4>4, <4>5, ReadMore
      <4>7. ReadAlpha(w[m]) = m
        BY <1>2, <4>1, <4>6 DEF c
      <4> QED BY <4>4, <4>7
    <3> QED BY <3>1, <3>2
  <2> HIDE DEF Q
  <2> QED BY <2>1, HoldsAll
<1>12. w[n] \in X /\ ReadAlpha(w[n]) = n
  <2>1. n \in 0..n
    OBVIOUS
  <2> QED BY <1>11, <2>1
<1> QED BY <1>1, <1>12 DEF w, X

\* The numerals, and what they may be worth.
Numerals == {"i", "v", "x", "l", "c", "d", "m"}
Worths   == {1, 5, 10, 50, 100, 500, 1000}

\* What each numeral is worth.
LEMMA ValueIs ==
  /\ VALUE["i"] = 1 /\ VALUE["v"] = 5 /\ VALUE["x"] = 10 /\ VALUE["l"] = 50
  /\ VALUE["c"] = 100 /\ VALUE["d"] = 500 /\ VALUE["m"] = 1000
  /\ \A c \in Numerals : VALUE[c] \in Worths
<1>1. /\ VALUE["i"] = 1 /\ VALUE["v"] = 5 /\ VALUE["x"] = 10 /\ VALUE["l"] = 50
      /\ VALUE["c"] = 100 /\ VALUE["d"] = 500 /\ VALUE["m"] = 1000
  BY DEF VALUE
<1> QED BY <1>1 DEF Numerals, Worths

\* The table of numerals is tried from its greatest.
LEMMA FittingIs ==
  ASSUME NEW n \in Nat \ {0}
  PROVE  \/ n >= 1000     /\ Fitting(n) = <<1000, <<"m">>>>
         \/ n \in 900..999 /\ Fitting(n) = <<900, <<"c", "m">>>>
         \/ n \in 500..899 /\ Fitting(n) = <<500, <<"d">>>>
         \/ n \in 400..499 /\ Fitting(n) = <<400, <<"c", "d">>>>
         \/ n \in 100..399 /\ Fitting(n) = <<100, <<"c">>>>
         \/ n \in 90..99   /\ Fitting(n) = <<90, <<"x", "c">>>>
         \/ n \in 50..89   /\ Fitting(n) = <<50, <<"l">>>>
         \/ n \in 40..49   /\ Fitting(n) = <<40, <<"x", "l">>>>
         \/ n \in 10..39   /\ Fitting(n) = <<10, <<"x">>>>
         \/ n = 9          /\ Fitting(n) = <<9, <<"i", "x">>>>
         \/ n \in 5..8     /\ Fitting(n) = <<5, <<"v">>>>
         \/ n = 4          /\ Fitting(n) = <<4, <<"i", "v">>>>
         \/ n \in 1..3     /\ Fitting(n) = <<1, <<"i">>>>
<1> DEFINE F(k) == ROMAN[k][1] <= n /\ \A l \in 1..(k - 1) : ROMAN[l][1] > n
           k == CHOOSE x \in 1..Len(ROMAN) : F(x)
<1>1. /\ Len(ROMAN) = 13
      /\ ROMAN[1][1] = 1000 /\ ROMAN[2][1] = 900 /\ ROMAN[3][1] = 500 /\ ROMAN[4][1] = 400
      /\ ROMAN[5][1] = 100 /\ ROMAN[6][1] = 90 /\ ROMAN[7][1] = 50 /\ ROMAN[8][1] = 40
      /\ ROMAN[9][1] = 10 /\ ROMAN[10][1] = 9 /\ ROMAN[11][1] = 5 /\ ROMAN[12][1] = 4
      /\ ROMAN[13][1] = 1
  BY DEF ROMAN
<1>2. /\ ROMAN[1] = <<1000, <<"m">>>> /\ ROMAN[2] = <<900, <<"c", "m">>>>
      /\ ROMAN[3] = <<500, <<"d">>>> /\ ROMAN[4] = <<400, <<"c", "d">>>>
      /\ ROMAN[5] = <<100, <<"c">>>> /\ ROMAN[6] = <<90, <<"x", "c">>>>
      /\ ROMAN[7] = <<50, <<"l">>>> /\ ROMAN[8] = <<40, <<"x", "l">>>>
      /\ ROMAN[9] = <<10, <<"x">>>> /\ ROMAN[10] = <<9, <<"i", "x">>>>
      /\ ROMAN[11] = <<5, <<"v">>>> /\ ROMAN[12] = <<4, <<"i", "v">>>>
      /\ ROMAN[13] = <<1, <<"i">>>>
  BY DEF ROMAN
<1>3. Fitting(n) = ROMAN[k]
  BY DEF Fitting
<1>4. \E x \in 1..Len(ROMAN) : F(x)
  <2> DEFINE Fits == {x \in 1..13 : ROMAN[x][1] <= n}
  <2>1. Fits \in SUBSET Nat /\ 13 \in Fits
    BY <1>1
  <2>2. PICK x \in Fits : \A y \in Fits : x <= y
    <3> HIDE DEF Fits
    <3> QED BY <2>1, HasLeast
  <2>3. \A l \in 1..13 : ROMAN[l][1] \in Nat
    <3>1. \A l \in 1..13 : l \in {1, 2, 3, 4, 5, 6, 7, 8, 9, 10, 11, 12, 13}
      OBVIOUS
    <3> QED BY <1>1, <3>1
  <2>4. ASSUME NEW l \in 1..(x - 1) PROVE ROMAN[l][1] > n
    <3>1. l \in 1..13 /\ ~(x <= l)
      BY <2>2
    <3>2. ~(ROMAN[l][1] <= n)
      BY <2>2, <3>1
    <3> QED BY <2>3, <3>1, <3>2
  <2>5. x \in 1..13 /\ ROMAN[x][1] <= n
    BY <2>2
  <2> QED BY <1>1, <2>4, <2>5
<1>5. k \in 1..13 /\ F(k)
  <2> HIDE DEF F
  <2> QED BY <1>1, <1>4
<1> HIDE DEF k
<1>6. k \in {1, 2, 3, 4, 5, 6, 7, 8, 9, 10, 11, 12, 13}
  BY <1>5
<1>7. CASE k = 1
  BY <1>1, <1>2, <1>3, <1>5, <1>7
<1>8. CASE k = 2
  <2>1. 1 \in 1..(k - 1)
    BY <1>8
  <2> QED BY <1>1, <1>2, <1>3, <1>5, <1>8, <2>1
<1>9. CASE k = 3
  <2>1. 2 \in 1..(k - 1)
    BY <1>9
  <2> QED BY <1>1, <1>2, <1>3, <1>5, <1>9, <2>1
<1>10. CASE k = 4
  <2>1. 3 \in 1..(k - 1)
    BY <1>10
  <2> QED BY <1>1, <1>2, <1>3, <1>5, <1>10, <2>1
<1>11. CASE k = 5
  <2>1. 4 \in 1..(k - 1)
    BY <1>11
  <2> QED BY <1>1, <1>2, <1>3, <1>5, <1>11, <2>1
<1>12. CASE k = 6
  <2>1. 5 \in 1..(k - 1)
    BY <1>12
  <2> QED BY <1>1, <1>2, <1>3, <1>5, <1>12, <2>1
<1>13. CASE k = 7
  <2>1. 6 \in 1..(k - 1)
    BY <1>13
  <2> QED BY <1>1, <1>2, <1>3, <1>5, <1>13, <2>1
<1>14. CASE k = 8
  <2>1. 7 \in 1..(k - 1)
    BY <1>14
  <2> QED BY <1>1, <1>2, <1>3, <1>5, <1>14, <2>1
<1>15. CASE k = 9
  <2>1. 8 \in 1..(k - 1)
    BY <1>15
  <2> QED BY <1>1, <1>2, <1>3, <1>5, <1>15, <2>1
<1>16. CASE k = 10
  <2>1. 9 \in 1..(k - 1)
    BY <1>16
  <2> QED BY <1>1, <1>2, <1>3, <1>5, <1>16, <2>1
<1>17. CASE k = 11
  <2>1. 10 \in 1..(k - 1)
    BY <1>17
  <2> QED BY <1>1, <1>2, <1>3, <1>5, <1>17, <2>1
<1>18. CASE k = 12
  <2>1. 11 \in 1..(k - 1)
    BY <1>18
  <2> QED BY <1>1, <1>2, <1>3, <1>5, <1>18, <2>1
<1>19. CASE k = 13
  <2>1. 12 \in 1..(k - 1)
    BY <1>19
  <2> QED BY <1>1, <1>2, <1>3, <1>5, <1>19, <2>1
<1> QED BY <1>6, <1>7, <1>8, <1>9, <1>10, <1>11, <1>12, <1>13, <1>14, <1>15, <1>16, <1>17, <1>18, <1>19

\* No number below a thousand has more digits than this.
Cap(n) ==
  IF n < 4 THEN n ELSE IF n < 10 THEN 4 ELSE IF n < 20 THEN 5 ELSE IF n < 30 THEN 6
  ELSE IF n < 40 THEN 7 ELSE IF n < 100 THEN 8 ELSE IF n < 200 THEN 9
  ELSE IF n < 300 THEN 10 ELSE IF n < 400 THEN 11 ELSE 12

\* u is one numeral, or a lesser one before a greater, and stands for w; of what w
\* leaves of n, the first numeral is not greater than the last of u.
StandsFor(u, w, n) ==
  /\ w \in 1..n
  /\ \E c \in Numerals, d \in Numerals :
       /\ VALUE[c] <= n
       /\ \A x \in Worths : x <= n - w => x <= VALUE[d]
       /\ \/ u = <<d>> /\ c = d /\ w = VALUE[d]
          \/ u = <<c, d>> /\ VALUE[c] < VALUE[d] /\ w = VALUE[d] - VALUE[c]
  /\ n < 1000 => Cap(n - w) + Len(u) <= Cap(n)
  /\ n >= 1000 => w = 1000 /\ Len(u) = 1

\* A numeral that fits stands for its number.
LEMMA FittingStands ==
  ASSUME NEW n \in Nat \ {0}
  PROVE  StandsFor(Fitting(n)[2], Fitting(n)[1], n)
<1>1. ASSUME NEW u, NEW w, Fitting(n) = <<w, u>>
      PROVE  Fitting(n)[1] = w /\ Fitting(n)[2] = u
  BY <1>1
<1>2. ASSUME NEW d \in Numerals, NEW w \in 1..n, VALUE[d] = w, Fitting(n) = <<w, <<d>>>>,
             \A x \in Worths : x <= n - w => x <= w,
             n < 1000 => Cap(n - w) + 1 <= Cap(n), n >= 1000 => w = 1000
      PROVE  StandsFor(Fitting(n)[2], Fitting(n)[1], n)
  <2>1. Fitting(n)[1] = w /\ Fitting(n)[2] = <<d>> /\ Len(<<d>>) = 1
    BY <1>2
  <2>2. VALUE[d] <= n
    BY <1>2
  <2> QED BY <1>2, <2>1, <2>2 DEF StandsFor
<1>3. ASSUME NEW c \in Numerals, NEW d \in Numerals, NEW w \in 1..n, n < 1000,
             VALUE[c] < VALUE[d], w = VALUE[d] - VALUE[c], VALUE[c] <= n,
             Fitting(n) = <<w, <<c, d>>>>,
             \A x \in Worths : x <= n - w => x <= VALUE[d], Cap(n - w) + 2 <= Cap(n)
      PROVE  StandsFor(Fitting(n)[2], Fitting(n)[1], n)
  <2>1. Fitting(n)[1] = w /\ Fitting(n)[2] = <<c, d>> /\ Len(<<c, d>>) = 2
    BY <1>3
  <2>2. ~(n >= 1000)
    BY <1>3
  <2> QED BY <1>3, <2>1, <2>2 DEF StandsFor
<1>4. CASE n >= 1000 /\ Fitting(n) = <<1000, <<"m">>>>
  <2>1. "m" \in Numerals /\ 1000 \in 1..n /\ VALUE["m"] = 1000 /\ ~(n < 1000)
    BY <1>4, ValueIs DEF Numerals
  <2>2. \A x \in Worths : x <= 1000
    BY DEF Worths
  <2> QED BY <1>2, <1>4, <2>1, <2>2
<1>5. CASE n \in 900..999 /\ Fitting(n) = <<900, <<"c", "m">>>>
  <2>1. /\ "c" \in Numerals /\ "m" \in Numerals /\ 900 \in 1..n /\ n < 1000
        /\ VALUE["c"] < VALUE["m"] /\ 900 = VALUE["m"] - VALUE["c"] /\ VALUE["c"] <= n
    BY <1>5, ValueIs DEF Numerals
  <2>2. (\A x \in Worths : x <= n - 900 => x <= VALUE["m"]) /\ Cap(n - 900) + 2 <= Cap(n)
    BY <1>5, ValueIs DEF Worths, Cap
  <2> QED BY <1>3, <1>5, <2>1, <2>2
<1>6. CASE n \in 500..899 /\ Fitting(n) = <<500, <<"d">>>>
  <2>1. "d" \in Numerals /\ 500 \in 1..n /\ VALUE["d"] = 500 /\ ~(n >= 1000)
    BY <1>6, ValueIs DEF Numerals
  <2>2. (\A x \in Worths : x <= n - 500 => x <= 500) /\ Cap(n - 500) + 1 <= Cap(n)
    BY <1>6 DEF Worths, Cap
  <2> QED BY <1>2, <1>6, <2>1, <2>2
<1>7. CASE n \in 400..499 /\ Fitting(n) = <<400, <<"c", "d">>>>
  <2>1. /\ "c" \in Numerals /\ "d" \in Numerals /\ 400 \in 1..n /\ n < 1000
        /\ VALUE["c"] < VALUE["d"] /\ 400 = VALUE["d"] - VALUE["c"] /\ VALUE["c"] <= n
    BY <1>7, ValueIs DEF Numerals
  <2>2. (\A x \in Worths : x <= n - 400 => x <= VALUE["d"]) /\ Cap(n - 400) + 2 <= Cap(n)
    BY <1>7, ValueIs DEF Worths, Cap
  <2> QED BY <1>3, <1>7, <2>1, <2>2
<1>8. CASE n \in 100..399 /\ Fitting(n) = <<100, <<"c">>>>
  <2>1. "c" \in Numerals /\ 100 \in 1..n /\ VALUE["c"] = 100 /\ ~(n >= 1000)
    BY <1>8, ValueIs DEF Numerals
  <2>2. (\A x \in Worths : x <= n - 100 => x <= 100) /\ Cap(n - 100) + 1 <= Cap(n)
    BY <1>8 DEF Worths, Cap
  <2> QED BY <1>2, <1>8, <2>1, <2>2
<1>9. CASE n \in 90..99 /\ Fitting(n) = <<90, <<"x", "c">>>>
  <2>1. /\ "x" \in Numerals /\ "c" \in Numerals /\ 90 \in 1..n /\ n < 1000
        /\ VALUE["x"] < VALUE["c"] /\ 90 = VALUE["c"] - VALUE["x"] /\ VALUE["x"] <= n
    BY <1>9, ValueIs DEF Numerals
  <2>2. (\A x \in Worths : x <= n - 90 => x <= VALUE["c"]) /\ Cap(n - 90) + 2 <= Cap(n)
    BY <1>9, ValueIs DEF Worths, Cap
  <2> QED BY <1>3, <1>9, <2>1, <2>2
<1>10. CASE n \in 50..89 /\ Fitting(n) = <<50, <<"l">>>>
  <2>1. "l" \in Numerals /\ 50 \in 1..n /\ VALUE["l"] = 50 /\ ~(n >= 1000)
    BY <1>10, ValueIs DEF Numerals
  <2>2. (\A x \in Worths : x <= n - 50 => x <= 50) /\ Cap(n - 50) + 1 <= Cap(n)
    BY <1>10 DEF Worths, Cap
  <2> QED BY <1>2, <1>10, <2>1, <2>2
<1>11. CASE n \in 40..49 /\ Fitting(n) = <<40, <<"x", "l">>>>
  <2>1. /\ "x" \in Numerals /\ "l" \in Numerals /\ 40 \in 1..n /\ n < 1000
        /\ VALUE["x"] < VALUE["l"] /\ 40 = VALUE["l"] - VALUE["x"] /\ VALUE["x"] <= n
    BY <1>11, ValueIs DEF Numerals
  <2>2. (\A x \in Worths : x <= n - 40 => x <= VALUE["l"]) /\ Cap(n - 40) + 2 <= Cap(n)
    BY <1>11, ValueIs DEF Worths, Cap
  <2> QED BY <1>3, <1>11, <2>1, <2>2
<1>12. CASE n \in 10..39 /\ Fitting(n) = <<10, <<"x">>>>
  <2>1. "x" \in Numerals /\ 10 \in 1..n /\ VALUE["x"] = 10 /\ ~(n >= 1000)
    BY <1>12, ValueIs DEF Numerals
  <2>2. (\A x \in Worths : x <= n - 10 => x <= 10) /\ Cap(n - 10) + 1 <= Cap(n)
    BY <1>12 DEF Worths, Cap
  <2> QED BY <1>2, <1>12, <2>1, <2>2
<1>13. CASE n = 9 /\ Fitting(n) = <<9, <<"i", "x">>>>
  <2>1. /\ "i" \in Numerals /\ "x" \in Numerals /\ 9 \in 1..n /\ n < 1000
        /\ VALUE["i"] < VALUE["x"] /\ 9 = VALUE["x"] - VALUE["i"] /\ VALUE["i"] <= n
    BY <1>13, ValueIs DEF Numerals
  <2>2. (\A x \in Worths : x <= n - 9 => x <= VALUE["x"]) /\ Cap(n - 9) + 2 <= Cap(n)
    BY <1>13, ValueIs DEF Worths, Cap
  <2> QED BY <1>3, <1>13, <2>1, <2>2
<1>14. CASE n \in 5..8 /\ Fitting(n) = <<5, <<"v">>>>
  <2>1. "v" \in Numerals /\ 5 \in 1..n /\ VALUE["v"] = 5 /\ ~(n >= 1000)
    BY <1>14, ValueIs DEF Numerals
  <2>2. (\A x \in Worths : x <= n - 5 => x <= 5) /\ Cap(n - 5) + 1 <= Cap(n)
    BY <1>14 DEF Worths, Cap
  <2> QED BY <1>2, <1>14, <2>1, <2>2
<1>15. CASE n = 4 /\ Fitting(n) = <<4, <<"i", "v">>>>
  <2>1. /\ "i" \in Numerals /\ "v" \in Numerals /\ 4 \in 1..n /\ n < 1000
        /\ VALUE["i"] < VALUE["v"] /\ 4 = VALUE["v"] - VALUE["i"] /\ VALUE["i"] <= n
    BY <1>15, ValueIs DEF Numerals
  <2>2. (\A x \in Worths : x <= n - 4 => x <= VALUE["v"]) /\ Cap(n - 4) + 2 <= Cap(n)
    BY <1>15, ValueIs DEF Worths, Cap
  <2> QED BY <1>3, <1>15, <2>1, <2>2
<1>16. CASE n \in 1..3 /\ Fitting(n) = <<1, <<"i">>>>
  <2>1. "i" \in Numerals /\ 1 \in 1..n /\ VALUE["i"] = 1 /\ ~(n >= 1000)
    BY <1>16, ValueIs DEF Numerals
  <2>2. (\A x \in Worths : x <= n - 1 => x <= 1) /\ Cap(n - 1) + 1 <= Cap(n)
    BY <1>16 DEF Worths, Cap
  <2> QED BY <1>2, <1>16, <2>1, <2>2
<1> QED BY <1>4, <1>5, <1>6, <1>7, <1>8, <1>9, <1>10, <1>11, <1>12, <1>13, <1>14, <1>15, <1>16, FittingIs

\* A sum with one more in front.
LEMMA SumFront ==
  ASSUME NEW N \in Nat, NEW s, NEW t, Len(s) = N, Len(t) = N + 1, t[1] \in Int,
         \A k \in 1..N : s[k] \in Int /\ t[k + 1] = s[k]
  PROVE  Sum(t) = t[1] + Sum(s) /\ Sum(s) \in Int
<1>1. PICK f \in [0..N -> Int] : f[0] = 0 /\ (\A n \in 1..N : f[n] = f[n - 1] + s[n]) /\ Sum(s) = f[N]
  BY SumIs
<1>2. PICK h \in [0..(N + 1) -> Int] :
        h[0] = 0 /\ (\A n \in 1..(N + 1) : h[n] = h[n - 1] + t[n]) /\ Sum(t) = h[N + 1]
  <2> DEFINE M == N + 1
  <2>1. \A k \in 1..M : t[k] \in Int
    <3>1. ASSUME NEW k \in 1..M, k # 1 PROVE t[k] \in Int
      <4> DEFINE l == k - 1
      <4>1. l \in 1..N /\ l + 1 = k
        BY <3>1
      <4> HIDE DEF l
      <4>2. t[l + 1] = s[l] /\ s[l] \in Int
        BY <4>1
      <4> QED BY <4>1, <4>2
    <3> QED BY <3>1
  <2>2. M \in Nat /\ Len(t) = M
    OBVIOUS
  <2> HIDE DEF M
  <2>3. \E h \in [0..M -> Int] : h[0] = 0 /\ (\A n \in 1..M : h[n] = h[n - 1] + t[n]) /\ Sum(t) = h[M]
    BY <2>1, <2>2, SumIs
  <2> QED BY <2>3 DEF M
<1> DEFINE P == [n \in 0..N |-> h[n + 1] = t[1] + f[n]]
<1>3. \A n \in 0..N : P[n]
  <2>1. P[0]
    <3>1. 1 \in 1..(N + 1) /\ 1 - 1 = 0 /\ 0 + 1 = 1 /\ 0 \in 0..N
      OBVIOUS
    <3>2. h[1] = h[1 - 1] + t[1]
      BY <1>2, <3>1
    <3>3. h[0 + 1] = t[1] + f[0]
      BY <1>1, <1>2, <3>1, <3>2
    <3> QED BY <3>1, <3>3
  <2>2. ASSUME NEW n \in 1..N, P[n - 1] PROVE P[n]
    <3>1. n - 1 \in 0..N /\ n \in 0..N /\ n + 1 \in 1..(N + 1) /\ (n + 1) - 1 = n /\ (n - 1) + 1 = n
      OBVIOUS
    <3>2. h[n] = t[1] + f[n - 1]
      BY <2>2, <3>1
    <3>3. f[n] = f[n - 1] + s[n] /\ t[n + 1] = s[n] /\ s[n] \in Int /\ f[n - 1] \in Int
      BY <1>1, <3>1
    <3>4. h[n + 1] = h[n] + t[n + 1]
      <4>1. h[n + 1] = h[(n + 1) - 1] + t[n + 1]
        BY <1>2, <3>1
      <4> QED BY <3>1, <4>1
    <3>5. h[n + 1] = t[1] + f[n]
      BY <3>2, <3>3, <3>4
    <3> QED BY <3>1, <3>5
  <2> HIDE DEF P
  <2> QED BY <2>1, <2>2, HoldsAt
<1>4. h[N + 1] = t[1] + f[N] /\ f[N] \in Int
  <2>1. N \in 0..N
    OBVIOUS
  <2> QED BY <1>3, <2>1
<1> QED BY <1>1, <1>2, <1>4

\* What a digit counts for: it is taken off before a greater one.
Counts(digits, k) ==
  IF k < Len(digits) /\ VALUE[digits[k]] < VALUE[digits[k + 1]]
  THEN -VALUE[digits[k]] ELSE VALUE[digits[k]]

\* One more digit in front changes nothing for the digits after it.
LEMMA ReadFront ==
  ASSUME NEW v \in Seq(Numerals), NEW t \in Seq(Numerals), Len(t) = Len(v) + 1,
         \A k \in 1..Len(v) : t[k + 1] = v[k]
  PROVE  ReadRoman(t) = Counts(t, 1) + ReadRoman(v) /\ ReadRoman(v) \in Int
<1> DEFINE N == Len(v)
           S(d) == [k \in 1..Len(d) |-> Counts(d, k)]
<1>1. N \in Nat /\ Len(S(v)) = N /\ Len(S(t)) = N + 1
  OBVIOUS
<1>2. ReadRoman(v) = Sum(S(v)) /\ ReadRoman(t) = Sum(S(t))
  BY DEF ReadRoman, Counts
<1>3. ASSUME NEW d \in Seq(Numerals), NEW k \in 1..Len(d) PROVE Counts(d, k) \in Int
  <2>1. d[k] \in Numerals
    OBVIOUS
  <2>2. VALUE[d[k]] \in Int
    BY <2>1, ValueIs DEF Worths
  <2> QED BY <2>2 DEF Counts
<1>4. S(t)[1] \in Int /\ S(t)[1] = Counts(t, 1)
  <2>1. 1 \in 1..Len(t)
    BY <1>1
  <2> QED BY <1>3, <2>1
<1>5. ASSUME NEW k \in 1..N PROVE S(v)[k] \in Int /\ S(t)[k + 1] = S(v)[k]
  <2>1. k + 1 \in 1..Len(t) /\ k \in 1..Len(v)
    BY <1>1
  <2>2. S(v)[k] = Counts(v, k) /\ S(t)[k + 1] = Counts(t, k + 1)
    BY <2>1
  <2>3. t[k + 1] = v[k]
    BY <2>1
  <2>4. Counts(t, k + 1) = Counts(v, k)
    <3>1. CASE k < Len(v)
      <4>1. k + 1 \in 1..Len(v) /\ k + 1 < Len(t)
        BY <1>1, <3>1
      <4>2. t[(k + 1) + 1] = v[k + 1]
        BY <4>1
      <4> QED BY <2>3, <3>1, <4>1, <4>2 DEF Counts
    <3>2. CASE ~(k < Len(v))
      <4>1. ~(k + 1 < Len(t))
        BY <1>1, <3>2
      <4> QED BY <2>3, <3>2, <4>1 DEF Counts
    <3> QED BY <3>1, <3>2
  <2> QED BY <1>3, <2>1, <2>2, <2>4
<1> HIDE DEF S, N
<1> QED BY <1>1, <1>2, <1>4, <1>5, SumFront

\* No digits read as nothing.
LEMMA RomanNothing == ReadRoman(<<>>) = 0
<1> DEFINE s == [k \in 1..Len(<<>>) |-> Counts(<<>>, k)]
<1>1. ReadRoman(<<>>) = Sum(s)
  BY DEF ReadRoman, Counts
<1>2. 0 \in Nat /\ Len(s) = 0 /\ \A k \in 1..0 : s[k] \in Int
  OBVIOUS
<1> HIDE DEF s
<1>3. \E w \in [0..0 -> Int] : w[0] = 0 /\ (\A n \in 1..0 : w[n] = w[n - 1] + s[n]) /\ Sum(s) = w[0]
  BY <1>2, SumIs
<1> QED BY <1>1, <1>3

\* The digits v read back as n, begin with a numeral that fits in n, and are few.
Rendered(v, n) ==
  /\ v \in Seq(Numerals) /\ ReadRoman(v) = n
  /\ Len(v) > 0 => VALUE[v[1]] <= n
  /\ n < 1000 => Len(v) <= Cap(n)
  /\ 1000 * (Len(v) - 12) <= n

\* A numeral before what is left keeps both.
LEMMA NumeralThen ==
  ASSUME NEW n \in Nat \ {0}, NEW u, NEW w, StandsFor(u, w, n), NEW v, Rendered(v, n - w)
  PROVE  Rendered(u \o v, n)
<1>1. w \in 1..n /\ n - w \in Nat
  BY DEF StandsFor
<1>2. PICK c \in Numerals, d \in Numerals :
        /\ VALUE[c] <= n
        /\ \A x \in Worths : x <= n - w => x <= VALUE[d]
        /\ \/ u = <<d>> /\ c = d /\ w = VALUE[d]
           \/ u = <<c, d>> /\ VALUE[c] < VALUE[d] /\ w = VALUE[d] - VALUE[c]
  BY DEF StandsFor
<1>3. /\ v \in Seq(Numerals) /\ ReadRoman(v) = n - w
      /\ Len(v) > 0 => VALUE[v[1]] <= n - w
      /\ n - w < 1000 => Len(v) <= Cap(n - w)
      /\ 1000 * (Len(v) - 12) <= n - w
  BY DEF Rendered
<1>4. VALUE[c] \in Nat /\ VALUE[d] \in Nat /\ Len(v) \in Nat
  <2>1. VALUE[c] \in Worths /\ VALUE[d] \in Worths
    BY ValueIs
  <2> QED BY <1>3, <2>1 DEF Worths
<1> DEFINE t == <<d>> \o v
<1>5. /\ t \in Seq(Numerals) /\ Len(t) = Len(v) + 1 /\ t[1] = d
      /\ \A k \in 1..Len(v) : t[k + 1] = v[k]
  BY <1>3
<1> HIDE DEF t
<1>6. ReadRoman(t) = VALUE[d] + (n - w)
  <2>1. ReadRoman(t) = Counts(t, 1) + (n - w)
    BY <1>3, <1>5, ReadFront
  <2>2. Counts(t, 1) = VALUE[d]
    <3>1. CASE Len(v) > 0
      <4>1. 1 \in 1..Len(v) /\ 1 + 1 = 2
        BY <1>4, <3>1
      <4>2. t[2] = v[1] /\ v[1] \in Numerals
        BY <1>3, <1>5, <4>1
      <4>3. VALUE[v[1]] \in Worths /\ VALUE[v[1]] <= n - w
        BY <1>3, <3>1, <4>2, ValueIs
      <4>4. VALUE[v[1]] <= VALUE[d]
        BY <1>2, <4>3
      <4>5. ~(VALUE[d] < VALUE[t[2]])
        <5>1. VALUE[v[1]] \in Nat
          BY <4>3 DEF Worths
        <5> QED BY <1>4, <4>2, <4>4, <5>1
      <4> QED BY <1>5, <4>1, <4>5 DEF Counts
    <3>2. CASE ~(Len(v) > 0)
      <4>1. ~(1 < Len(t))
        BY <1>4, <1>5, <3>2
      <4> QED BY <1>5, <4>1 DEF Counts
    <3> QED BY <3>1, <3>2
  <2> QED BY <2>1, <2>2
<1>7. /\ n < 1000 => Len(v) + Len(u) <= Cap(n)
      /\ 1000 * ((Len(v) + Len(u)) - 12) <= n
  <2>1. Len(u) \in Nat
    BY <1>2
  <2>2. n < 1000 => Cap(n - w) + Len(u) <= Cap(n)
    BY DEF StandsFor
  <2>3. n >= 1000 => w = 1000 /\ Len(u) = 1
    BY DEF StandsFor
  <2> DEFINE a == Len(v)
             b == Len(u)
  <2>4. Cap(n) \in Nat /\ Cap(n - w) \in Nat /\ (n < 1000 => Cap(n) <= 12)
    BY <1>1 DEF Cap
  <2>5. a \in Nat /\ b \in Nat /\ (n - w < 1000 => a <= Cap(n - w)) /\ 1000 * (a - 12) <= n - w
    BY <1>3, <1>4, <2>1
  <2>6. n < 1000 => Cap(n - w) + b <= Cap(n)
    BY <2>2
  <2>7. n >= 1000 => w = 1000 /\ b = 1
    BY <2>3
  <2> HIDE DEF a, b
  <2>8. n < 1000 => a + b <= Cap(n)
    BY <1>1, <2>4, <2>5, <2>6
  <2>9. 1000 * ((a + b) - 12) <= n
    BY <1>1, <2>4, <2>5, <2>7, <2>8
  <2> QED BY <2>8, <2>9 DEF a, b
<1>8. CASE u = <<d>> /\ c = d /\ w = VALUE[d]
  <2>1. u \o v = t /\ Len(u) = 1
    BY <1>8 DEF t
  <2>2. ReadRoman(t) = n
    BY <1>1, <1>4, <1>6, <1>8
  <2>3. VALUE[t[1]] <= n
    BY <1>2, <1>5, <1>8
  <2>4. (n < 1000 => Len(t) <= Cap(n)) /\ 1000 * (Len(t) - 12) <= n
    BY <1>5, <1>7, <2>1
  <2> QED BY <1>5, <2>1, <2>2, <2>3, <2>4 DEF Rendered
<1>9. CASE u = <<c, d>> /\ VALUE[c] < VALUE[d] /\ w = VALUE[d] - VALUE[c]
  <2> DEFINE z == <<c, d>> \o v
  <2>1. z \in Seq(Numerals) /\ Len(z) = Len(v) + 2 /\ z[1] = c /\ z[2] = d
    BY <1>3
  <2>2. \A k \in 1..Len(v) : z[k + 2] = v[k]
    BY <1>3
  <2>3. u \o v = z /\ Len(u) = 2
    BY <1>9
  <2> HIDE DEF z
  <2>4. Len(z) = Len(t) + 1
    BY <1>4, <1>5, <2>1
  <2>5. ASSUME NEW k \in 1..Len(t) PROVE z[k + 1] = t[k]
    <3>1. CASE k = 1
      BY <1>5, <2>1, <3>1
    <3>2. CASE k # 1
      <4> DEFINE l == k - 1
      <4>1. l \in 1..Len(v) /\ l + 1 = k /\ l + 2 = k + 1
        BY <1>4, <1>5, <3>2
      <4> HIDE DEF l
      <4>2. z[l + 2] = v[l] /\ t[l + 1] = v[l]
        BY <1>5, <2>2, <4>1
      <4> QED BY <4>1, <4>2
    <3> QED BY <3>1, <3>2
  <2>6. ReadRoman(z) = Counts(z, 1) + ReadRoman(t)
    BY <1>5, <2>1, <2>4, <2>5, ReadFront
  <2>7. Counts(z, 1) = -VALUE[c]
    <3>1. 1 < Len(z) /\ 1 + 1 = 2
      BY <1>4, <2>1
    <3> QED BY <1>9, <2>1, <3>1 DEF Counts
  <2>8. ReadRoman(z) = n
    BY <1>1, <1>4, <1>6, <1>9, <2>6, <2>7
  <2>9. (n < 1000 => Len(z) <= Cap(n)) /\ 1000 * (Len(z) - 12) <= n
    BY <1>7, <2>1, <2>3
  <2> QED BY <1>2, <2>1, <2>3, <2>8, <2>9 DEF Rendered
<1> QED BY <1>2, <1>8, <1>9

\* A Roman number reads back from its digits, of which there are few.
LEMMA RomanReadsBack == ASSUME NEW n \in Nat PROVE Rendered(roman_digits(n), n)
<1> DEFINE X == Seq(Numerals)
           a == <<>>
           d == [m \in 1..n |-> m - Fitting(m)[1]]
           Then(m, x) == Fitting(m)[2] \o x
           P(h) == h = [m \in 0..n |-> IF m = 0 THEN a ELSE Then(m, h[m - Fitting(m)[1]])]
           g == [m \in 1..n |-> [x \in X |-> Then(m, x)]]
<1>1. roman_digits(n) = (CHOOSE h : P(h))[n]
  BY DEF roman_digits
<1>2. ASSUME NEW m \in 1..n
      PROVE  /\ StandsFor(Fitting(m)[2], Fitting(m)[1], m)
             /\ d[m] = m - Fitting(m)[1] /\ d[m] \in 0..(m - 1)
  <2>1. m \in Nat \ {0}
    OBVIOUS
  <2>2. StandsFor(Fitting(m)[2], Fitting(m)[1], m)
    BY <2>1, FittingStands
  <2> DEFINE w == Fitting(m)[1]
  <2>3. w \in 1..m
    BY <2>2 DEF StandsFor
  <2> HIDE DEF w
  <2>4. m - w \in 0..(m - 1)
    BY <2>3
  <2> QED BY <2>2, <2>4 DEF w
<1>3. ASSUME NEW m \in 1..n, NEW x \in X PROVE Then(m, x) \in X
  <2> DEFINE u == Fitting(m)[2]
  <2>1. u \in Seq(Numerals)
    <3>1. StandsFor(u, Fitting(m)[1], m)
      BY <1>2
    <3> HIDE DEF u
    <3>2. PICK c \in Numerals, e \in Numerals : u = <<e>> \/ u = <<c, e>>
      BY <3>1 DEF StandsFor
    <3> DEFINE S == Numerals
    <3>3. c \in S /\ e \in S
      OBVIOUS
    <3> HIDE DEF S
    <3>4. <<e>> \in Seq(S) /\ <<c, e>> \in Seq(S)
      BY <3>3
    <3> QED BY <3>2, <3>4 DEF S
  <2> HIDE DEF u
  <2>2. u \o x \in Seq(Numerals)
    BY <2>1
  <2> QED BY <2>2 DEF u
<1>4. a \in X
  OBVIOUS
<1> HIDE DEF Then
<1>5. g \in [1..n -> [X -> X]]
  BY <1>3
<1>6. PICK f : Descends(f, n, X, a, d, g)
  <2>1. \A m \in 1..n : d[m] \in 0..(m - 1)
    BY <1>2
  <2> HIDE DEF g, d, a, X
  <2> QED BY <1>4, <1>5, <2>1, Descent
<1>7. f \in [0..n -> X] /\ f[0] = a /\ \A m \in 1..n : f[m] = g[m][f[d[m]]]
  BY <1>6 DEF Descends
<1> HIDE DEF X, a
<1>8. ASSUME NEW m \in 1..n PROVE d[m] \in 0..n
  <2>1. d[m] \in 0..(m - 1)
    BY <1>2
  <2> HIDE DEF d
  <2>2. \A x \in 0..(m - 1) : x \in 0..n
    OBVIOUS
  <2> QED BY <2>1, <2>2
<1>9. P(f)
  <2>1. ASSUME NEW m \in 1..n PROVE f[m] = Then(m, f[m - Fitting(m)[1]])
    <3>1. d[m] = m - Fitting(m)[1] /\ d[m] \in 0..n
      BY <1>2, <1>8
    <3>2. f[d[m]] \in X /\ f[m] = g[m][f[d[m]]]
      BY <1>7, <3>1
    <3>3. g[m] = [x \in X |-> Then(m, x)]
      OBVIOUS
    <3> HIDE DEF g, d
    <3>4. f[m] = Then(m, f[d[m]])
      BY <3>2, <3>3
    <3> QED BY <3>1, <3>4
  <2>2. \A m \in 0..n : f[m] = IF m = 0 THEN a ELSE Then(m, f[m - Fitting(m)[1]])
    BY <1>7, <2>1
  <2> HIDE DEF g
  <2>3. f = [m \in 0..n |-> f[m]]
    BY <1>7
  <2> QED BY <2>2, <2>3
<1> DEFINE w == CHOOSE h : P(h)
<1> HIDE DEF P, g
<1>10. P(w)
  BY <1>9
<1> HIDE DEF w
<1>11. w = [m \in 0..n |-> IF m = 0 THEN a ELSE Then(m, w[m - Fitting(m)[1]])]
  BY <1>10 DEF P
<1>12. w[0] = a /\ \A m \in 1..n : w[m] = Then(m, w[d[m]])
  BY <1>2, <1>11
<1> HIDE DEF d
<1> DEFINE Q == [m \in 0..n |-> Rendered(w[m], m)]
<1>13. \A m \in 0..n : Q[m]
  <2>1. ASSUME NEW m \in 0..n, \A k \in 0..(m - 1) : Q[k] PROVE Q[m]
    <3>1. CASE m = 0
      <4>1. w[m] = <<>>
        BY <1>12, <3>1 DEF a
      <4>2. Rendered(<<>>, 0)
        <5>1. <<>> \in Seq(Numerals) /\ Len(<<>>) = 0 /\ Cap(0) = 0 /\ 1000 * (0 - 12) <= 0
          BY DEF Cap
        <5>2. ~(0 > 0) /\ 0 <= 0
          OBVIOUS
        <5> QED BY <5>1, <5>2, RomanNothing DEF Rendered
      <4> QED BY <3>1, <4>1, <4>2
    <3>2. CASE m # 0
      <4>1. m \in 1..n /\ m \in Nat \ {0}
        BY <3>2
      <4>2. d[m] \in 0..(m - 1) /\ d[m] \in 0..n /\ d[m] = m - Fitting(m)[1]
        BY <1>2, <1>8, <4>1
      <4>3. Rendered(w[d[m]], d[m])
        BY <2>1, <4>2
      <4>4. StandsFor(Fitting(m)[2], Fitting(m)[1], m)
        BY <1>2, <4>1
      <4>5. Rendered(Fitting(m)[2] \o w[d[m]], m)
        BY <4>1, <4>2, <4>3, <4>4, NumeralThen
      <4>6. w[m] = Fitting(m)[2] \o w[d[m]]
        BY <1>12, <4>1 DEF Then
      <4> QED BY <4>5, <4>6
    <3> QED BY <3>1, <3>2
  <2> HIDE DEF Q
  <2> QED BY <2>1, HoldsAll
<1>14. Rendered(w[n], n)
  <2>1. n \in 0..n
    OBVIOUS
  <2> QED BY <1>13, <2>1
<1> QED BY <1>1, <1>14 DEF w

\* A label is either too long by its thousands or within its limit.
LEMMA RomanFits ==
  ASSUME NEW n \in Nat
  PROVE  /\ RomanIsBounded(n) => n >= 1000 * (MAX_LABEL_CHARS - ROMAN_TAIL_MAX)
         /\ ~RomanIsBounded(n) => Len(roman_digits(n)) <= MAX_LABEL_CHARS
<1> DEFINE len == Len(roman_digits(n))
           q == n \div 1000
           room == MAX_LABEL_CHARS - ROMAN_TAIL_MAX
<1>1. room \in Nat /\ 12 + room <= MAX_LABEL_CHARS /\ MAX_LABEL_CHARS \in Nat
  BY PagesAssumption
<1>2. q \in Nat /\ 1000 * q <= n /\ n < 1000 * (q + 1)
  OBVIOUS
<1>3. len \in Nat /\ 1000 * (len - 12) <= n
  <2>1. Rendered(roman_digits(n), n)
    BY RomanReadsBack
  <2>2. roman_digits(n) \in Seq(Numerals) /\ 1000 * (Len(roman_digits(n)) - 12) <= n
    BY <2>1 DEF Rendered
  <2> QED BY <2>2
<1>4. RomanIsBounded(n) <=> q > room
  BY DEF RomanIsBounded
<1> HIDE DEF len, q, room
<1>5. q > room => n >= 1000 * room
  BY <1>1, <1>2
<1>6. ~(q > room) => len <= MAX_LABEL_CHARS
  BY <1>1, <1>2, <1>3
<1> QED BY <1>4, <1>5, <1>6 DEF len, room

\* Some of the first N numbers have a last one.
LEMMA HasGreatest ==
  ASSUME NEW N \in Nat, NEW S \in SUBSET (1..N), S # {}
  PROVE  \E x \in S : \A y \in S : y <= x
<1> DEFINE T == {N - y : y \in S}
<1>1. T \in SUBSET Nat /\ T # {}
  <2>1. \A y \in S : y \in 1..N
    OBVIOUS
  <2>2. \A y \in 1..N : N - y \in Nat
    OBVIOUS
  <2>3. PICK y : y \in S
    OBVIOUS
  <2>4. N - y \in T
    BY <2>3
  <2> QED BY <2>1, <2>2, <2>4
<1>2. PICK t \in T : \A s \in T : t <= s
  <2> HIDE DEF T
  <2> QED BY <1>1, HasLeast
<1>3. PICK x \in S : t = N - x
  OBVIOUS
<1>4. ASSUME NEW y \in S PROVE y <= x
  <2>1. N - y \in T
    OBVIOUS
  <2>2. N - x <= N - y /\ x \in 1..N /\ y \in 1..N
    BY <1>2, <1>3, <2>1
  <2> QED BY <2>2
<1> QED BY <1>4

\* The ranges of a document are sorted.
LEMMA RangesSorted ==
  ASSUME NEW ranges, AreRanges(ranges), NEW k \in 1..Len(ranges), NEW l \in 1..Len(ranges), k <= l
  PROVE  ranges[k].start_page <= ranges[l].start_page
<1> DEFINE N == Len(ranges)
           P == [n \in 0..N |-> n >= k => ranges[k].start_page <= ranges[n].start_page]
<1>1. N \in Nat /\ \A n \in 1..N : ranges[n].start_page \in Nat
  BY DEF AreRanges
<1>2. \A n \in 2..N : ranges[n - 1].start_page <= ranges[n].start_page
  <2>1. ASSUME NEW n \in 2..N PROVE n \in 1..N /\ n > 1
    OBVIOUS
  <2> QED BY <2>1 DEF AreRanges
<1>3. k \in 1..N /\ l \in 1..N
  OBVIOUS
<1> HIDE DEF N
<1>4. \A n \in 0..N : P[n]
  <2>1. P[0]
    <3>1. 0 \in 0..N /\ ~(0 >= k)
      BY <1>1, <1>3
    <3> QED BY <3>1
  <2>2. ASSUME NEW n \in 1..N, P[n - 1] PROVE P[n]
    <3>1. n - 1 \in 0..N /\ n \in 0..N
      BY <1>1
    <3>2. n - 1 >= k => ranges[k].start_page <= ranges[n - 1].start_page
      BY <2>2, <3>1
    <3>3. CASE n - 1 >= k
      <4>1. n \in 2..N /\ n - 1 \in 1..N
        BY <1>1, <1>3, <3>3
      <4>2. ranges[n - 1].start_page <= ranges[n].start_page
        BY <1>2, <4>1
      <4>3. /\ ranges[k].start_page \in Nat /\ ranges[n - 1].start_page \in Nat
            /\ ranges[n].start_page \in Nat
        BY <1>1, <1>3, <4>1
      <4>4. ranges[k].start_page <= ranges[n].start_page
        BY <3>2, <3>3, <4>2, <4>3
      <4> QED BY <3>1, <4>4
    <3>4. CASE n = k
      <4>1. ranges[k].start_page <= ranges[n].start_page
        <5>1. ranges[k].start_page \in Nat
          BY <1>1, <1>3
        <5> QED BY <3>4, <5>1
      <4> QED BY <3>1, <4>1
    <3>5. CASE n < k
      <4>1. ~(n >= k)
        BY <1>3, <3>5
      <4> QED BY <3>1, <4>1
    <3> QED BY <1>3, <3>3, <3>4, <3>5
  <2> HIDE DEF P
  <2> QED BY <1>1, <2>1, <2>2, HoldsAt
<1>5. l \in 0..N /\ l >= k
  BY <1>1, <1>3
<1> QED BY <1>4, <1>5

\* The ranges that begin at page n or before it, those that begin there, and the last of
\* some ranges.
Covering(ranges, n) == {k \in 1..Len(ranges) : ranges[k].start_page <= n}
Beginning(ranges, n) == {k \in 1..Len(ranges) : ranges[k].start_page = n}
Final(S) == CHOOSE k \in S : \A l \in S : l <= k

\* What the last range that covers a page says of its number.
Told(ranges, n) ==
  LET range == ranges[Final(Covering(ranges, n))]
  IN  IF Covering(ranges, n) = {} THEN [style |-> "uncovered", prefix |-> "", number |-> n]
      ELSE [style |-> range.style, prefix |-> range.prefix,
            number |-> range.start_value + (n - range.start_page)]

\* The last of some ranges is one of them, and there is one last.
LEMMA FinalIs ==
  ASSUME NEW N \in Nat, NEW S \in SUBSET (1..N), S # {}
  PROVE  /\ Final(S) \in S /\ \A l \in S : l <= Final(S)
         /\ \A x \in S : (\A l \in S : l <= x) => x = Final(S)
<1>1. \E x \in S : \A y \in S : y <= x
  BY HasGreatest
<1>2. Final(S) \in S /\ \A l \in S : l <= Final(S)
  BY <1>1 DEF Final
<1>3. ASSUME NEW x \in S, \A l \in S : l <= x PROVE x = Final(S)
  <2>1. x <= Final(S) /\ Final(S) <= x
    BY <1>2, <1>3
  <2>2. x \in 1..N /\ Final(S) \in 1..N
    <3> DEFINE y == Final(S)
    <3>1. x \in S /\ y \in S
      BY <1>2
    <3> HIDE DEF y
    <3>2. \A z \in S : z \in 1..N
      OBVIOUS
    <3>3. x \in 1..N /\ y \in 1..N
      BY <3>1, <3>2, Zenon
    <3> QED BY <3>3 DEF y
  <2> QED BY <2>1, <2>2
<1> QED BY <1>2, <1>3

\* Before any page no range counts on.
LEMMA ToldFirst ==
  ASSUME NEW ranges, AreRanges(ranges), Beginning(ranges, 0) = {}
  PROVE  Told(ranges, 0) = [style |-> "uncovered", prefix |-> "", number |-> 0]
<1>1. Covering(ranges, 0) = {}
  <2>1. ASSUME NEW k \in Covering(ranges, 0) PROVE FALSE
    <3>1. k \in 1..Len(ranges) /\ ranges[k].start_page <= 0
      BY <2>1 DEF Covering
    <3>2. ranges[k].start_page \in Nat
      BY <3>1 DEF AreRanges
    <3>3. ranges[k].start_page = 0
      BY <3>1, <3>2
    <3> QED BY <3>1, <3>3 DEF Beginning
  <2> QED BY <2>1
<1> QED BY <1>1 DEF Told

\* A range that begins at a page is the last that covers it, if it is the last to begin
\* there.
LEMMA ToldHere ==
  ASSUME NEW ranges, AreRanges(ranges), NEW n \in Nat, Beginning(ranges, n) # {}
  PROVE  LET range == ranges[Final(Beginning(ranges, n))]
         IN  Told(ranges, n) = [style |-> range.style, prefix |-> range.prefix, number |-> range.start_value]
<1> DEFINE N == Len(ranges)
           C == Covering(ranges, n)
           B == Beginning(ranges, n)
           x == Final(B)
<1>1. N \in Nat /\ C \in SUBSET (1..N) /\ B \in SUBSET (1..N)
  BY DEF AreRanges, Covering, Beginning
<1>2. x \in B /\ \A l \in B : l <= x
  <2> HIDE DEF N, B
  <2>1. B # {}
    BY DEF B
  <2> QED BY <1>1, <2>1, FinalIs
<1>3. x \in 1..N /\ ranges[x].start_page = n /\ x \in C
  <2>1. x \in 1..N /\ ranges[x].start_page = n
    BY <1>2 DEF Beginning
  <2> HIDE DEF x
  <2> QED BY <2>1 DEF Covering
<1>4. ASSUME NEW l \in C PROVE l <= x
  <2>1. SUFFICES ASSUME ~(l <= x) PROVE FALSE
    OBVIOUS
  <2>2. l \in 1..N /\ ranges[l].start_page <= n /\ ranges[l].start_page \in Nat
    BY DEF Covering, AreRanges
  <2>3. x <= l
    <3> HIDE DEF x
    <3> QED BY <1>3, <2>1, <2>2
  <2>4. ranges[x].start_page <= ranges[l].start_page
    <3> HIDE DEF x
    <3> QED BY <1>3, <2>2, <2>3, RangesSorted
  <2>5. ranges[l].start_page = n
    <3> HIDE DEF x
    <3> QED BY <1>3, <2>2, <2>4
  <2>6. l \in B
    BY <2>2, <2>5 DEF Beginning
  <2> QED BY <1>2, <2>1, <2>6
<1>5. x = Final(C) /\ C # {}
  <2> HIDE DEF C, x, N
  <2>1. C # {}
    BY <1>3
  <2> QED BY <1>1, <1>3, <1>4, <2>1, FinalIs
<1> HIDE DEF x, N
<1>6. ranges[x].start_value + (n - ranges[x].start_page) = ranges[x].start_value
  <2>1. ranges[x].start_value \in Nat
    BY <1>3 DEF AreRanges, N
  <2> QED BY <1>3, <2>1
<1>7. Told(ranges, n) = [style |-> ranges[x].style, prefix |-> ranges[x].prefix,
                         number |-> ranges[x].start_value + (n - ranges[x].start_page)]
  BY <1>5 DEF Told, C
<1>8. x = Final(Beginning(ranges, n))
  BY DEF x
<1> QED BY <1>6, <1>7, <1>8

\* Counting on changes the number only.
LEMMA CountedOn ==
  ASSUME NEW s, NEW p, NEW z, NEW r, r = [style |-> s, prefix |-> p, number |-> z]
  PROVE  [r EXCEPT !.number = @ + 1] = [style |-> s, prefix |-> p, number |-> z + 1]
OBVIOUS

\* Where no range begins the page before counts on.
LEMMA ToldOn ==
  ASSUME NEW ranges, AreRanges(ranges), NEW n \in Nat \ {0}, Beginning(ranges, n) = {}
  PROVE  Told(ranges, n) = [Told(ranges, n - 1) EXCEPT !.number = @ + 1]
<1>1. Covering(ranges, n) = Covering(ranges, n - 1)
  <2>1. ASSUME NEW k \in 1..Len(ranges)
        PROVE  ranges[k].start_page <= n <=> ranges[k].start_page <= n - 1
    <3>1. ranges[k].start_page \in Nat
      BY DEF AreRanges
    <3>2. ranges[k].start_page # n
      BY DEF Beginning
    <3> QED BY <3>1, <3>2
  <2> QED BY <2>1, Zenon DEF Covering
<1>2. CASE Covering(ranges, n) = {}
  <2>1. Told(ranges, n) = [style |-> "uncovered", prefix |-> "", number |-> n]
    BY <1>2 DEF Told
  <2>2. Told(ranges, n - 1) = [style |-> "uncovered", prefix |-> "", number |-> n - 1]
    BY <1>1, <1>2 DEF Told
  <2>3. (n - 1) + 1 = n
    OBVIOUS
  <2> DEFINE m == n - 1
  <2>4. m + 1 = n /\ Told(ranges, m) = [style |-> "uncovered", prefix |-> "", number |-> m]
    BY <2>2, <2>3
  <2> HIDE DEF m
  <2>5. [Told(ranges, m) EXCEPT !.number = @ + 1] = [style |-> "uncovered", prefix |-> "", number |-> m + 1]
    BY <2>4, CountedOn
  <2> QED BY <2>1, <2>4, <2>5 DEF m
<1>3. CASE Covering(ranges, n) # {}
  <2> DEFINE x == Final(Covering(ranges, n))
             s == ranges[x].style
             p == ranges[x].prefix
             v == ranges[x].start_value
             b == ranges[x].start_page
             m == n - 1
  <2>1. Told(ranges, n) = [style |-> s, prefix |-> p, number |-> v + (n - b)]
    BY <1>3 DEF Told
  <2>2. Told(ranges, m) = [style |-> s, prefix |-> p, number |-> v + (m - b)]
    BY <1>1, <1>3 DEF Told
  <2>3. v \in Nat /\ b \in Nat
    <3>1. Len(ranges) \in Nat /\ Covering(ranges, n) \in SUBSET (1..Len(ranges))
      BY DEF AreRanges, Covering
    <3>2. x \in 1..Len(ranges)
      BY <1>3, <3>1, FinalIs
    <3> HIDE DEF x
    <3> QED BY <3>2 DEF AreRanges
  <2>4. m \in Nat /\ m + 1 = n
    OBVIOUS
  <2> HIDE DEF s, p, v, b, m, x
  <2> DEFINE z == v + (m - b)
  <2>5. v + (n - b) = z + 1
    BY <2>3, <2>4
  <2>6. Told(ranges, m) = [style |-> s, prefix |-> p, number |-> z]
    BY <2>2
  <2> HIDE DEF z
  <2>7. [Told(ranges, m) EXCEPT !.number = @ + 1] = [style |-> s, prefix |-> p, number |-> z + 1]
    BY <2>6, CountedOn
  <2> QED BY <2>1, <2>5, <2>7 DEF m
<1> QED BY <1>2, <1>3

\* The number that pages count to is the one that the last range tells.
LEMMA NumberedIs ==
  ASSUME NEW ranges, AreRanges(ranges), NEW page \in Nat
  PROVE  Numbered(ranges, page) = Told(ranges, page)
<1> DEFINE Last(n) == ranges[Final(Beginning(ranges, n))]
           Here(n) == [style |-> Last(n).style, prefix |-> Last(n).prefix, number |-> Last(n).start_value]
           None == [style |-> "uncovered", prefix |-> "", number |-> 0]
           On(h, n) == [h[n - 1] EXCEPT !.number = @ + 1]
           Is(h, n) == IF Beginning(ranges, n) # {} THEN Here(n) ELSE IF n = 0 THEN None ELSE On(h, n)
           P(h) == h = [n \in 0..page |-> Is(h, n)]
           f == [n \in 0..page |-> Told(ranges, n)]
<1>1. Numbered(ranges, page) = (CHOOSE h : P(h))[page]
  BY DEF Numbered, Beginning, Final
<1>2. ASSUME NEW n \in Nat, Beginning(ranges, n) # {} PROVE Told(ranges, n) = Here(n)
  BY <1>2, ToldHere
<1> HIDE DEF Here
<1>3. P(f)
  <2>1. ASSUME NEW n \in 0..page PROVE Told(ranges, n) = Is(f, n)
    <3>1. CASE Beginning(ranges, n) # {}
      BY <1>2, <3>1
    <3>2. CASE Beginning(ranges, n) = {} /\ n = 0
      BY <3>2, ToldFirst
    <3>3. CASE Beginning(ranges, n) = {} /\ n # 0
      <4>1. n - 1 \in 0..page /\ n \in Nat \ {0}
        BY <3>3
      <4>2. f[n - 1] = Told(ranges, n - 1)
        BY <4>1
      <4>3. Told(ranges, n) = On(f, n)
        BY <3>3, <4>1, <4>2, ToldOn
      <4> QED BY <3>3, <4>3
    <3> QED BY <3>1, <3>2, <3>3
  <2> HIDE DEF Is
  <2> QED BY <2>1
<1> DEFINE w == CHOOSE h : P(h)
<1> HIDE DEF P, f
<1>4. P(w)
  BY <1>3
<1> HIDE DEF w
<1>5. \A n \in 0..page : w[n] = Is(w, n)
  <2>1. w = [n \in 0..page |-> Is(w, n)]
    BY <1>4 DEF P
  <2> HIDE DEF Is
  <2> QED BY <2>1
<1> DEFINE Q == [n \in 0..page |-> w[n] = Told(ranges, n)]
<1>6. \A n \in 0..page : Q[n]
  <2>1. Q[0]
    <3>1. 0 \in 0..page
      OBVIOUS
    <3>2. CASE Beginning(ranges, 0) # {}
      <4>1. w[0] = Here(0) /\ Told(ranges, 0) = Here(0)
        BY <1>2, <1>5, <3>1, <3>2
      <4> QED BY <3>1, <4>1
    <3>3. CASE Beginning(ranges, 0) = {}
      <4>1. w[0] = None /\ Told(ranges, 0) = None
        BY <1>5, <3>1, <3>3, ToldFirst
      <4> QED BY <3>1, <4>1
    <3> QED BY <3>2, <3>3
  <2>2. ASSUME NEW n \in 1..page, Q[n - 1] PROVE Q[n]
    <3>1. n \in 0..page /\ n - 1 \in 0..page /\ n \in Nat \ {0}
      OBVIOUS
    <3>2. w[n - 1] = Told(ranges, n - 1)
      BY <2>2, <3>1
    <3>3. CASE Beginning(ranges, n) # {}
      <4>1. w[n] = Here(n) /\ Told(ranges, n) = Here(n)
        BY <1>2, <1>5, <3>1, <3>3
      <4> QED BY <3>1, <4>1
    <3>4. CASE Beginning(ranges, n) = {}
      <4>1. w[n] = On(w, n)
        <5>1. w[n] = Is(w, n)
          BY <1>5, <3>1
        <5> HIDE DEF On
        <5> QED BY <3>1, <3>4, <5>1
      <4>2. Told(ranges, n) = On(w, n)
        BY <3>1, <3>2, <3>4, ToldOn
      <4> HIDE DEF On
      <4> QED BY <3>1, <4>1, <4>2
    <3> QED BY <3>3, <3>4
  <2> HIDE DEF Q
  <2> QED BY <2>1, <2>2, HoldsAt
<1>7. w[page] = Told(ranges, page)
  <2>1. page \in 0..page
    OBVIOUS
  <2> QED BY <1>6, <2>1
<1> QED BY <1>1, <1>7 DEF w

\* A label is the one of the last range that covers its page, or there is none.
LEMMA LabelIs ==
  ASSUME NEW ranges, AreRanges(ranges), NEW page \in Nat,
         NEW label, label = render_page_label(ranges, page),
         NEW real, real = Numbered(ranges, page)
  PROVE  \/ label = NoLabel /\ real.style = "uncovered"
         \/ /\ real.number \in Nat /\ real.prefix # NoLabel.prefix
            /\ real.style \in {"decimal", "roman", "alpha", "none"}
            /\ label = render_label_number(real.style, real.number, real.prefix)
<1> DEFINE C == Covering(ranges, page)
           x == Final(C)
           r == ranges[x]
           n == r.start_value + (page - r.start_page)
<1>1. label = IF C = {} THEN NoLabel ELSE render_label_number(r.style, n, r.prefix)
  BY DEF render_page_label, Covering, Final
<1>2. real = Told(ranges, page)
  BY NumberedIs
<1>3. CASE C = {}
  <2>1. real = [style |-> "uncovered", prefix |-> "", number |-> page]
    BY <1>2, <1>3 DEF Told
  <2>2. real.style = "uncovered"
    <3> DEFINE s == "uncovered"
               p == ""
    <3>1. real = [style |-> s, prefix |-> p, number |-> page]
      BY <2>1
    <3> HIDE DEF s, p
    <3>2. real.style = s
      BY <3>1
    <3> QED BY <3>2 DEF s
  <2> HIDE DEF C, r, n
  <2>3. label = NoLabel
    BY <1>1, <1>3
  <2> QED BY <2>2, <2>3
<1>4. CASE C # {}
  <2>1. x \in 1..Len(ranges) /\ r.start_page <= page
    <3>1. Len(ranges) \in Nat /\ C \in SUBSET (1..Len(ranges))
      BY DEF AreRanges, Covering
    <3>2. x \in C
      <4> HIDE DEF C
      <4> QED BY <1>4, <3>1, FinalIs
    <3> HIDE DEF x
    <3> QED BY <3>2 DEF Covering
  <2>2. /\ r.start_page \in Nat /\ r.start_value \in Nat /\ r.prefix # NoLabel.prefix
        /\ r.style \in {"decimal", "roman", "alpha", "none"}
    <3> HIDE DEF x
    <3> QED BY <2>1 DEF AreRanges
  <2>3. real = [style |-> r.style, prefix |-> r.prefix, number |-> n]
    BY <1>2, <1>4 DEF Told
  <2> DEFINE b == r.start_page
             v == r.start_value
  <2>4. b \in Nat /\ v \in Nat /\ b <= page
    BY <2>1, <2>2
  <2> HIDE DEF b, v
  <2>5. v + (page - b) \in Nat
    BY <2>4
  <2>6. n \in Nat
    BY <2>5 DEF b, v
  <2> HIDE DEF r, n
  <2>7. real.style = r.style /\ real.prefix = r.prefix /\ real.number = n
    BY <2>3
  <2> QED BY <1>1, <1>4, <2>2, <2>6, <2>7
<1> QED BY <1>3, <1>4

\* A label that was rendered for a number reads back as it.
LEMMA RenderedReadsBack ==
  ASSUME NEW style \in {"decimal", "roman", "alpha", "none"}, NEW number \in Nat,
         NEW prefix, prefix # NoLabel.prefix,
         NEW label, label = render_label_number(style, number, prefix)
  PROVE  IF label = NoLabel
         THEN style = "roman" /\ number >= 1000 * (MAX_LABEL_CHARS - ROMAN_TAIL_MAX)
         ELSE /\ label.prefix = prefix
              /\ style = "decimal" => label.digits = <<number>>
              /\ style = "roman" =>
                   ReadRoman(label.digits) = number /\ Len(label.digits) <= MAX_LABEL_CHARS
              /\ style = "alpha" =>
                   /\ ReadAlpha(label.digits) = number
                   /\ \A n \in 1..Len(label.digits) : label.digits[n] \in 1..LETTERS
              /\ style = "none" => label.digits = <<>>
<1> DEFINE digits == CASE style = "decimal" -> <<number>>
                       [] style = "roman"   -> roman_digits(number)
                       [] style = "alpha"   -> render_alpha(number)
                       [] style = "none"    -> <<>>
           of == [digits |-> digits, prefix |-> prefix]
<1>1. label = IF style = "roman" /\ RomanIsBounded(number) THEN NoLabel ELSE of
  BY DEF render_label_number
<1>2. /\ style = "decimal" => digits = <<number>>
      /\ style = "roman" => digits = roman_digits(number)
      /\ style = "alpha" => digits = render_alpha(number)
      /\ style = "none" => digits = <<>>
  OBVIOUS
<1> HIDE DEF digits
<1>3. of.prefix = prefix /\ of.digits = digits
  OBVIOUS
<1> HIDE DEF of
<1>4. of # NoLabel
  BY <1>3
<1>5. RomanIsBounded(number) => number >= 1000 * (MAX_LABEL_CHARS - ROMAN_TAIL_MAX)
  BY RomanFits
<1>6. CASE style = "roman" /\ RomanIsBounded(number)
  <2>1. label = NoLabel
    BY <1>1, <1>6
  <2> QED BY <1>5, <1>6, <2>1
<1>7. CASE ~(style = "roman" /\ RomanIsBounded(number))
  <2>1. label = of /\ label # NoLabel
    BY <1>1, <1>4, <1>7
  <2>2. label.prefix = prefix /\ label.digits = digits
    BY <1>3, <2>1
  <2>3. ASSUME style = "roman"
        PROVE  ReadRoman(label.digits) = number /\ Len(label.digits) <= MAX_LABEL_CHARS
    <3>1. ReadRoman(roman_digits(number)) = number
      BY RomanReadsBack DEF Rendered
    <3>2. Len(roman_digits(number)) <= MAX_LABEL_CHARS
      BY <1>7, <2>3, RomanFits
    <3> QED BY <1>2, <2>2, <2>3, <3>1, <3>2
  <2>4. ASSUME style = "alpha"
        PROVE  /\ ReadAlpha(label.digits) = number
               /\ \A n \in 1..Len(label.digits) : label.digits[n] \in 1..LETTERS
    <3>1. label.digits = render_alpha(number)
      BY <1>2, <2>2, <2>4
    <3>2. label.digits \in Seq(1..LETTERS) /\ ReadAlpha(label.digits) = number
      BY <3>1, AlphaReadsBack
    <3> DEFINE t == label.digits
               S == 1..LETTERS
    <3>3. t \in Seq(S)
      BY <3>2
    <3> HIDE DEF t, S
    <3>4. \A n \in 1..Len(t) : t[n] \in S
      BY <3>3
    <3> QED BY <3>2, <3>4 DEF t, S
  <2> QED BY <1>2, <2>1, <2>2, <2>3, <2>4, Zenon
<1> QED BY <1>6, <1>7

\* Every label that was answered reads back.
LEMMA LabelsHold ==
  ASSUME EntriesInv
  PROVE  LabelsReadBack
<1>1. request \in PdfCases /\ \A k \in 1..Len(reply.entries) : Says(request, reply.entries[k].page_index, reply.entries[k].entry)
  BY DEF EntriesInv, CallInv, EntriesFit
<1>2. AreRanges(request.doc.ranges) /\ Len(request.doc.pages) \in Nat
  BY <1>1, PdfCasesAssumption DEF IsCall, IsListOf, IsSeq
<1> SUFFICES ASSUME request.how = "labels", NEW k \in 1..Len(reply.entries)
             PROVE  LET label == reply.entries[k].entry
                        real  == Numbered(doc.ranges, reply.entries[k].page_index)
                    IN  IF label = NoLabel
                        THEN \/ real.style = "uncovered"
                             \/ real.style = "roman" /\ real.number >= 1000 * (MAX_LABEL_CHARS - ROMAN_TAIL_MAX)
                        ELSE /\ label.prefix = real.prefix
                             /\ real.style = "decimal" => label.digits = <<real.number>>
                             /\ real.style = "roman" =>
                                  ReadRoman(label.digits) = real.number /\ Len(label.digits) <= MAX_LABEL_CHARS
                             /\ real.style = "alpha" =>
                                  /\ ReadAlpha(label.digits) = real.number
                                  /\ \A n \in 1..Len(label.digits) : label.digits[n] \in 1..LETTERS
                             /\ real.style = "none" => label.digits = <<>>
  BY DEF LabelsReadBack
<1> DEFINE index == reply.entries[k].page_index
           label == reply.entries[k].entry
           ranges == request.doc.ranges
           real == Numbered(ranges, index)
<1>3. index \in Nat /\ label = render_page_label(ranges, index)
  <2>1. Says(request, index, label)
    BY <1>1
  <2> HIDE DEF index, label
  <2>2. index \in 0..(Len(request.doc.pages) - 1) /\ label = render_page_label(ranges, index)
    BY <2>1 DEF Says
  <2> QED BY <1>2, <2>2
<1>4. real = Numbered(doc.ranges, index)
  BY DEF doc
<1> HIDE DEF index, label, real
<1>5. real = Numbered(ranges, index) /\ AreRanges(ranges)
  BY <1>2 DEF real
<1> HIDE DEF ranges
<1>6. \/ label = NoLabel /\ real.style = "uncovered"
      \/ /\ real.number \in Nat /\ real.prefix # NoLabel.prefix
         /\ real.style \in {"decimal", "roman", "alpha", "none"}
         /\ label = render_label_number(real.style, real.number, real.prefix)
  BY <1>3, <1>5, LabelIs
<1>7. IF label = NoLabel
      THEN \/ real.style = "uncovered"
           \/ real.style = "roman" /\ real.number >= 1000 * (MAX_LABEL_CHARS - ROMAN_TAIL_MAX)
      ELSE /\ label.prefix = real.prefix
           /\ real.style = "decimal" => label.digits = <<real.number>>
           /\ real.style = "roman" =>
                ReadRoman(label.digits) = real.number /\ Len(label.digits) <= MAX_LABEL_CHARS
           /\ real.style = "alpha" =>
                /\ ReadAlpha(label.digits) = real.number
                /\ \A n \in 1..Len(label.digits) : label.digits[n] \in 1..LETTERS
           /\ real.style = "none" => label.digits = <<>>
  <2>1. CASE label = NoLabel /\ real.style = "uncovered"
    BY <2>1
  <2>2. CASE /\ real.number \in Nat /\ real.prefix # NoLabel.prefix
             /\ real.style \in {"decimal", "roman", "alpha", "none"}
             /\ label = render_label_number(real.style, real.number, real.prefix)
    <3> DEFINE style == real.style
               number == real.number
               prefix == real.prefix
    <3>1. /\ number \in Nat /\ prefix # NoLabel.prefix /\ style \in {"decimal", "roman", "alpha", "none"}
          /\ label = render_label_number(style, number, prefix)
      BY <2>2
    <3> HIDE DEF style, number, prefix
    <3>2. IF label = NoLabel
          THEN style = "roman" /\ number >= 1000 * (MAX_LABEL_CHARS - ROMAN_TAIL_MAX)
          ELSE /\ label.prefix = prefix
               /\ style = "decimal" => label.digits = <<number>>
               /\ style = "roman" =>
                    ReadRoman(label.digits) = number /\ Len(label.digits) <= MAX_LABEL_CHARS
               /\ style = "alpha" =>
                    /\ ReadAlpha(label.digits) = number
                    /\ \A n \in 1..Len(label.digits) : label.digits[n] \in 1..LETTERS
               /\ style = "none" => label.digits = <<>>
      BY <3>1, RenderedReadsBack
    <3> QED BY <3>2, Zenon DEF style, number, prefix
  <2> QED BY <1>6, <2>1, <2>2
<1> QED BY <1>4, <1>7, Zenon DEF index, label

\* A label of a page reads back as the number of the page, in every style, and is missing
\* only before the first range and where it would be longer than the limit, whatever the
\* ranges, the page, the limit and the letters are (pdf_impl.rs 760-850, 940-961).
THEOREM LabelsAreRead == PdfSpec => []LabelsReadBack
<1>1. EntriesInv => LabelsReadBack
  BY LabelsHold
<1> QED BY <1>1, EntriesAlways, PTL
===============================================================================
