------------------------------- MODULE PdfScan --------------------------------
(***************************************************************************)
(* The walk over a PDF's bytes that refuses deep nesting before the parser *)
(* sees them (src/src/pdf_impl.rs 251-636).  A text is a sequence of       *)
(* bytes; the words that the walk looks for are one element each           *)
(* ("endstream" is "end", "stream"; "/Flags" is "/", "Fl", "ags"), and so  *)
(* is a compressed flow.                                                   *)
(***************************************************************************)
EXTENDS Integers, Sequences, FiniteSets

CONSTANTS
  MAX_OBJECT_NESTING, MAX_INFLATED_BYTES,
  INFLATE   \* what a flow inflates to; what is not in its domain is corrupt

ASSUME ScanAssumption == MAX_OBJECT_NESTING \in Nat /\ MAX_INFLATED_BYTES \in Nat

Blank    == {" ", "nl", "cr"}
NameEnds == Blank \cup {"(", ")", "<", ">", "[", "]", "/", "%"}

\* The spellings of the filters that the engine decodes and the walk does not: full
\* names, and abbreviations that count as whole names only.
UNDECODABLE_FILTERS       == {"LZWDecode", "lzwdecode"}
UNDECODABLE_ABBREVIATIONS == {"LZW"}

ByteAt(bytes, i) == IF i \in 1..Len(bytes) THEN bytes[i] ELSE "eof"

\* The first place from i on with one of cs, or the end.
NextOf(bytes, i, cs) ==
  LET hits == {k \in i..Len(bytes) : bytes[k] \in cs}
  IN  IF hits = {} THEN Len(bytes) + 1 ELSE CHOOSE k \in hits : \A l \in hits : k <= l

bytes_contain(bytes, words) == \E i \in 1..Len(bytes) : bytes[i] \in words

name_declared(dict, name) ==
  \E i \in 1..Len(dict) - 1 :
    /\ dict[i] = "/" /\ dict[i + 1] = name
    /\ i + 2 <= Len(dict) => dict[i + 2] \in NameEnds

dict_declares_flate(dict) ==
  bytes_contain(dict, {"FlateDecode", "flatedecode"}) \/ name_declared(dict, "Fl")

dict_declares_undecodable_filter(dict) ==
  \/ bytes_contain(dict, UNDECODABLE_FILTERS)
  \/ \E abbr \in UNDECODABLE_ABBREVIATIONS : name_declared(dict, abbr)

HoldsObjects(dict) ==
  \E i \in 1..Len(dict) - 1 : dict[i] = "/" /\ dict[i + 1] \in {"ObjStm", "XRef"}

\* A corrupt flow gives nothing: the engine fails on it by itself.
inflate_capped(payload) ==
  IF Len(payload) = 1 /\ payload[1] \in DOMAIN INFLATE THEN INFLATE[payload[1]] ELSE <<>>

NoStream == [close |-> 0, payload |-> 0]

\* Mutant: the payload begins right behind the word.
stream_keyword_extent_in_place(bytes, i) ==
  LET solid == {j \in 1..(i - 1) : bytes[j] \notin Blank}
      j     == CHOOSE k \in solid : \A l \in solid : l <= k
  IN  IF solid = {} \/ bytes[j] # ">" THEN NoStream ELSE [close |-> j, payload |-> i + 1]

\* Where the dictionary before the word "stream" at i closes, and where the payload
\* begins: behind one line end, if there is one.
stream_keyword_extent(bytes, i) ==
  LET solid == {j \in 1..(i - 1) : bytes[j] \notin Blank}
      j     == CHOOSE k \in solid : \A l \in solid : l <= k
      skip  == CASE ByteAt(bytes, i + 1) = "nl" -> 1
                 [] ByteAt(bytes, i + 1) = "cr" /\ ByteAt(bytes, i + 2) = "nl" -> 2
                 [] ByteAt(bytes, i + 1) = "cr" -> 1
                 [] OTHER -> 0
  IN  IF solid = {} \/ bytes[j] # ">" THEN NoStream
      ELSE [close |-> j, payload |-> i + 1 + skip]

endstream_at(bytes, from) ==
  LET ends == {k \in from..Len(bytes) - 1 : bytes[k] = "end" /\ bytes[k + 1] = "stream"}
  IN  IF ends = {} THEN Len(bytes) + 1 ELSE CHOOSE k \in ends : \A l \in ends : k <= l

\* Behind the string that opened before i, with all the parentheses in it.
string_end(bytes, i) ==
  LET end[j \in Nat, parens \in Nat] ==
        IF j > Len(bytes) \/ parens = 0 THEN j
        ELSE CASE bytes[j] = "\\" -> end[j + 2, parens]
               [] bytes[j] = "("  -> end[j + 1, parens + 1]
               [] bytes[j] = ")"  -> end[j + 1, parens - 1]
               [] OTHER           -> end[j + 1, parens]
  IN  end[i, 1]

-----------------------------------------------------------------------------
(* The walk: the place, the depth, where the outermost dictionary opened,  *)
(* and the span of the last one that closed.                               *)

Passed == "passed"

WalkStart == [i |-> 1, depth |-> 0, dict_open_at |-> 0, dict |-> <<0, 0>>, verdict |-> Passed]

Skip(w, n)        == [w EXCEPT !.i = @ + n]
GoTo(w, i)        == [w EXCEPT !.i = i]
RefuseScan(w, why) == [w EXCEPT !.verdict = why]

Deeper(w, width) ==
  IF w.depth + 1 > MAX_OBJECT_NESTING THEN RefuseScan(w, "nesting")
  ELSE [w EXCEPT !.depth = @ + 1, !.i = @ + width]

Shallower(w) == [w EXCEPT !.depth = IF @ = 0 THEN 0 ELSE @ - 1]

\* Mutant: the innermost dictionary is the stream's.
OpenDict_innermost(w) ==
  LET deeper == Deeper(w, 2) IN [deeper EXCEPT !.dict_open_at = w.i]

OpenDict(w) ==
  LET deeper == Deeper(w, 2)
  IN  IF deeper.verdict = Passed /\ deeper.depth = 1 THEN [deeper EXCEPT !.dict_open_at = w.i] ELSE deeper

CloseDict(w) ==
  Skip(Shallower(IF w.depth = 1 THEN [w EXCEPT !.dict = <<w.dict_open_at, w.i + 1>>] ELSE w), 2)

\* At a stream of the outermost dictionary that closed last, what its object holds
\* is asked of verdicts.
AtStream(bytes, verdicts, w) ==
  LET extent  == stream_keyword_extent(bytes, w.i)
      end     == endstream_at(bytes, extent.payload)
      verdict == IF w.dict[2] = extent.close
                 THEN verdicts[SubSeq(bytes, w.dict[1], w.dict[2]), SubSeq(bytes, extent.payload, end - 1)]
                 ELSE Passed
  IN  IF extent = NoStream THEN Skip(w, 1)
      ELSE IF verdict # Passed THEN RefuseScan(w, verdict) ELSE GoTo(w, end)

WalkStep(bytes, verdicts, w) ==
  LET c      == bytes[w.i]
      double == ByteAt(bytes, w.i + 1) = c
  IN  CASE c = "%"            -> GoTo(w, NextOf(bytes, w.i + 1, {"nl", "cr"}))
        [] c = "("            -> GoTo(w, string_end(bytes, w.i + 1))
        [] c = "<" /\ double  -> OpenDict(w)
        [] c = "<" /\ ~double -> GoTo(w, NextOf(bytes, w.i + 1, {">"}) + 1)
        [] c = ">" /\ double  -> CloseDict(w)
        [] c = "["            -> Deeper(w, 1)
        [] c = "]"            -> Skip(Shallower(w), 1)
        [] c = "stream"       -> AtStream(bytes, verdicts, w)
        [] OTHER              -> Skip(w, 1)

\* A step moves on by a byte or more, or refuses.
scan_walk(bytes, verdicts) ==
  LET walk[n \in 0..Len(bytes)] ==
        IF n = 0 THEN WalkStart
        ELSE LET w == walk[n - 1]
             IN  IF w.verdict # Passed \/ w.i > Len(bytes) THEN w ELSE WalkStep(bytes, verdicts, w)
  IN  walk[Len(bytes)].verdict

\* The walk over an object stream collects no streams of its own.
NotCollected == [dict, payload \in Seq(STRING) |-> Passed]

\* An object stream is read as the parser would read it.
scan_stream_object(dict, payload) ==
  LET flate   == dict_declares_flate(dict)
      scanned == IF flate THEN inflate_capped(payload) ELSE payload
  IN  IF ~HoldsObjects(dict) THEN Passed
      ELSE IF dict_declares_undecodable_filter(dict) THEN "filter"
      ELSE IF flate /\ Len(scanned) > MAX_INFLATED_BYTES THEN "size"
      ELSE scan_walk(scanned, NotCollected)

scan_document(bytes) ==
  scan_walk(bytes, [dict, payload \in Seq(STRING) |-> scan_stream_object(dict, payload)])
===============================================================================
