---------------------------- MODULE DocumentIntake ----------------------------
(***************************************************************************)
(* One call of tors.documents (to_markdown and to_text, page_geometry,     *)
(* document_structure) from its arguments to the engine: the capability    *)
(* probe, the gates around open, the bounded two-phase read, and the       *)
(* core's resolution and refusals (src/tors-documents/src/lib.rs,          *)
(* src/src/documents_impl.rs).                                             *)
(*                                                                         *)
(* The file belongs to the world: what the path names may be replaced      *)
(* between two system calls, and an open file may grow while it is read.   *)
(* A file's bytes are abstracted to how many there are and to what the     *)
(* content sniffer answers for three views of them: the sniff prefix       *)
(* (head), its complete lines (trim), and all of them (whole).             *)
(***************************************************************************)
EXTENDS Integers

CONSTANTS
  Calls,           \* the argument combinations
  Files,           \* what the path may name at first
  LaterFiles,      \* what it may name after a replacement
  MaxChanges,      \* bound: interferences with one call
  SNIFF_PREFIX, CHUNK, DEFAULT_LIMIT, MAX_INPUT_READ

ASSUME SizesAssumption ==
  /\ {SNIFF_PREFIX, CHUNK, DEFAULT_LIMIT, MAX_INPUT_READ} \subseteq Nat \ {0}
  /\ SNIFF_PREFIX < DEFAULT_LIMIT /\ DEFAULT_LIMIT <= MAX_INPUT_READ
ASSUME MaxChangesAssumption == MaxChanges \in Nat

NoLimit == -1         \* max_bytes=None
Unnamed == "unnamed"  \* format=None
Unknown == "unknown"  \* no format resolved

-----------------------------------------------------------------------------
(* Formats and the three routing tables.                                   *)

Office     == {"docx", "xlsx", "pptx", "doc", "ppt"}
NoGeometry == {"html", "rtf", "odt", "ods", "odp", "epub", "csv"}
Kinds      == {"pdf"} \cup Office \cup NoGeometry
Refusals   == {"unsupported", "capability"}
Backends   == {"auto", "oxide", "anydoc"}
Surfaces   == {"convert", "geometry", "structure"}

\* A file (or a data= buffer): its kind, the size its stat reports and the one
\* it has, what its three views sniff as, whether it is an OLE container.
FileType ==
  [type : STRING, stat : Nat, size : Nat, trim : Kinds \cup {Unknown},
   head : Kinds \cup {Unknown}, whole : Kinds \cup {Unknown}, ole : BOOLEAN]

CallType ==
  [surface : Surfaces, source : {"path", "data"}, format : STRING,
   ext : Kinds \cup {Unknown}, backend : Backends, password : BOOLEAN,
   pages : BOOLEAN, max : Nat \cup {NoLimit}]

ASSUME ArgumentsAssumption ==
  Calls \subseteq CallType /\ Files \subseteq FileType /\ LaterFiles \subseteq FileType

engine_for(kind, backend) ==
  CASE kind = "pdf"  -> IF backend = "anydoc" THEN "anydoc" ELSE "pdf_oxide"
    [] kind = "html" -> IF backend = "auto" THEN "html" ELSE "unsupported"
    [] kind \in Kinds \ {"pdf", "html"} ->
         IF backend # "oxide" THEN "anydoc"
         ELSE IF kind \in Office THEN "office_oxide" ELSE "unsupported"

geometry_engine(kind, backend) ==
  CASE kind \in NoGeometry -> "none"
    [] kind \notin NoGeometry /\ backend = "anydoc" -> "capability"
    [] kind = "pdf" /\ backend # "anydoc" -> "pdf_oxide"
    [] kind \in Office /\ backend # "anydoc" -> "office_oxide"

structure_engine(kind, backend, ole) ==
  CASE kind = "html" -> IF backend = "auto" THEN "html" ELSE "unsupported"
    [] kind = "docx" \/ (kind = "xlsx" /\ ~ole) ->
         IF backend = "anydoc" THEN "capability" ELSE "office_oxide"
    [] OTHER -> "capability"

\* The lane of a call, or its refusal; Unknown when no format resolved.
Lane(c, kind, ole) ==
  IF kind = Unknown THEN Unknown
  ELSE CASE c.surface = "convert"   -> engine_for(kind, c.backend)
         [] c.surface = "geometry"  -> geometry_engine(kind, c.backend)
         [] c.surface = "structure" -> structure_engine(kind, c.backend, ole)

-----------------------------------------------------------------------------
(* Resolution and metering.                                                *)

resolve(format, sniffed, hint) ==
  IF format # Unnamed THEN IF format \in Kinds THEN format ELSE Unknown
  ELSE IF sniffed # Unknown THEN sniffed ELSE hint

\* The name hint: a path's extension; bytes in hand have none.
Hint(c) == IF c.source = "path" THEN c.ext ELSE Unknown

\* Which lanes carry no default ceiling on this surface.
Unmetered(c) == IF c.surface = "geometry" THEN {"pdf_oxide", "none"} ELSE {"pdf_oxide"}

\* Mutant: both views of the prefix must resolve to the unmetered lane.
provisional_ceiling_of_both(c, f, n) ==
  LET lane(sniffed) == Lane(c, resolve(c.format, sniffed, Hint(c)), f.ole)
  IN  IF c.surface # "structure" /\ \A v \in {f.trim, IF n = f.size THEN f.whole ELSE f.head} :
           lane(v) \in Unmetered(c)
      THEN MAX_INPUT_READ ELSE DEFAULT_LIMIT

\* What n bytes of a file sniff as.
Sniffed(f, n) == IF n >= f.size THEN f.whole ELSE f.head

provisional_ceiling(c, f, n) ==
  LET lane(sniffed) == Lane(c, resolve(c.format, sniffed, Hint(c)), f.ole)
  IN  IF c.surface # "structure"
           /\ \E v \in {f.trim, Sniffed(f, n)} : lane(v) \in Unmetered(c)
      THEN MAX_INPUT_READ ELSE DEFAULT_LIMIT

\* Mutant: the core leaves the input ceiling to the read.
Limit_of_the_read(c) == MAX_INPUT_READ

\* The engine lanes' input ceiling.
Limit(c) == IF c.max = NoLimit THEN DEFAULT_LIMIT ELSE c.max

-----------------------------------------------------------------------------
(* The core: its refusals in the code's order, then the engine.            *)

Convert(c, kind, lane, n) ==
  IF c.max = 0 THEN "zero"
  ELSE IF kind = Unknown THEN "unknown"
  ELSE IF lane \in Refusals THEN lane
  ELSE IF c.pages /\ (kind # "pdf" \/ lane # "pdf_oxide") THEN "pages"
  ELSE IF c.password /\ (kind # "pdf" \/ lane = "anydoc") THEN "password"
  ELSE IF lane # "pdf_oxide" /\ n > Limit(c) THEN "ceiling" ELSE "ran"

page_geometry(c, kind, lane, n) ==
  IF kind = Unknown THEN "unknown"
  ELSE IF lane \in Refusals THEN lane
  ELSE IF c.password /\ kind # "pdf" THEN "password"
  ELSE IF c.max = 0 THEN "zero"
  ELSE IF lane = "none" THEN "none"
  ELSE IF lane = "office_oxide" /\ n > Limit(c) THEN "ceiling" ELSE "ran"

document_structure(c, kind, lane, n) ==
  IF kind = Unknown THEN "unknown"
  ELSE IF lane \in Refusals THEN lane
  ELSE IF c.max = 0 THEN "zero"
  ELSE IF n > Limit(c) THEN "ceiling" ELSE "ran"

\* `n` bytes that sniff as `sniffed` reach the core.
Core(c, sniffed, ole, n) ==
  LET kind == resolve(c.format, sniffed, Hint(c))
      lane == Lane(c, kind, ole)
  IN  CASE c.surface = "convert"   -> Convert(c, kind, lane, n)
        [] c.surface = "geometry"  -> page_geometry(c, kind, lane, n)
        [] c.surface = "structure" -> document_structure(c, kind, lane, n)

-----------------------------------------------------------------------------
(* The call.                                                               *)

VARIABLES
  call,     \* its arguments
  path,     \* the file the path names now (a data= call: its bytes)
  handle,   \* the file the call has open
  phase,    \* the next thing the call does
  reading,  \* what the running bounded read is for
  ceiling,  \* and its ceiling
  buf,      \* how many bytes it has buffered
  answer,   \* what the call answered
  changes   \* how often the world has interfered

vars == <<call, path, handle, phase, reading, ceiling, buf, answer, changes>>

Init ==
  /\ call \in Calls /\ path \in Files
  /\ call.source = "data" => path.type = "file" /\ path.stat = path.size
  /\ handle = path /\ phase = "parse" /\ reading = "nothing" /\ ceiling = 0 /\ buf = 0
  /\ answer = "none yet" /\ changes = 0

Answer(a) == phase' = "answered" /\ answer' = a

Go(p) == phase' = p /\ UNCHANGED answer

Source(c) == IF c.source = "path" THEN "stat" ELSE "copy"

\* Mutant: only the anydoc backend is probed, on either surface.
Probes_anydoc_only(c) == c.surface # "convert" /\ c.backend = "anydoc"

Probes(c) == c.surface = "structure" \/ (c.surface = "geometry" /\ c.backend = "anydoc")

\* The binding's argument checks; zero budgets stop here on one surface.
Parse ==
  /\ phase = "parse"
  /\ IF call.surface = "convert" /\ call.max = 0 THEN Answer("zero")
     ELSE Go(IF Probes(call) THEN "probe" ELSE Source(call))
  /\ UNCHANGED <<call, path, handle, reading, ceiling, buf, changes>>

\* The probe refuses what the format already decides, or defers.
ProbeSays(sniffed, ole) ==
  LET lane == Lane(call, resolve(call.format, sniffed, Hint(call)), ole)
  IN  IF lane \in Refusals THEN Answer(lane) ELSE Go(Source(call))

name_decides_probe(c) == c.format \in Kinds \ {"xlsx"}

Probe ==
  /\ phase = "probe"
  /\ IF name_decides_probe(call) \/ call.source = "data"
     THEN ProbeSays(Sniffed(path, SNIFF_PREFIX), path.ole)
     ELSE Go(IF path.type \in {"file", "dir"} THEN "probe open" ELSE Source(call))
  /\ UNCHANGED <<call, path, handle, reading, ceiling, buf, changes>>

\* Opening a FIFO that nobody writes to does not return.
Blocks(f) == f.type = "fifo"

Read(purpose, cap, from) ==
  /\ phase' = "read" /\ reading' = purpose /\ ceiling' = cap /\ buf' = from
  /\ UNCHANGED answer

ProbeOpen ==
  /\ phase = "probe open"
  /\ handle' = path
  /\ IF Blocks(path) THEN Go("stuck") /\ UNCHANGED <<reading, ceiling, buf>>
     ELSE IF path.type = "missing" THEN Go(Source(call)) /\ UNCHANGED <<reading, ceiling, buf>>
     ELSE Read("probe", SNIFF_PREFIX, 0)
  /\ UNCHANGED <<call, path, changes>>

refuse_non_regular(f) == f.type \notin {"file", "dir"}

refuse_over_ceiling(f) == call.max > 0 /\ f.type # "dir" /\ f.stat > call.max

\* The gates of the stat, and again of the fstat on the open handle.
Gates(f, next) ==
  IF f.type = "missing" THEN Answer("io")
  ELSE IF refuse_non_regular(f) THEN Answer("not regular")
  ELSE IF refuse_over_ceiling(f) THEN Answer("ceiling")
  ELSE next

Stat ==
  /\ phase = "stat"
  /\ Gates(path, Go("open"))
  /\ UNCHANGED <<call, path, handle, reading, ceiling, buf, changes>>

Open ==
  /\ phase = "open"
  /\ handle' = path
  /\ IF Blocks(path) THEN Go("stuck")
     ELSE IF path.type = "missing" THEN Answer("io") ELSE Go("fstat")
  /\ UNCHANGED <<call, path, reading, ceiling, buf, changes>>

Fstat ==
  /\ phase = "fstat"
  /\ Gates(handle, Go("admitted"))
  /\ UNCHANGED <<call, path, handle, reading, ceiling, buf, changes>>

\* The geometry surface's no-read door.
Door ==
  call.surface = "geometry" /\ handle.type # "dir" /\ call.format \in NoGeometry

AtDoor ==
  /\ phase = "admitted" /\ Door
  /\ buf' = 0 /\ Go("core")
  /\ UNCHANGED <<call, path, handle, reading, ceiling, changes>>

StartRead ==
  /\ phase = "admitted" /\ ~Door
  /\ \/ call.max = NoLimit /\ Read("prefix", SNIFF_PREFIX, 0)
     \/ call.max = 0       /\ Read("zero", SNIFF_PREFIX, 0)
     \/ call.max > 0       /\ Read("budget", call.max, 0)
  /\ UNCHANGED <<call, path, handle, changes>>

\* Mutant: a read asks for a whole chunk wherever the ceiling is.
Want_chunk(cap, n) == CHUNK

\* How much one read asks for: never more than one byte past the ceiling.
Want(cap, n) == IF cap + 1 - n < CHUNK THEN cap + 1 - n ELSE CHUNK

\* One system read; it may return less than it was asked for.  (A read cut
\* short by a signal is retried with the buffer as it was: a stutter.)
ReadSome ==
  /\ phase = "read" /\ handle.type # "dir" /\ buf <= ceiling
  /\ \E n \in 1..Want(ceiling, buf) : buf + n <= handle.size /\ buf' = buf + n
  /\ UNCHANGED <<call, path, handle, phase, reading, ceiling, answer, changes>>

\* Mutant: a read that reached its ceiling counts as finished.
Refuse_never(over) == Go("core")

\* The whole document was read, or it is refused.
Refuse(over) == IF over THEN Answer("ceiling") ELSE Go("core")

\* What the end of a read leads to; a probe whose read fails only defers.
AfterRead(over) ==
  \/ /\ reading = "probe"
     /\ ProbeSays(Sniffed(handle, buf), handle.ole) /\ buf' = 0 /\ UNCHANGED <<reading, ceiling>>
  \/ reading = "zero" /\ Go("core") /\ UNCHANGED <<reading, ceiling, buf>>
  \/ reading = "prefix" /\ Read("body", provisional_ceiling(call, handle, buf), buf)
  \/ reading \in {"budget", "body"} /\ Refuse(over) /\ UNCHANGED <<reading, ceiling, buf>>

\* The read stops past its ceiling or at the end of the file.
ReadOver ==
  /\ phase = "read" /\ handle.type # "dir" /\ buf > ceiling
  /\ AfterRead(TRUE)
  /\ UNCHANGED <<call, path, handle, changes>>

ReadEnds ==
  /\ phase = "read" /\ handle.type # "dir" /\ buf <= ceiling /\ buf = handle.size
  /\ AfterRead(FALSE)
  /\ UNCHANGED <<call, path, handle, changes>>

\* A read that fails ends the call, or leaves the probe without an answer.
FailedRead(why) ==
  /\ phase = "read" /\ buf <= ceiling
  /\ IF reading = "probe" THEN Go(Source(call)) ELSE Answer(why)
  /\ buf' = 0
  /\ UNCHANGED <<call, path, handle, reading, ceiling>>

ReadDirectory == handle.type = "dir" /\ FailedRead("io") /\ UNCHANGED changes

\* A data= call: the budget gate, then the one copy.
Copy ==
  /\ phase = "copy"
  /\ handle' = path
  /\ IF call.max > 0 /\ path.size > call.max
     THEN Answer("ceiling") /\ UNCHANGED buf
     ELSE Go("core") /\ buf' = path.size
  /\ UNCHANGED <<call, path, reading, ceiling, changes>>

\* The core sees the bytes that were read, and only those.
RunCore ==
  /\ phase = "core"
  /\ Answer(Core(call, Sniffed(handle, buf), handle.ole, buf))
  /\ UNCHANGED <<call, path, handle, reading, ceiling, buf, changes>>

\* The world: the path comes to name another file, the open file grows, a
\* read or the reservation of its buffer fails.
Interferes ==
  /\ call.source = "path" /\ phase \notin {"answered", "stuck"}
  /\ changes < MaxChanges /\ changes' = changes + 1

Replace ==
  /\ Interferes /\ path' \in LaterFiles
  /\ UNCHANGED <<call, handle, phase, reading, ceiling, buf, answer>>

Grow ==
  /\ Interferes /\ phase = "read" /\ handle.type = "file"
  /\ handle' = [handle EXCEPT !.size = @ + 1]
  /\ UNCHANGED <<call, path, phase, reading, ceiling, buf, answer>>

ReadFails ==
  /\ Interferes /\ handle.type = "file"
  /\ \E why \in {"io", "memory"} : FailedRead(why)

Next ==
  \/ Parse \/ Probe \/ ProbeOpen \/ Stat \/ Open \/ Fstat \/ AtDoor \/ StartRead
  \/ ReadSome \/ ReadOver \/ ReadEnds \/ ReadDirectory \/ Copy \/ RunCore
  \/ Replace \/ Grow \/ ReadFails

Spec == Init /\ [][Next]_vars

-----------------------------------------------------------------------------
(* Properties.                                                             *)

Phases == {"parse", "probe", "probe open", "stat", "open", "fstat", "admitted", "read",
           "copy", "core", "answered", "stuck"}
Answers == Refusals \cup {"none yet", "zero", "unknown", "pages", "password", "ceiling",
             "io", "memory", "not regular", "none", "ran"}

\* The shapes of the call's state between two of its steps.
TypeOK ==
  /\ phase \in Phases /\ answer \in Answers
  /\ reading \in {"nothing", "probe", "zero", "budget", "prefix", "body"}
  /\ buf \in Nat /\ ceiling \in Nat /\ (phase = "read" => buf <= ceiling + 1)
  /\ changes \in Nat /\ changes <= MaxChanges

\* However the file lies about its size, grows or is replaced, no read holds
\* more than one byte past the caller's budget, or past the backstop of a
\* call without one (read_bounded_into: "Never allocates more").
ReadIsBounded ==
  (call.source = "path" /\ reading \notin {"nothing", "probe"}) =>
    buf <= 1 + CASE call.max = NoLimit -> MAX_INPUT_READ
                 [] call.max = 0 -> SNIFF_PREFIX
                 [] call.max > 0 -> call.max

\* An engine never sees a document cut short: what it gets is everything the
\* file it was opened on held, of a regular file.
EngineSeesWholeDocument ==
  answer = "ran" => handle.type = "file" /\ buf = handle.size /\ call.max # 0

\* A lane that amplifies its input never gets more than its ceiling, whatever
\* the prefix made the read expect (the docs of max_bytes).
AmplifyingLanesBounded ==
  (answer = "ran" /\ Lane(call, resolve(call.format, handle.whole, Hint(call)), handle.ole)
                       # "pdf_oxide")
  => buf <= IF call.max = NoLimit THEN DEFAULT_LIMIT ELSE call.max

\* Both bounds of a read hold: the one it is made under, and the one of the lane
\* that the whole document goes to in the end.
InputIsBounded == ReadIsBounded /\ AmplifyingLanesBounded

Undisturbed == changes = 0 /\ path.type = "file"

\* On the surfaces that promise it, a format the prefix or the name decides
\* is refused for its capability ahead of every other refusal: the budget,
\* the password, the size (page_geometry: "ahead of every other refusal").
CapabilityRefusedFirst ==
  LET lane == Lane(call, resolve(call.format, path.head, Hint(call)), path.ole) IN
  (/\ phase = "answered" /\ Undisturbed /\ path.head = path.whole
   /\ call.surface # "convert" /\ lane \in Refusals)
  => answer = lane

\* A path= call serves exactly the documents the data= call serves: the gates
\* and the two-phase read change when a refusal comes, never which documents
\* run.  (Past the backstop only data= goes on, and a name that only the
\* path has may resolve what bytes alone cannot.)
PathServesWhatDataServes ==
  (/\ phase = "answered" /\ Undisturbed
   /\ call.source = "path" /\ path.stat = path.size /\ path.head = path.whole
   /\ path.size <= MAX_INPUT_READ \/ call.max > 0)
  => LET served == IF call.max > 0 /\ path.size > call.max THEN "ceiling"
                   ELSE Core(call, path.whole, path.ole, path.size)
     IN  \A good \in {"ran", "none"} : answer = good <=> served = good

\* Only a file replaced between the stat and the open can block the call.
BlocksOnlyInRace == phase = "stuck" => changes > 0
=============================================================================
