------------------------ MODULE DocumentIntake_proofs ------------------------
(* Theorems of DocumentIntake: for every set of calls and files, every size  *)
(* of the ceilings and any number of interferences, reads stay bounded, no   *)
(* engine sees a cut document or more than its lane's ceiling, only a race   *)
(* can block a call, capability refusals come first, and a path is served    *)
(* what its bytes are.                                                       *)
EXTENDS DocumentIntake, TLAPS

------------------------------------------------------------------------------
(* The refusal ladders of the core.                                          *)

Views == Kinds \cup {Unknown}

\* What a core may answer, and what it has checked before an engine runs.
Sound(c, kind, lane, n, a) ==
  /\ a \in Answers \ {"none yet"}
  /\ a = "ran" => /\ c.max # 0 /\ kind # Unknown
                  /\ lane \notin Refusals \cup {"none"}
                  /\ \/ n <= Limit(c) \/ lane = "pdf_oxide"
                     \/ c.surface = "geometry" /\ lane # "office_oxide"

\* The ceilings are numbers.
LEMMA LimitIsNat == ASSUME NEW c \in CallType PROVE Limit(c) \in Nat
BY SizesAssumption DEF Limit, CallType, NoLimit

\* The conversion core runs an engine only on what its ladder has checked.
LEMMA ConvertSound ==
  ASSUME NEW c \in CallType, NEW kind, NEW lane, NEW n \in Nat, lane # "none"
  PROVE  Sound(c, kind, lane, n, Convert(c, kind, lane, n))
<1>1. n <= Limit(c) \/ n > Limit(c)
  BY LimitIsNat
<1>2. Convert(c, kind, lane, n) \in Answers \ {"none yet"}
  BY DEF Convert, Answers, Refusals
<1> QED BY <1>1, <1>2 DEF Sound, Convert, Refusals

\* So does the geometry core.
LEMMA GeometrySound ==
  ASSUME NEW c \in CallType, NEW kind, NEW lane, NEW n \in Nat, c.surface = "geometry"
  PROVE  Sound(c, kind, lane, n, page_geometry(c, kind, lane, n))
<1>1. n <= Limit(c) \/ n > Limit(c)
  BY LimitIsNat
<1>2. page_geometry(c, kind, lane, n) \in Answers \ {"none yet"}
  BY DEF page_geometry, Answers, Refusals
<1> QED BY <1>1, <1>2 DEF Sound, page_geometry, Refusals

\* And the structure core.
LEMMA StructureSound ==
  ASSUME NEW c \in CallType, NEW kind, NEW lane, NEW n \in Nat, lane # "none"
  PROVE  Sound(c, kind, lane, n, document_structure(c, kind, lane, n))
<1>1. n <= Limit(c) \/ n > Limit(c)
  BY LimitIsNat
<1>2. document_structure(c, kind, lane, n) \in Answers \ {"none yet"}
  BY DEF document_structure, Answers, Refusals
<1> QED BY <1>1, <1>2 DEF Sound, document_structure, Refusals

\* A resolved format is a kind or unknown.
LEMMA Resolved ==
  ASSUME NEW c \in CallType, NEW sniffed \in Views
  PROVE  resolve(c.format, sniffed, Hint(c)) \in Views
BY DEF resolve, Hint, CallType, Views

\* Only the geometry table has a row without an engine.
LEMMA LaneOfTable ==
  ASSUME NEW c \in CallType, NEW kind \in Views, NEW ole
  PROVE  /\ c.surface # "geometry" => Lane(c, kind, ole) # "none"
         /\ c.surface = "geometry" /\ kind # Unknown =>
              Lane(c, kind, ole) \in {"none", "capability", "pdf_oxide", "office_oxide"}
BY DEF Lane, engine_for, geometry_engine, structure_engine, CallType, Views, Kinds,
       Office, NoGeometry, Surfaces, Backends, Unknown

\* Whatever the core is handed, it answers soundly.
LEMMA CoreSound ==
  ASSUME NEW c \in CallType, NEW sniffed \in Views, NEW ole, NEW n \in Nat
  PROVE  LET kind == resolve(c.format, sniffed, Hint(c))
         IN  Sound(c, kind, Lane(c, kind, ole), n, Core(c, sniffed, ole, n))
<1> DEFINE kind == resolve(c.format, sniffed, Hint(c))
           lane == Lane(c, kind, ole)
<1>1. kind \in Views
  BY Resolved
<1>2. c.surface \in Surfaces
  BY DEF CallType
<1>3. CASE c.surface = "convert"
  <2>1. lane # "none"
    BY <1>1, <1>3, LaneOfTable
  <2> QED BY <1>3, <2>1, ConvertSound DEF Core
<1>4. CASE c.surface = "geometry"
  BY <1>4, GeometrySound DEF Core
<1>5. CASE c.surface = "structure"
  <2>1. lane # "none"
    BY <1>1, <1>5, LaneOfTable
  <2> QED BY <1>5, <2>1, StructureSound DEF Core
<1> QED BY <1>2, <1>3, <1>4, <1>5 DEF Surfaces

------------------------------------------------------------------------------
(* The inductive invariant.                                                  *)

Typed ==
  /\ TypeOK
  /\ call \in CallType /\ path \in FileType /\ handle \in FileType
  /\ call.source = "data" => path.type = "file"
  /\ phase = "answered" <=> answer # "none yet"

\* Each read runs under the ceiling of its purpose, the purpose tells the
\* budget, and a read has no more than its file has.
Reads ==
  /\ phase = "read" =>
       /\ reading # "nothing" /\ buf <= handle.size
       /\ reading \in {"probe", "zero", "prefix"} => ceiling = SNIFF_PREFIX
       /\ reading = "budget" => ceiling = call.max
       /\ reading = "body" => ceiling \in {DEFAULT_LIMIT, MAX_INPUT_READ}
  /\ reading = "zero" => call.max = 0 /\ buf <= SNIFF_PREFIX + 1
  /\ reading \in {"prefix", "body"} => call.max = NoLimit /\ buf <= MAX_INPUT_READ + 1
  /\ reading = "budget" => call.max > 0 /\ buf <= call.max + 1
  /\ phase \in {"parse", "probe", "probe open", "stat", "open", "fstat", "admitted"} =>
       reading \in {"nothing", "probe"}
  /\ phase \in {"probe open", "stat", "open", "fstat", "admitted", "read"} =>
       call.source = "path"
  /\ phase = "copy" => call.source = "data"
  /\ call.source = "data" => reading = "nothing"

\* Past the fstat the handle is a regular file or a directory.
Admitted ==
  (phase = "admitted" \/ (phase = "read" /\ reading # "probe")) =>
    handle.type \in {"file", "dir"}

Whole == handle.type = "file" /\ buf = handle.size

\* The core gets the whole file, except from a zero budget and at the door.
AtCore ==
  phase = "core" => \/ Whole \/ call.max = 0
                    \/ call.surface = "geometry" /\ call.format \in NoGeometry

\* What an engine ran on.
Outcome == EngineSeesWholeDocument /\ AmplifyingLanesBounded

\* Undisturbed, only what may be opened is opened.
Races ==
  /\ phase = "stuck" => changes > 0
  /\ phase \in {"probe open", "open"} => path.type \in {"file", "dir"} \/ changes > 0

\* A call whose capability refusal is decided never leaves the probe.
Refused ==
  LET lane == Lane(call, resolve(call.format, path.head, Hint(call)), path.ole) IN
  (/\ Undisturbed /\ path.head = path.whole
   /\ call.surface # "convert" /\ lane \in Refusals)
  => \/ phase \in {"parse", "probe", "probe open"}
     \/ phase = "read" /\ reading = "probe" /\ handle = path
     \/ phase = "answered" /\ answer = lane

IInv == Typed /\ Reads /\ Admitted /\ AtCore /\ Outcome /\ Races /\ Refused

------------------------------------------------------------------------------
(* What the types say, field by field.                                       *)

\* A file's fields.
LEMMA FileFacts ==
  ASSUME NEW f \in FileType
  PROVE  /\ f.size \in Nat /\ f.stat \in Nat
         /\ f.trim \in Views /\ f.head \in Views /\ f.whole \in Views
BY DEF FileType, Views

\* A call's fields.
LEMMA CallFacts ==
  ASSUME NEW c \in CallType
  PROVE  /\ c.max \in Nat \cup {NoLimit} /\ c.surface \in Surfaces
         /\ c.source \in {"path", "data"} /\ c.backend \in Backends
BY DEF CallType

\* A file that grew by one byte.
LEMMA Grown ==
  ASSUME NEW f \in FileType
  PROVE  /\ [f EXCEPT !.size = @ + 1] \in FileType
         /\ [f EXCEPT !.size = @ + 1].size = f.size + 1
         /\ [f EXCEPT !.size = @ + 1].type = f.type
BY DEF FileType

Facts ==
  /\ path.size \in Nat /\ handle.size \in Nat
  /\ call.max \in Nat \/ call.max = -1
  /\ call.surface \in Surfaces /\ call.source \in {"path", "data"}
  /\ SNIFF_PREFIX \in Nat /\ DEFAULT_LIMIT \in Nat /\ MAX_INPUT_READ \in Nat
  /\ SNIFF_PREFIX < DEFAULT_LIMIT /\ DEFAULT_LIMIT <= MAX_INPUT_READ
  /\ CHUNK \in Nat /\ CHUNK > 0 /\ NoLimit = -1
  /\ MaxChanges \in Nat /\ changes \in Nat /\ changes <= MaxChanges
  /\ buf \in Nat /\ ceiling \in Nat /\ (phase = "read" => buf <= ceiling + 1)
  /\ phase \in Phases /\ answer \in Answers
  /\ reading \in {"nothing", "probe", "zero", "budget", "prefix", "body"}

\* What the proofs of the steps use of the types.
LEMMA TypedFacts == ASSUME Typed PROVE Facts
<1>1. path.size \in Nat /\ handle.size \in Nat
  BY FileFacts DEF Typed
<1>2. /\ call.max \in Nat \/ call.max = -1
      /\ call.surface \in Surfaces /\ call.source \in {"path", "data"}
  BY CallFacts DEF Typed, NoLimit
<1>3. SNIFF_PREFIX \in Nat /\ DEFAULT_LIMIT \in Nat /\ MAX_INPUT_READ \in Nat
      /\ CHUNK \in Nat /\ CHUNK # 0
  BY SizesAssumption
<1>4. TypeOK
  BY DEF Typed
<1>5. changes \in Nat /\ changes <= MaxChanges
  BY <1>4, MaxChangesAssumption DEF TypeOK
<1> QED BY <1>1, <1>2, <1>3, <1>4, <1>5, SizesAssumption, MaxChangesAssumption
        DEF Facts, NoLimit, TypeOK

\* The probe answers a lane's refusal or leaves the call to its source.
LEMMA ProbeSaysWhat ==
  ASSUME NEW sniffed, NEW ole, ProbeSays(sniffed, ole)
  PROVE  LET lane == Lane(call, resolve(call.format, sniffed, Hint(call)), ole) IN
         \/ phase' = "answered" /\ answer' = lane /\ lane \in Refusals
         \/ phase' = Source(call) /\ answer' = answer /\ lane \notin Refusals
BY DEF ProbeSays, Answer, Go

\* Outside conversion, only calls that are probed can meet a capability refusal.
LEMMA RefusalsAreProbed ==
  ASSUME NEW c \in CallType, NEW kind \in Views, NEW ole,
         c.surface # "convert", Lane(c, kind, ole) \in Refusals
  PROVE  Probes(c)
<1>1. c.surface \in Surfaces /\ c.backend \in Backends
  BY DEF CallType
<1>2. CASE c.surface = "geometry" /\ c.backend # "anydoc"
  <2>1. kind = Unknown \/ kind \in NoGeometry \/ kind = "pdf" \/ kind \in Office
    BY DEF Views, Kinds
  <2> QED BY <1>2, <2>1 DEF Lane, geometry_engine, Refusals, Office, NoGeometry, Unknown
<1> QED BY <1>1, <1>2 DEF Probes, Surfaces

\* One view of an honest file is as good as another.
LEMMA SniffedHonest ==
  ASSUME NEW f, NEW n, f.head = f.whole
  PROVE  Sniffed(f, n) = f.head
BY DEF Sniffed

\* What the end of a read does, by its purpose.
LEMMA AfterReadDoes ==
  ASSUME NEW over \in BOOLEAN, AfterRead(over)
  PROVE  \/ /\ reading = "probe" /\ buf' = 0 /\ UNCHANGED <<reading, ceiling>>
            /\ ProbeSays(Sniffed(handle, buf), handle.ole)
         \/ reading = "zero" /\ phase' = "core" /\ UNCHANGED <<answer, reading, ceiling, buf>>
         \/ /\ reading = "prefix" /\ phase' = "read" /\ reading' = "body"
            /\ ceiling' \in {DEFAULT_LIMIT, MAX_INPUT_READ} /\ UNCHANGED <<answer, buf>>
         \/ /\ reading \in {"budget", "body"} /\ UNCHANGED <<reading, ceiling, buf>>
            /\ \/ over /\ phase' = "answered" /\ answer' = "ceiling"
               \/ ~over /\ phase' = "core" /\ UNCHANGED answer
<1>1. provisional_ceiling(call, handle, buf) \in {DEFAULT_LIMIT, MAX_INPUT_READ}
  BY DEF provisional_ceiling
<1>2. CASE reading = "prefix"
  BY <1>1, <1>2 DEF AfterRead, Read
<1>3. CASE reading # "prefix"
  BY <1>3 DEF AfterRead, Go, Refuse, Answer
<1> QED BY <1>2, <1>3

\* A failed read ends the call, or leaves the probe without an answer.
LEMMA FailedReadDoes ==
  ASSUME NEW why, FailedRead(why)
  PROVE  /\ phase = "read" /\ buf' = 0 /\ UNCHANGED <<call, path, handle, reading, ceiling>>
         /\ \/ reading = "probe" /\ phase' = Source(call) /\ UNCHANGED answer
            \/ reading # "probe" /\ phase' = "answered" /\ answer' = why
BY DEF FailedRead, Go, Answer

\* Behind the no-read door there is no engine.
LEMMA DoorRunsNothing ==
  ASSUME NEW c, NEW sniffed, NEW ole, c.surface = "geometry", c.format \in NoGeometry
  PROVE  Lane(c, resolve(c.format, sniffed, Hint(c)), ole) = "none"
<1>1. c.format \in Kinds /\ c.format # Unnamed /\ c.format # Unknown
  BY DEF NoGeometry, Kinds, Unnamed, Unknown
<1>2. resolve(c.format, sniffed, Hint(c)) = c.format
  BY <1>1 DEF resolve
<1>3. c.format # "pdf" /\ c.format \notin Office
  BY DEF NoGeometry, Office
<1>4. geometry_engine(c.format, c.backend) = "none"
  BY <1>3 DEF geometry_engine
<1> QED BY <1>1, <1>2, <1>4 DEF Lane

------------------------------------------------------------------------------
(* Each step keeps the invariant.                                            *)

\* The argument checks.
LEMMA ParseKeeps == ASSUME IInv, Parse PROVE IInv'
<1>0. Facts
  BY TypedFacts DEF IInv
<1>1. TypeOK'
  BY <1>0 DEF IInv, Facts, Parse, Answer, Go, Source, TypeOK, Phases, Answers, Refusals
<1>2. Typed'
  BY <1>0, <1>1 DEF IInv, Facts, Parse, Answer, Go, Source, Typed, Refusals
<1>3. Reads'
  BY <1>0 DEF IInv, Facts, Parse, Answer, Go, Source, Reads
<1>4. Admitted'
  BY <1>0 DEF IInv, Facts, Parse, Answer, Go, Source, Admitted
<1>5. AtCore'
  BY <1>0 DEF IInv, Facts, Parse, Answer, Go, Source, Typed, AtCore, Whole, Reads, Admitted
<1>6. Outcome'
  BY <1>0 DEF IInv, Facts, Parse, Answer, Go, Source, Typed, Outcome, EngineSeesWholeDocument, AmplifyingLanesBounded, Refusals
<1>7. Races'
  BY <1>0 DEF IInv, Facts, Parse, Answer, Go, Source, Races
<1>8. Refused'
  <2> DEFINE lane == Lane(call, resolve(call.format, path.head, Hint(call)), path.ole)
  <2>1. UNCHANGED <<call, path, handle, reading, changes>>
    BY DEF Parse
  <2>2. SUFFICES ASSUME call.surface # "convert", lane \in Refusals PROVE phase' = "probe"
    BY <2>1 DEF Refused, Undisturbed
  <2>3. Probes(call)
    BY <2>2, RefusalsAreProbed, Resolved, FileFacts DEF IInv, Typed
  <2> QED BY <2>2, <2>3 DEF Parse, Go
<1> QED BY <1>2, <1>3, <1>4, <1>5, <1>6, <1>7, <1>8 DEF IInv

\* The capability probe.
LEMMA ProbeKeeps == ASSUME IInv, Probe PROVE IInv'
<1>0. Facts
  BY TypedFacts DEF IInv
<1>1. TypeOK'
  BY <1>0, ProbeSaysWhat DEF IInv, Facts, Probe, Answer, Go, Source, TypeOK, Phases, Answers, Refusals
<1>2. Typed'
  BY <1>0, ProbeSaysWhat, <1>1 DEF IInv, Facts, Probe, Answer, Go, Source, Typed, Refusals
<1>3. Reads'
  BY <1>0, ProbeSaysWhat DEF IInv, Facts, Probe, Answer, Go, Source, Reads
<1>4. Admitted'
  BY <1>0, ProbeSaysWhat DEF IInv, Facts, Probe, Answer, Go, Source, Admitted
<1>5. AtCore'
  BY <1>0, ProbeSaysWhat DEF IInv, Facts, Probe, Answer, Go, Source, Typed, AtCore, Whole, Reads, Admitted
<1>6. Outcome'
  BY <1>0, ProbeSaysWhat DEF IInv, Facts, Probe, Answer, Go, Source, Typed, Outcome, EngineSeesWholeDocument, AmplifyingLanesBounded, Refusals
<1>7. Races'
  BY <1>0, ProbeSaysWhat DEF IInv, Facts, Probe, Answer, Go, Source, Races
<1>8. Refused'
  <2> DEFINE lane == Lane(call, resolve(call.format, path.head, Hint(call)), path.ole)
  <2>1. UNCHANGED <<call, path, handle, reading, changes>>
    BY DEF Probe
  <2>2. SUFFICES ASSUME path.type = "file", path.head = path.whole, lane \in Refusals
        PROVE  phase' = "probe open" \/ (phase' = "answered" /\ answer' = lane)
    BY <2>1 DEF Refused, Undisturbed
  <2>3. CASE name_decides_probe(call) \/ call.source = "data"
    <3>1. ProbeSays(path.head, path.ole)
      BY <2>2, <2>3, SniffedHonest DEF Probe
    <3> QED BY <2>2, <3>1, ProbeSaysWhat
  <2>4. CASE ~(name_decides_probe(call) \/ call.source = "data")
    BY <2>2, <2>4 DEF Probe, Go
  <2> QED BY <2>3, <2>4
<1> QED BY <1>2, <1>3, <1>4, <1>5, <1>6, <1>7, <1>8 DEF IInv

\* The probe opens the file.
LEMMA ProbeOpenKeeps == ASSUME IInv, ProbeOpen PROVE IInv'
<1>0. Facts
  BY TypedFacts DEF IInv
<1>e. /\ phase = "probe open" /\ handle' = path /\ UNCHANGED <<call, path, changes>>
      /\ \/ phase' = "stuck" /\ path.type = "fifo" /\ UNCHANGED <<answer, reading, ceiling, buf>>
         \/ phase' = Source(call) /\ path.type = "missing"
              /\ UNCHANGED <<answer, reading, ceiling, buf>>
         \/ /\ phase' = "read" /\ reading' = "probe" /\ ceiling' = SNIFF_PREFIX /\ buf' = 0
            /\ UNCHANGED answer
  BY DEF ProbeOpen, Go, Read, Blocks
<1>1. TypeOK'
  <2>1. phase' \in {"stuck", "stat", "copy", "read"}
    BY <1>e DEF Source
  <2>2. phase' = "read" => buf' = 0 /\ ceiling' = SNIFF_PREFIX
    BY <1>e DEF Source
  <2>3. answer' = answer /\ changes' = changes /\ (reading' = reading \/ reading' = "probe")
    BY <1>e
  <2>4. (ceiling' = ceiling \/ ceiling' = SNIFF_PREFIX) /\ (buf' = buf \/ buf' = 0)
    BY <1>e
  <2>5. ceiling' \in Nat /\ buf' \in Nat
    BY <1>0, <2>4 DEF Facts
  <2>6. phase' = "read" => buf' <= ceiling' + 1
    BY <1>0, <2>2 DEF Facts
  <2> QED BY <1>0, <2>1, <2>3, <2>5, <2>6 DEF Facts, TypeOK, Phases
<1>2. Typed'
  BY <1>0, <1>1 DEF IInv, Facts, ProbeOpen, Answer, Go, Source, Read, Blocks, Typed, Refusals
<1>3. Reads'
  <2>1. Reads /\ phase = "probe open"
    BY <1>e DEF IInv
  <2>2. call.source = "path" /\ reading \in {"nothing", "probe"}
    BY <2>1 DEF Reads
  <2>3. Source(call) = "stat"
    BY <2>2 DEF Source
  <2>4. path.size \in Nat
    BY <1>0 DEF Facts
  <2>5. reading' \in {"nothing", "probe"} /\ call' = call
    BY <1>e, <2>2
  <2>6. phase' \in {"stuck", "stat", "read"}
    BY <1>e, <2>3
  <2>7. phase' = "read" => reading' = "probe" /\ ceiling' = SNIFF_PREFIX /\ buf' = 0
    BY <1>e, <2>3
  <2>8. handle'.size \in Nat
    BY <1>e, <2>4
  <2>9. phase' = "read" => buf' <= handle'.size
    BY <2>7, <2>8
  <2> QED BY <2>2, <2>5, <2>6, <2>7, <2>9 DEF Reads
<1>4. Admitted'
  BY <1>0 DEF IInv, Facts, ProbeOpen, Answer, Go, Source, Read, Blocks, Admitted
<1>5. AtCore'
  BY <1>0 DEF IInv, Facts, ProbeOpen, Answer, Go, Source, Read, Blocks, Typed, AtCore, Whole, Reads, Admitted
<1>6. Outcome'
  BY <1>0 DEF IInv, Facts, ProbeOpen, Answer, Go, Source, Read, Blocks, Typed, Outcome, EngineSeesWholeDocument, AmplifyingLanesBounded, Refusals
<1>7. Races'
  BY <1>0 DEF IInv, Facts, ProbeOpen, Answer, Go, Source, Read, Blocks, Races
<1>8. Refused'
  BY <1>0 DEF IInv, Facts, ProbeOpen, Answer, Go, Source, Read, Blocks, Refused, Undisturbed
<1> QED BY <1>2, <1>3, <1>4, <1>5, <1>6, <1>7, <1>8 DEF IInv

\* The gates of the stat.
LEMMA StatKeeps == ASSUME IInv, Stat PROVE IInv'
<1>0. Facts
  BY TypedFacts DEF IInv
<1>1. TypeOK'
  BY <1>0 DEF IInv, Facts, Stat, Gates, Answer, Go, refuse_non_regular, refuse_over_ceiling, TypeOK, Phases, Answers, Refusals
<1>2. Typed'
  BY <1>0, <1>1 DEF IInv, Facts, Stat, Gates, Answer, Go, refuse_non_regular, refuse_over_ceiling, Typed, Refusals
<1>3. Reads'
  BY <1>0 DEF IInv, Facts, Stat, Gates, Answer, Go, refuse_non_regular, refuse_over_ceiling, Reads
<1>4. Admitted'
  BY <1>0 DEF IInv, Facts, Stat, Gates, Answer, Go, refuse_non_regular, refuse_over_ceiling, Admitted
<1>5. AtCore'
  BY <1>0 DEF IInv, Facts, Stat, Gates, Answer, Go, refuse_non_regular, refuse_over_ceiling, Typed, AtCore, Whole, Reads, Admitted
<1>6. Outcome'
  BY <1>0 DEF IInv, Facts, Stat, Gates, Answer, Go, refuse_non_regular, refuse_over_ceiling, Typed, Outcome, EngineSeesWholeDocument, AmplifyingLanesBounded, Refusals
<1>7. Races'
  BY <1>0 DEF IInv, Facts, Stat, Gates, Answer, Go, refuse_non_regular, refuse_over_ceiling, Races
<1>8. Refused'
  BY <1>0 DEF IInv, Facts, Stat, Gates, Answer, Go, refuse_non_regular, refuse_over_ceiling, Refused, Undisturbed
<1> QED BY <1>2, <1>3, <1>4, <1>5, <1>6, <1>7, <1>8 DEF IInv

\* The open.
LEMMA OpenKeeps == ASSUME IInv, Open PROVE IInv'
<1>0. Facts
  BY TypedFacts DEF IInv
<1>1. TypeOK'
  BY <1>0 DEF IInv, Facts, Open, Answer, Go, Blocks, TypeOK, Phases, Answers, Refusals
<1>2. Typed'
  BY <1>0, <1>1 DEF IInv, Facts, Open, Answer, Go, Blocks, Typed, Refusals
<1>3. Reads'
  BY <1>0 DEF IInv, Facts, Open, Answer, Go, Blocks, Reads
<1>4. Admitted'
  BY <1>0 DEF IInv, Facts, Open, Answer, Go, Blocks, Admitted
<1>5. AtCore'
  BY <1>0 DEF IInv, Facts, Open, Answer, Go, Blocks, Typed, AtCore, Whole, Reads, Admitted
<1>6. Outcome'
  BY <1>0 DEF IInv, Facts, Open, Answer, Go, Blocks, Typed, Outcome, EngineSeesWholeDocument, AmplifyingLanesBounded, Refusals
<1>7. Races'
  BY <1>0 DEF IInv, Facts, Open, Answer, Go, Blocks, Races
<1>8. Refused'
  BY <1>0 DEF IInv, Facts, Open, Answer, Go, Blocks, Refused, Undisturbed
<1> QED BY <1>2, <1>3, <1>4, <1>5, <1>6, <1>7, <1>8 DEF IInv

\* The gates of the fstat.
LEMMA FstatKeeps == ASSUME IInv, Fstat PROVE IInv'
<1>0. Facts
  BY TypedFacts DEF IInv
<1>1. TypeOK'
  BY <1>0 DEF IInv, Facts, Fstat, Gates, Answer, Go, refuse_non_regular, refuse_over_ceiling, TypeOK, Phases, Answers, Refusals
<1>2. Typed'
  BY <1>0, <1>1 DEF IInv, Facts, Fstat, Gates, Answer, Go, refuse_non_regular, refuse_over_ceiling, Typed, Refusals
<1>3. Reads'
  BY <1>0 DEF IInv, Facts, Fstat, Gates, Answer, Go, refuse_non_regular, refuse_over_ceiling, Reads
<1>4. Admitted'
  BY <1>0 DEF IInv, Facts, Fstat, Gates, Answer, Go, refuse_non_regular, refuse_over_ceiling, Admitted
<1>5. AtCore'
  BY <1>0 DEF IInv, Facts, Fstat, Gates, Answer, Go, refuse_non_regular, refuse_over_ceiling, Typed, AtCore, Whole, Reads, Admitted
<1>6. Outcome'
  BY <1>0 DEF IInv, Facts, Fstat, Gates, Answer, Go, refuse_non_regular, refuse_over_ceiling, Typed, Outcome, EngineSeesWholeDocument, AmplifyingLanesBounded, Refusals
<1>7. Races'
  BY <1>0 DEF IInv, Facts, Fstat, Gates, Answer, Go, refuse_non_regular, refuse_over_ceiling, Races
<1>8. Refused'
  BY <1>0 DEF IInv, Facts, Fstat, Gates, Answer, Go, refuse_non_regular, refuse_over_ceiling, Refused, Undisturbed
<1> QED BY <1>2, <1>3, <1>4, <1>5, <1>6, <1>7, <1>8 DEF IInv

\* The no-read door.
LEMMA AtDoorKeeps == ASSUME IInv, AtDoor PROVE IInv'
<1>0. Facts
  BY TypedFacts DEF IInv
<1>1. TypeOK'
  BY <1>0 DEF IInv, Facts, AtDoor, Go, Door, TypeOK, Phases, Answers, Refusals
<1>2. Typed'
  BY <1>0, <1>1 DEF IInv, Facts, AtDoor, Go, Door, Typed, Refusals
<1>3. Reads'
  BY <1>0 DEF IInv, Facts, AtDoor, Go, Door, Reads
<1>4. Admitted'
  BY <1>0 DEF IInv, Facts, AtDoor, Go, Door, Admitted
<1>5. AtCore'
  BY <1>0 DEF IInv, Facts, AtDoor, Go, Door, Typed, AtCore, Whole, Reads, Admitted
<1>6. Outcome'
  BY <1>0 DEF IInv, Facts, AtDoor, Go, Door, Typed, Outcome, EngineSeesWholeDocument, AmplifyingLanesBounded, Refusals
<1>7. Races'
  BY <1>0 DEF IInv, Facts, AtDoor, Go, Door, Races
<1>8. Refused'
  BY <1>0 DEF IInv, Facts, AtDoor, Go, Door, Refused, Undisturbed
<1> QED BY <1>2, <1>3, <1>4, <1>5, <1>6, <1>7, <1>8 DEF IInv

\* The first phase of the read.
LEMMA StartReadKeeps == ASSUME IInv, StartRead PROVE IInv'
<1>0. Facts
  BY TypedFacts DEF IInv
<1>e. /\ phase = "admitted" /\ phase' = "read" /\ buf' = 0
      /\ UNCHANGED <<call, path, handle, answer, changes>>
      /\ \/ call.max = -1 /\ reading' = "prefix" /\ ceiling' = SNIFF_PREFIX
         \/ call.max = 0 /\ reading' = "zero" /\ ceiling' = SNIFF_PREFIX
         \/ call.max > 0 /\ reading' = "budget" /\ ceiling' = call.max
  BY <1>0 DEF StartRead, Read, Facts
<1>1. TypeOK'
  BY <1>0, <1>e DEF Facts, TypeOK, Phases
<1>2. Typed'
  BY <1>0, <1>1 DEF IInv, Facts, StartRead, Read, Door, Typed, Refusals
<1>3. Reads'
  <2>1. call.source = "path"
    BY <1>e DEF IInv, Reads
  <2> QED BY <1>0, <1>e, <2>1 DEF Reads, Facts
<1>4. Admitted'
  BY <1>0 DEF IInv, Facts, StartRead, Read, Door, Admitted
<1>5. AtCore'
  BY <1>0 DEF IInv, Facts, StartRead, Read, Door, Typed, AtCore, Whole, Reads, Admitted
<1>6. Outcome'
  BY <1>0 DEF IInv, Facts, StartRead, Read, Door, Typed, Outcome, EngineSeesWholeDocument, AmplifyingLanesBounded, Refusals
<1>7. Races'
  BY <1>0 DEF IInv, Facts, StartRead, Read, Door, Races
<1>8. Refused'
  BY <1>0 DEF IInv, Facts, StartRead, Read, Door, Refused, Undisturbed
<1> QED BY <1>2, <1>3, <1>4, <1>5, <1>6, <1>7, <1>8 DEF IInv

\* One system read.
LEMMA ReadSomeKeeps == ASSUME IInv, ReadSome PROVE IInv'
<1>0. Facts
  BY TypedFacts DEF IInv
<1>e. PICK n \in 1..Want(ceiling, buf) : buf + n <= handle.size /\ buf' = buf + n
  BY DEF ReadSome
<1>w. n \in Nat /\ n <= ceiling + 1 - buf
  BY <1>0, <1>e DEF Facts, Want, ReadSome
<1>u. phase = "read" /\ UNCHANGED <<call, path, handle, phase, reading, ceiling, answer, changes>>
  BY DEF ReadSome
<1>1. TypeOK'
  BY <1>0, <1>e, <1>w, <1>u DEF Facts, TypeOK
<1>2. Typed'
  BY <1>0, <1>1 DEF IInv, Facts, ReadSome, Want, Typed, Refusals
<1>3. Reads'
  BY <1>0, <1>e, <1>w, <1>u DEF IInv, Reads, Facts
<1>4. Admitted'
  BY <1>0 DEF IInv, Facts, ReadSome, Want, Admitted
<1>5. AtCore'
  BY <1>0 DEF IInv, Facts, ReadSome, Want, Typed, AtCore, Whole, Reads, Admitted
<1>6. Outcome'
  BY <1>0 DEF IInv, Facts, ReadSome, Want, Typed, Outcome, EngineSeesWholeDocument, AmplifyingLanesBounded, Refusals
<1>7. Races'
  BY <1>0 DEF IInv, Facts, ReadSome, Want, Races
<1>8. Refused'
  BY <1>0 DEF IInv, Facts, ReadSome, Want, Refused, Undisturbed
<1> QED BY <1>2, <1>3, <1>4, <1>5, <1>6, <1>7, <1>8 DEF IInv

\* A read that went past its ceiling.
LEMMA ReadOverKeeps == ASSUME IInv, ReadOver PROVE IInv'
<1>0. Facts
  BY TypedFacts DEF IInv
<1>e. AfterRead(TRUE) /\ phase = "read" /\ UNCHANGED <<call, path, handle, changes>>
  BY DEF ReadOver
<1>d. call.source = "path" /\ handle.type # "dir"
  BY <1>e DEF IInv, Reads, ReadOver
<1>s. ASSUME reading = "probe"
      PROVE  /\ \/ phase' = "answered" /\ answer' \in Refusals
                \/ phase' = "stat" /\ UNCHANGED answer
             /\ buf' = 0 /\ UNCHANGED <<reading, ceiling>>
  <2>1. /\ buf' = 0 /\ UNCHANGED <<reading, ceiling>>
        /\ ProbeSays(Sniffed(handle, buf), handle.ole)
    BY <1>e, <1>s, AfterReadDoes
  <2> QED BY <1>d, <2>1, ProbeSaysWhat DEF Source
<1>a. \/ /\ reading = "probe" /\ buf' = 0 /\ UNCHANGED <<reading, ceiling>>
         /\ phase' \in {"answered", "stat"} /\ answer' \in Refusals \cup {answer}
      \/ reading = "zero" /\ phase' = "core" /\ UNCHANGED <<answer, reading, ceiling, buf>>
      \/ /\ reading = "prefix" /\ phase' = "read" /\ reading' = "body"
         /\ ceiling' \in {DEFAULT_LIMIT, MAX_INPUT_READ} /\ UNCHANGED <<answer, buf>>
      \/ /\ reading \in {"budget", "body"} /\ UNCHANGED <<reading, ceiling, buf>>
         /\ \/ phase' = "answered" /\ answer' = "ceiling"
            \/ ~TRUE /\ phase' = "core" /\ UNCHANGED answer
  BY <1>e, <1>s, AfterReadDoes
<1>1. TypeOK'
  <2>1. phase' = "read" => buf' <= ceiling' + 1
    <3>1. phase' = "read" => /\ buf <= ceiling + 1 /\ ceiling = SNIFF_PREFIX
                             /\ ceiling' \in {DEFAULT_LIMIT, MAX_INPUT_READ} /\ buf' = buf
      BY <1>0, <1>a, <1>e DEF IInv, Reads, Facts
    <3> QED BY <1>0, <3>1 DEF Facts
  <2>2. ceiling' \in Nat /\ buf' \in Nat
    BY <1>0, <1>a DEF Facts
  <2>3. answer' \in Answers /\ changes' = changes
        /\ phase' \in {"answered", "stat", "core", "read"}
        /\ reading' \in {"nothing", "probe", "zero", "budget", "prefix", "body"}
    BY <1>0, <1>a, <1>e DEF Facts, Answers
  <2> QED BY <1>0, <2>1, <2>2, <2>3 DEF Facts, TypeOK, Phases
<1>2. Typed'
  BY <1>0, <1>1, <1>e, <1>s, AfterReadDoes DEF IInv, Typed, Refusals
<1>3. Reads'
  BY <1>0, <1>e, <1>s, <1>d, AfterReadDoes DEF IInv, Reads, Facts
<1>4. Admitted'
  BY <1>0, <1>e, <1>s, <1>d, AfterReadDoes DEF IInv, Admitted
<1>5. AtCore'
  BY <1>a, <1>e DEF IInv, AtCore, Reads
<1>6. Outcome'
  BY <1>0, <1>e, <1>s, AfterReadDoes DEF IInv, Typed, Outcome, EngineSeesWholeDocument, AmplifyingLanesBounded, Refusals
<1>7. Races'
  BY <1>0, <1>e, <1>s, AfterReadDoes DEF IInv, Races
<1>8. Refused'
  <2> DEFINE lane == Lane(call, resolve(call.format, path.head, Hint(call)), path.ole)
  <2>1. SUFFICES ASSUME Undisturbed, path.head = path.whole, call.surface # "convert",
                        lane \in Refusals
        PROVE  phase' = "answered" /\ answer' = lane
    BY <1>e DEF Refused, Undisturbed
  <2>2. reading = "probe" /\ handle = path
    BY <1>e, <2>1 DEF IInv, Refused
  <2>3. ProbeSays(path.head, path.ole)
    BY <1>e, <2>1, <2>2, AfterReadDoes, SniffedHonest
  <2> QED BY <2>1, <2>3, ProbeSaysWhat
<1> QED BY <1>2, <1>3, <1>4, <1>5, <1>6, <1>7, <1>8 DEF IInv

\* A read that met the end of the file.
LEMMA ReadEndsKeeps == ASSUME IInv, ReadEnds PROVE IInv'
<1>0. Facts
  BY TypedFacts DEF IInv
<1>e. AfterRead(FALSE) /\ phase = "read" /\ UNCHANGED <<call, path, handle, changes>>
  BY DEF ReadEnds
<1>d. call.source = "path" /\ handle.type # "dir"
  BY <1>e DEF IInv, Reads, ReadEnds
<1>s. ASSUME reading = "probe"
      PROVE  /\ \/ phase' = "answered" /\ answer' \in Refusals
                \/ phase' = "stat" /\ UNCHANGED answer
             /\ buf' = 0 /\ UNCHANGED <<reading, ceiling>>
  <2>1. /\ buf' = 0 /\ UNCHANGED <<reading, ceiling>>
        /\ ProbeSays(Sniffed(handle, buf), handle.ole)
    BY <1>e, <1>s, AfterReadDoes
  <2> QED BY <1>d, <2>1, ProbeSaysWhat DEF Source
<1>a. \/ /\ reading = "probe" /\ buf' = 0 /\ UNCHANGED <<reading, ceiling>>
         /\ phase' \in {"answered", "stat"} /\ answer' \in Refusals \cup {answer}
      \/ reading = "zero" /\ phase' = "core" /\ UNCHANGED <<answer, reading, ceiling, buf>>
      \/ /\ reading = "prefix" /\ phase' = "read" /\ reading' = "body"
         /\ ceiling' \in {DEFAULT_LIMIT, MAX_INPUT_READ} /\ UNCHANGED <<answer, buf>>
      \/ /\ reading \in {"budget", "body"} /\ UNCHANGED <<reading, ceiling, buf>>
         /\ \/ phase' = "answered" /\ answer' = "ceiling"
            \/ ~FALSE /\ phase' = "core" /\ UNCHANGED answer
  BY <1>e, <1>s, AfterReadDoes
<1>1. TypeOK'
  <2>1. phase' = "read" => buf' <= ceiling' + 1
    <3>1. phase' = "read" => /\ buf <= ceiling + 1 /\ ceiling = SNIFF_PREFIX
                             /\ ceiling' \in {DEFAULT_LIMIT, MAX_INPUT_READ} /\ buf' = buf
      BY <1>0, <1>a, <1>e DEF IInv, Reads, Facts
    <3> QED BY <1>0, <3>1 DEF Facts
  <2>2. ceiling' \in Nat /\ buf' \in Nat
    BY <1>0, <1>a DEF Facts
  <2>3. answer' \in Answers /\ changes' = changes
        /\ phase' \in {"answered", "stat", "core", "read"}
        /\ reading' \in {"nothing", "probe", "zero", "budget", "prefix", "body"}
    BY <1>0, <1>a, <1>e DEF Facts, Answers
  <2> QED BY <1>0, <2>1, <2>2, <2>3 DEF Facts, TypeOK, Phases
<1>2. Typed'
  BY <1>0, <1>1, <1>e, <1>s, AfterReadDoes DEF IInv, Typed, Refusals
<1>3. Reads'
  BY <1>0, <1>e, <1>s, <1>d, AfterReadDoes DEF IInv, Reads, Facts
<1>4. Admitted'
  BY <1>0, <1>e, <1>s, <1>d, AfterReadDoes DEF IInv, Admitted
<1>5. AtCore'
  <2>1. reading = "zero" => call.max = 0
    BY DEF IInv, Reads
  <2>2. reading \in {"budget", "body"} => Whole
    BY <1>d, <1>e DEF IInv, Admitted, Whole, ReadEnds
  <2> QED BY <1>a, <1>e, <2>1, <2>2 DEF AtCore, Whole
<1>6. Outcome'
  BY <1>0, <1>e, <1>s, AfterReadDoes DEF IInv, Typed, Outcome, EngineSeesWholeDocument, AmplifyingLanesBounded, Refusals
<1>7. Races'
  BY <1>0, <1>e, <1>s, AfterReadDoes DEF IInv, Races
<1>8. Refused'
  <2> DEFINE lane == Lane(call, resolve(call.format, path.head, Hint(call)), path.ole)
  <2>1. SUFFICES ASSUME Undisturbed, path.head = path.whole, call.surface # "convert",
                        lane \in Refusals
        PROVE  phase' = "answered" /\ answer' = lane
    BY <1>e DEF Refused, Undisturbed
  <2>2. reading = "probe" /\ handle = path
    BY <1>e, <2>1 DEF IInv, Refused
  <2>3. ProbeSays(path.head, path.ole)
    BY <1>e, <2>1, <2>2, AfterReadDoes, SniffedHonest
  <2> QED BY <2>1, <2>3, ProbeSaysWhat
<1> QED BY <1>2, <1>3, <1>4, <1>5, <1>6, <1>7, <1>8 DEF IInv

\* Reading a directory fails.
LEMMA ReadDirectoryKeeps == ASSUME IInv, ReadDirectory PROVE IInv'
<1>0. Facts
  BY TypedFacts DEF IInv
<1>e. FailedRead("io")
  BY DEF ReadDirectory
<1>c. UNCHANGED changes
  BY DEF ReadDirectory
<1>f. /\ phase = "read" /\ buf' = 0 /\ UNCHANGED <<call, path, handle, reading, ceiling>>
      /\ call.source = "path"
  BY <1>e, FailedReadDoes DEF IInv, Reads
<1>d. \/ reading = "probe" /\ phase' = "stat" /\ UNCHANGED answer
      \/ reading # "probe" /\ phase' = "answered" /\ answer' \in {"io", "memory"}
  BY <1>e, <1>f, FailedReadDoes DEF Source
<1>1. TypeOK'
  BY <1>0, <1>c, <1>d, <1>f DEF Facts, TypeOK, Phases, Answers
<1>2. Typed'
  BY <1>1, <1>d, <1>f DEF IInv, Typed
<1>3. Reads'
  <2>1. Reads
    BY DEF IInv
  <2>2. SNIFF_PREFIX \in Nat /\ MAX_INPUT_READ \in Nat
    BY <1>0 DEF Facts
  <2>3. call.max > 0 => 0 <= call.max + 1
    BY <1>0 DEF Facts
  <2>4. phase' \in {"answered", "stat"} /\ (phase' = "stat" => reading' = "probe")
    BY <1>d, <1>f
  <2>5. reading' = "zero" => call'.max = 0 /\ buf' <= SNIFF_PREFIX + 1
    BY <1>f, <2>1, <2>2 DEF Reads
  <2>6. reading' \in {"prefix", "body"} => call'.max = NoLimit /\ buf' <= MAX_INPUT_READ + 1
    BY <1>f, <2>1, <2>2 DEF Reads
  <2>7. reading' = "budget" => call'.max > 0 /\ buf' <= call'.max + 1
    BY <1>f, <2>1, <2>3 DEF Reads
  <2> QED BY <1>f, <2>1, <2>4, <2>5, <2>6, <2>7 DEF Reads
<1>4. Admitted'
  BY <1>d DEF Admitted
<1>5. AtCore'
  BY <1>d DEF AtCore
<1>6. Outcome'
  BY <1>d, <1>f DEF IInv, Typed, Outcome, EngineSeesWholeDocument, AmplifyingLanesBounded
<1>7. Races'
  BY <1>c, <1>d, <1>f DEF IInv, Races
<1>8. Refused'
  BY <1>c, <1>d, <1>f DEF IInv, Refused, Undisturbed, ReadDirectory
<1> QED BY <1>2, <1>3, <1>4, <1>5, <1>6, <1>7, <1>8 DEF IInv

\* The copy of a data= call.
LEMMA CopyKeeps == ASSUME IInv, Copy PROVE IInv'
<1>0. Facts
  BY TypedFacts DEF IInv
<1>1. TypeOK'
  BY <1>0 DEF IInv, Facts, Copy, Answer, Go, TypeOK, Phases, Answers, Refusals
<1>2. Typed'
  BY <1>0, <1>1 DEF IInv, Facts, Copy, Answer, Go, Typed, Refusals
<1>3. Reads'
  BY <1>0 DEF IInv, Facts, Copy, Answer, Go, Reads
<1>4. Admitted'
  BY <1>0 DEF IInv, Facts, Copy, Answer, Go, Admitted
<1>5. AtCore'
  BY <1>0 DEF IInv, Facts, Copy, Answer, Go, Typed, AtCore, Whole, Reads, Admitted
<1>6. Outcome'
  BY <1>0 DEF IInv, Facts, Copy, Answer, Go, Typed, Outcome, EngineSeesWholeDocument, AmplifyingLanesBounded, Refusals
<1>7. Races'
  BY <1>0 DEF IInv, Facts, Copy, Answer, Go, Races
<1>8. Refused'
  BY <1>0 DEF IInv, Facts, Copy, Answer, Go, Refused, Undisturbed
<1> QED BY <1>2, <1>3, <1>4, <1>5, <1>6, <1>7, <1>8 DEF IInv

\* The core, and an engine if nothing refuses.
LEMMA RunCoreKeeps == ASSUME IInv, RunCore PROVE IInv'
<1>0. Facts
  BY TypedFacts DEF IInv
<1> DEFINE sniffed == Sniffed(handle, buf)
           kind == resolve(call.format, sniffed, Hint(call))
           lane == Lane(call, kind, handle.ole)
<1>e. /\ phase = "core" /\ phase' = "answered" /\ answer' = Core(call, sniffed, handle.ole, buf)
      /\ UNCHANGED <<call, path, handle, reading, ceiling, buf, changes>>
  BY DEF RunCore, Answer
<1>s. Sound(call, kind, lane, buf, answer')
  <2>1. sniffed \in Views
    BY FileFacts DEF Sniffed, IInv, Typed
  <2> QED BY <1>0, <1>e, <2>1, CoreSound DEF Facts, IInv, Typed
<1>1. TypeOK'
  BY <1>0, <1>e, <1>s DEF Facts, TypeOK, Phases, Sound
<1>2. Typed'
  BY <1>1, <1>e, <1>s DEF IInv, Typed, Sound
<1>3. Reads'
  BY <1>0 DEF IInv, Facts, RunCore, Answer, Reads
<1>4. Admitted'
  BY <1>0 DEF IInv, Facts, RunCore, Answer, Admitted
<1>5. AtCore'
  BY <1>0 DEF IInv, Facts, RunCore, Answer, Typed, AtCore, Whole, Reads, Admitted
<1>6. Outcome'
  <2>1. SUFFICES ASSUME answer' = "ran" PROVE Outcome'
    BY DEF Outcome, EngineSeesWholeDocument, AmplifyingLanesBounded
  <2>2. ~(call.surface = "geometry" /\ call.format \in NoGeometry)
    BY <1>s, <2>1, DoorRunsNothing DEF Sound
  <2>3. Whole /\ call.max # 0
    BY <1>e, <1>s, <2>1, <2>2 DEF IInv, AtCore, Sound
  <2>4. sniffed = handle.whole
    BY <1>0, <2>3 DEF Sniffed, Whole, Facts
  <2>5. lane # "pdf_oxide" => buf <= Limit(call)
    <3>1. kind \in Views
      BY Resolved, FileFacts DEF IInv, Typed, Sniffed
    <3> QED BY <1>s, <2>1, <3>1, LaneOfTable DEF Sound, Refusals, IInv, Typed
  <2> QED BY <1>e, <2>3, <2>4, <2>5
          DEF Outcome, EngineSeesWholeDocument, AmplifyingLanesBounded, Whole, Limit
<1>7. Races'
  BY <1>0 DEF IInv, Facts, RunCore, Answer, Races
<1>8. Refused'
  BY <1>e DEF IInv, Refused, Undisturbed
<1> QED BY <1>2, <1>3, <1>4, <1>5, <1>6, <1>7, <1>8 DEF IInv

\* The path comes to name another file.
LEMMA ReplaceKeeps == ASSUME IInv, Replace PROVE IInv'
<1>0. Facts
  BY TypedFacts DEF IInv
<1>c. changes' \in Nat /\ changes' <= MaxChanges /\ changes' > 0
  BY <1>0 DEF Facts, Replace, Interferes
<1>1. TypeOK'
  BY <1>0, <1>c DEF Facts, TypeOK, Replace
<1>2. Typed'
  BY <1>1, ArgumentsAssumption DEF IInv, Typed, Replace, Interferes
<1>3. Reads'
  BY <1>0 DEF IInv, Facts, Replace, Interferes, Reads
<1>4. Admitted'
  BY <1>0 DEF IInv, Facts, Replace, Interferes, Admitted
<1>5. AtCore'
  BY <1>0 DEF IInv, Facts, Replace, Interferes, Typed, AtCore, Whole, Reads, Admitted
<1>6. Outcome'
  BY <1>0 DEF IInv, Facts, Replace, Interferes, Typed, Outcome, EngineSeesWholeDocument, AmplifyingLanesBounded, Refusals
<1>7. Races'
  BY <1>c DEF IInv, Races, Replace, Interferes
<1>8. Refused'
  <2>1. ~Undisturbed'
    BY <1>c DEF Undisturbed
  <2> QED BY <2>1 DEF Refused
<1> QED BY <1>2, <1>3, <1>4, <1>5, <1>6, <1>7, <1>8 DEF IInv

\* The open file grows.
LEMMA GrowKeeps == ASSUME IInv, Grow PROVE IInv'
<1>0. Facts
  BY TypedFacts DEF IInv
<1>c. changes' \in Nat /\ changes' <= MaxChanges /\ changes' > 0
  BY <1>0 DEF Facts, Grow, Interferes
<1>g. handle' \in FileType /\ handle'.size = handle.size + 1 /\ handle'.type = handle.type
  BY Grown DEF Grow, IInv, Typed
<1>u. phase = "read" /\ UNCHANGED <<call, path, phase, reading, ceiling, buf, answer>>
  BY DEF Grow
<1>1. TypeOK'
  BY <1>0, <1>c, <1>u DEF Facts, TypeOK
<1>2. Typed'
  BY <1>1, <1>g, <1>u DEF IInv, Typed
<1>3. Reads'
  BY <1>0, <1>g, <1>u DEF IInv, Facts, Reads
<1>4. Admitted'
  BY <1>g, <1>u DEF IInv, Admitted
<1>5. AtCore'
  BY <1>u DEF AtCore
<1>6. Outcome'
  BY <1>u DEF IInv, Typed, Outcome, EngineSeesWholeDocument, AmplifyingLanesBounded
<1>7. Races'
  BY <1>c DEF IInv, Races, Grow, Interferes
<1>8. Refused'
  <2>1. ~Undisturbed'
    BY <1>c DEF Undisturbed
  <2> QED BY <2>1 DEF Refused
<1> QED BY <1>2, <1>3, <1>4, <1>5, <1>6, <1>7, <1>8 DEF IInv

\* A read fails.
LEMMA ReadFailsKeeps == ASSUME IInv, ReadFails PROVE IInv'
<1>0. Facts
  BY TypedFacts DEF IInv
<1>c. changes' \in Nat /\ changes' <= MaxChanges /\ changes' > 0
  BY <1>0 DEF Facts, ReadFails, Interferes
<1>e. PICK why \in {"io", "memory"} : FailedRead(why)
  BY DEF ReadFails
<1>f. /\ phase = "read" /\ buf' = 0 /\ UNCHANGED <<call, path, handle, reading, ceiling>>
      /\ call.source = "path"
  BY <1>e, FailedReadDoes DEF IInv, Reads
<1>d. \/ reading = "probe" /\ phase' = "stat" /\ UNCHANGED answer
      \/ reading # "probe" /\ phase' = "answered" /\ answer' \in {"io", "memory"}
  BY <1>e, <1>f, FailedReadDoes DEF Source
<1>1. TypeOK'
  BY <1>0, <1>c, <1>d, <1>f DEF Facts, TypeOK, Phases, Answers
<1>2. Typed'
  BY <1>1, <1>d, <1>f DEF IInv, Typed
<1>3. Reads'
  <2>1. Reads
    BY DEF IInv
  <2>2. SNIFF_PREFIX \in Nat /\ MAX_INPUT_READ \in Nat
    BY <1>0 DEF Facts
  <2>3. call.max > 0 => 0 <= call.max + 1
    BY <1>0 DEF Facts
  <2>4. phase' \in {"answered", "stat"} /\ (phase' = "stat" => reading' = "probe")
    BY <1>d, <1>f
  <2>5. reading' = "zero" => call'.max = 0 /\ buf' <= SNIFF_PREFIX + 1
    BY <1>f, <2>1, <2>2 DEF Reads
  <2>6. reading' \in {"prefix", "body"} => call'.max = NoLimit /\ buf' <= MAX_INPUT_READ + 1
    BY <1>f, <2>1, <2>2 DEF Reads
  <2>7. reading' = "budget" => call'.max > 0 /\ buf' <= call'.max + 1
    BY <1>f, <2>1, <2>3 DEF Reads
  <2> QED BY <1>f, <2>1, <2>4, <2>5, <2>6, <2>7 DEF Reads
<1>4. Admitted'
  BY <1>d DEF Admitted
<1>5. AtCore'
  BY <1>d DEF AtCore
<1>6. Outcome'
  BY <1>d, <1>f DEF IInv, Typed, Outcome, EngineSeesWholeDocument, AmplifyingLanesBounded
<1>7. Races'
  BY <1>c, <1>d, <1>f DEF IInv, Races
<1>8. Refused'
  <2>1. ~Undisturbed'
    BY <1>c DEF Undisturbed
  <2> QED BY <2>1 DEF Refused
<1> QED BY <1>2, <1>3, <1>4, <1>5, <1>6, <1>7, <1>8 DEF IInv

------------------------------------------------------------------------------
(* The theorems.                                                             *)

\* A call that has not begun satisfies the invariant.
THEOREM InitIInv == Init => IInv
<1> SUFFICES ASSUME Init PROVE IInv
  OBVIOUS
<1>1. call \in CallType /\ path \in FileType /\ handle \in FileType
  BY ArgumentsAssumption DEF Init
<1>2. TypeOK
  <2>1. phase \in Phases /\ answer \in Answers /\ phase # "read"
    BY DEF Init, Phases, Answers
  <2>2. reading = "nothing" /\ buf = 0 /\ ceiling = 0 /\ changes = 0
    BY DEF Init
  <2>3. changes <= MaxChanges
    BY <2>2, MaxChangesAssumption
  <2> QED BY <2>1, <2>2, <2>3 DEF TypeOK
<1>3. Typed
  BY <1>1, <1>2 DEF Init, Typed
<1>4. Reads /\ Admitted /\ AtCore /\ Races /\ Refused
  BY DEF Init, Reads, Admitted, AtCore, Races, Refused
<1>5. Outcome
  BY DEF Init, Outcome, EngineSeesWholeDocument, AmplifyingLanesBounded
<1> QED BY <1>3, <1>4, <1>5 DEF IInv

\* Every step of a call, and every interference with it, keeps the invariant.
THEOREM StepIInv == IInv /\ [Next]_vars => IInv'
<1> SUFFICES ASSUME IInv, [Next]_vars PROVE IInv'
  OBVIOUS
<1>1. CASE Next
  BY <1>1, ParseKeeps, ProbeKeeps, ProbeOpenKeeps, StatKeeps, OpenKeeps, FstatKeeps,
     AtDoorKeeps, StartReadKeeps, ReadSomeKeeps, ReadOverKeeps, ReadEndsKeeps,
     ReadDirectoryKeeps, CopyKeeps, RunCoreKeeps, ReplaceKeeps, GrowKeeps, ReadFailsKeeps
     DEF Next
<1>2. CASE UNCHANGED vars
  <2>1. UNCHANGED <<call, path, handle, phase, reading, ceiling, buf, answer, changes>>
    BY <1>2 DEF vars
  <2>2. Typed'
    BY <2>1 DEF IInv, Typed, TypeOK
  <2>3. Reads'
    BY <2>1 DEF IInv, Reads
  <2>4. Admitted' /\ AtCore' /\ Races'
    BY <2>1 DEF IInv, Admitted, AtCore, Whole, Races
  <2>5. Outcome'
    BY <2>1 DEF IInv, Outcome, EngineSeesWholeDocument, AmplifyingLanesBounded
  <2>6. Refused'
    BY <2>1 DEF IInv, Refused, Undisturbed
  <2> QED BY <2>2, <2>3, <2>4, <2>5, <2>6 DEF IInv
<1> QED BY <1>1, <1>2

\* The invariant holds throughout every call.
THEOREM Invariance == Spec => []IInv
<1> QED BY InitIInv, StepIInv, PTL DEF Spec

\* The call's state stays well typed; a read holds at most its ceiling and one.
THEOREM TypeCorrect == Spec => []TypeOK
<1>1. IInv => TypeOK
  BY DEF IInv, Typed
<1> QED BY <1>1, Invariance, PTL

\* No read outgrows the caller's budget, or the backstop, by more than a byte,
\* whatever the file does meanwhile.
THEOREM BoundedRead == Spec => []ReadIsBounded
<1>1. IInv => ReadIsBounded
  <2> SUFFICES ASSUME IInv, call.source = "path", reading \notin {"nothing", "probe"}
               PROVE  buf <= 1 + CASE call.max = NoLimit -> MAX_INPUT_READ
                                   [] call.max = 0 -> SNIFF_PREFIX
                                   [] call.max > 0 -> call.max
    BY DEF ReadIsBounded
  <2>0. Facts /\ Reads
    BY TypedFacts DEF IInv
  <2>1. CASE reading = "zero"
    <3>1. call.max = 0 /\ buf <= SNIFF_PREFIX + 1 /\ NoLimit = -1
      BY <2>0, <2>1 DEF Reads, Facts
    <3> QED BY <2>0, <3>1 DEF Facts
  <2>2. CASE reading \in {"prefix", "body"}
    <3>1. call.max = -1 /\ buf <= MAX_INPUT_READ + 1 /\ NoLimit = -1
      BY <2>0, <2>2 DEF Reads, Facts
    <3> QED BY <2>0, <3>1 DEF Facts
  <2>3. CASE reading = "budget"
    <3>1. call.max > 0 /\ buf <= call.max + 1
      BY <2>0, <2>3 DEF Reads
    <3>2. NoLimit = -1 /\ call.max \in Int
      BY <2>0 DEF Facts
    <3> QED BY <2>0, <3>1, <3>2 DEF Facts
  <2> QED BY <2>0, <2>1, <2>2, <2>3 DEF Facts
<1> QED BY <1>1, Invariance, PTL

\* Whatever an engine runs on is the whole of a regular file.
THEOREM WholeDocument == Spec => []EngineSeesWholeDocument
<1>1. IInv => EngineSeesWholeDocument
  BY DEF IInv, Outcome
<1> QED BY <1>1, Invariance, PTL

\* An amplifying lane never gets more than its ceiling.
THEOREM LaneCeiling == Spec => []AmplifyingLanesBounded
<1>1. IInv => AmplifyingLanesBounded
  BY DEF IInv, Outcome
<1> QED BY <1>1, Invariance, PTL

\* Both bounds hold of every input.
THEOREM BoundedInput == Spec => []InputIsBounded
<1>1. ReadIsBounded /\ AmplifyingLanesBounded => InputIsBounded
  BY DEF InputIsBounded
<1> QED BY <1>1, BoundedRead, LaneCeiling, PTL

\* A decided capability refusal is what the call answers.
THEOREM RefusedFirst == Spec => []CapabilityRefusedFirst
<1>1. IInv => CapabilityRefusedFirst
  BY DEF IInv, Refused, CapabilityRefusedFirst
<1> QED BY <1>1, Invariance, PTL

\* Only a file replaced between two system calls can block the call.
THEOREM NeverStuckAlone == Spec => []BlocksOnlyInRace
<1>1. IInv => BlocksOnlyInRace
  BY DEF IInv, Races, BlocksOnlyInRace
<1> QED BY <1>1, Invariance, PTL

------------------------------------------------------------------------------
(* A path= call serves what the data= call serves.                           *)

\* The file is what its stat and its prefix say, and nothing interfered.
Honest ==
  /\ Undisturbed /\ call.source = "path"
  /\ path.stat = path.size /\ path.head = path.whole
  /\ path.size <= MAX_INPUT_READ \/ call.max > 0

\* What the data= call answers.
Served == IF call.max > 0 /\ path.size > call.max THEN "ceiling"
          ELSE Core(call, path.whole, path.ole, path.size)

Agree(a, b) == \A good \in {"ran", "none"} : a = good <=> b = good

\* Conversion is never probed.  Before the answer, the call holds the file the path names, within its budget,
\* and reads its body under the ceiling of what the whole file resolves to.
Faithful ==
  Honest =>
    /\ phase \in {"probe", "probe open"} \/ (phase = "read" /\ reading = "probe") =>
         call.surface # "convert"
    /\ phase \in {"fstat", "admitted", "read", "core"} => handle = path
    /\ phase \in {"admitted", "core"} \/ (phase = "read" /\ reading # "probe") =>
         (call.max > 0 => path.size <= call.max)
    /\ phase = "read" /\ reading = "body" => ceiling = provisional_ceiling(call, path, 0)
    /\ phase = "answered" => Agree(answer, Served)

\* A lane's refusal is a refusal of the core.
LEMMA RefusedIsNotServed ==
  ASSUME Typed, call.surface # "convert", NEW lane \in Refusals,
         lane = Lane(call, resolve(call.format, path.whole, Hint(call)), path.ole)
  PROVE  Agree(lane, Served)
<1> DEFINE kind == resolve(call.format, path.whole, Hint(call))
<1>1. call.surface \in {"geometry", "structure"}
  BY CallFacts DEF Typed, Surfaces
<1>2. lane \notin {"ran", "none"} /\ Unknown \notin Refusals
  BY DEF Refusals, Unknown
<1>3. kind # Unknown
  BY <1>2 DEF Lane
<1>4. Core(call, path.whole, path.ole, path.size) = lane
  BY <1>1, <1>3 DEF Core, page_geometry, document_structure
<1> QED BY <1>2, <1>4 DEF Served, Agree

\* Without a budget no byte count matters, nor does one behind the no-read door.
LEMMA CountsForNothing ==
  ASSUME Typed, NEW n \in Nat, NEW m \in Nat, NEW sniffed, NEW ole,
         call.max = 0 \/ (call.surface = "geometry" /\ call.format \in NoGeometry)
  PROVE  Agree(Core(call, sniffed, ole, n), Core(call, sniffed, ole, m))
<1> DEFINE kind == resolve(call.format, sniffed, Hint(call))
           lane == Lane(call, kind, ole)
<1>1. CASE call.max = 0
  <2>1. CASE call.surface = "convert"
    BY <1>1, <2>1 DEF Core, Convert, Agree
  <2>2. CASE call.surface = "geometry"
    BY <1>1, <2>2 DEF Core, page_geometry, Agree
  <2>3. CASE call.surface = "structure"
    BY <1>1, <2>3 DEF Core, document_structure, Agree
  <2> QED BY <2>1, <2>2, <2>3, CallFacts DEF Typed, Surfaces
<1>2. CASE call.surface = "geometry" /\ call.format \in NoGeometry
  <2>1. lane = "none"
    BY <1>2, DoorRunsNothing
  <2> QED BY <1>2, <2>1 DEF Core, page_geometry, Agree
<1> QED BY <1>1, <1>2

\* What the body's ceiling refuses, the ceiling of the lane refuses: only a lane
\* without one is read to the backstop.
LEMMA CeilingIsServed ==
  ASSUME Typed, Honest, call.max = NoLimit,
         path.size > provisional_ceiling(call, path, 0)
  PROVE  Agree("ceiling", Served)
<1> DEFINE kind == resolve(call.format, path.whole, Hint(call))
           lane == Lane(call, kind, path.ole)
<1>0. Facts
  BY TypedFacts
<1>1. path.size <= MAX_INPUT_READ /\ ~(call.max > 0)
  BY <1>0 DEF Honest, NoLimit
<1>2. Sniffed(path, 0) = path.whole
  BY SniffedHonest DEF Honest
<1>3. /\ provisional_ceiling(call, path, 0) = DEFAULT_LIMIT
      /\ call.surface = "structure" \/ lane \notin Unmetered(call)
  <2>1. CASE call.surface # "structure" /\ lane \in Unmetered(call)
    <3>1. provisional_ceiling(call, path, 0) = MAX_INPUT_READ
      BY <1>2, <2>1 DEF provisional_ceiling
    <3> QED BY <3>1, <1>0, <1>1 DEF Facts
  <2>2. CASE ~(call.surface # "structure" /\ lane \in Unmetered(call))
    <3>1. provisional_ceiling(call, path, 0) \in {DEFAULT_LIMIT, MAX_INPUT_READ}
      BY DEF provisional_ceiling
    <3>2. provisional_ceiling(call, path, 0) = MAX_INPUT_READ =>
            MAX_INPUT_READ = DEFAULT_LIMIT
      BY <1>0, <1>1 DEF Facts
    <3> QED BY <2>2, <3>1, <3>2
  <2> QED BY <2>1, <2>2
<1>4. path.size > Limit(call)
  BY <1>3 DEF Limit
<1>5. kind \in Views
  BY Resolved, FileFacts DEF Typed
<1>6. CASE call.surface = "convert"
  <2>1. lane # "pdf_oxide"
    BY <1>3, <1>6 DEF Unmetered
  <2> QED BY <1>1, <1>4, <1>6, <2>1 DEF Served, Core, Convert, Agree, Refusals
<1>7. CASE call.surface = "geometry"
  <2>1. lane \notin {"pdf_oxide", "none"}
    BY <1>3, <1>7 DEF Unmetered
  <2>2. kind # Unknown => lane \in {"capability", "office_oxide"}
    BY <1>5, <1>7, <2>1, LaneOfTable DEF Typed
  <2> QED BY <1>1, <1>4, <1>7, <2>2 DEF Served, Core, page_geometry, Agree, Refusals
<1>8. CASE call.surface = "structure"
  BY <1>1, <1>4, <1>8 DEF Served, Core, document_structure, Agree, Refusals
<1> QED BY <1>0, <1>6, <1>7, <1>8 DEF Facts, Surfaces

\* The ladder of an answer, and of what is answered, are of one file.
LEMMA CoreIsServed ==
  ASSUME IInv, Faithful, Honest, phase = "core"
  PROVE  Agree(Core(call, Sniffed(handle, buf), handle.ole, buf), Served)
<1>0. Facts /\ Typed
  BY TypedFacts DEF IInv
<1>1. handle = path /\ (call.max > 0 => path.size <= call.max)
  BY DEF Faithful
<1>2. Sniffed(handle, buf) = path.whole
  BY <1>1, SniffedHonest DEF Honest
<1>3. Served = Core(call, path.whole, path.ole, path.size)
  BY <1>0, <1>1 DEF Served, Facts
<1>4. \/ buf = path.size \/ call.max = 0
      \/ call.surface = "geometry" /\ call.format \in NoGeometry
  BY <1>1 DEF IInv, AtCore, Whole
<1>5. CASE buf = path.size
  BY <1>1, <1>2, <1>3, <1>5 DEF Agree
<1>6. CASE buf # path.size
  BY <1>0, <1>1, <1>2, <1>3, <1>4, <1>6, CountsForNothing DEF Facts
<1> QED BY <1>5, <1>6

\* The two probes answer a refusal or nothing.
LEMMA ProbeFaithful ==
  ASSUME Typed, Faithful, Honest, NEW sniffed, sniffed = path.whole, call.surface # "convert",
         ProbeSays(sniffed, path.ole), UNCHANGED <<call, path, changes>>
  PROVE  Faithful'
<1> DEFINE lane == Lane(call, resolve(call.format, sniffed, Hint(call)), path.ole)
<1>2. CASE phase' = "answered" /\ answer' = lane /\ lane \in Refusals
  <2>1. Agree(lane, Served)
    BY <1>2, RefusedIsNotServed
  <2>2. Served' = Served
    BY DEF Served
  <2> QED BY <1>2, <2>1, <2>2 DEF Faithful, Agree
<1>3. CASE phase' = Source(call)
  BY <1>3 DEF Faithful, Source
<1> QED BY <1>2, <1>3, ProbeSaysWhat

LEMMA StepFaithful == ASSUME IInv, Faithful, [Next]_vars PROVE Faithful'
<1> SUFFICES ASSUME Honest' PROVE Faithful'
  BY DEF Faithful
<1>0. Facts /\ Typed
  BY TypedFacts DEF IInv
<1>1. changes' = 0 /\ changes = 0
  <2>1. changes' = 0
    BY DEF Honest, Undisturbed
  <2>2. changes' = changes \/ changes' = changes + 1
    BY DEF Next, vars, Parse, Probe, ProbeOpen, Stat, Open, Fstat, AtDoor, StartRead,
           ReadSome, ReadOver, ReadEnds, ReadDirectory, Copy, RunCore, Replace, Grow,
           ReadFails, Interferes, FailedRead
  <2> QED BY <1>0, <2>1, <2>2 DEF Facts
<1>2. ~Replace /\ ~Grow /\ ~ReadFails
  BY <1>1 DEF Replace, Grow, ReadFails, Interferes
<1>3. UNCHANGED <<call, path, changes>>
  BY <1>1, <1>2 DEF Next, vars, Parse, Probe, ProbeOpen, Stat, Open, Fstat, AtDoor,
         StartRead, ReadSome, ReadOver, ReadEnds, ReadDirectory, Copy, RunCore, FailedRead
<1>4. Honest
  BY <1>3 DEF Honest, Undisturbed
<1>5. /\ Served' = Served
      /\ provisional_ceiling(call, path, 0)' = provisional_ceiling(call, path, 0)
  BY <1>3 DEF Served
<1>6. path.type = "file" /\ path.stat = path.size /\ path.head = path.whole
      /\ call.source = "path"
  BY <1>4 DEF Honest, Undisturbed
<1>7. CASE Parse
  <2>1. CASE call.surface = "convert" /\ call.max = 0
    <3>1. phase' = "answered" /\ answer' = "zero"
      BY <1>7, <2>1 DEF Parse, Answer
    <3>2. Served = "zero"
      BY <2>1 DEF Served, Core, Convert
    <3> QED BY <1>5, <3>1, <3>2 DEF Faithful, Agree
  <2>2. CASE ~(call.surface = "convert" /\ call.max = 0)
    <3>1. phase' = "stat" \/ (phase' = "probe" /\ call.surface # "convert")
      BY <1>6, <1>7, <2>2 DEF Parse, Go, Source, Probes
    <3> QED BY <1>3, <3>1 DEF Faithful
  <2> QED BY <2>1, <2>2
<1>8. CASE Probe
  <2>1. CASE name_decides_probe(call)
    <3>1. ProbeSays(Sniffed(path, SNIFF_PREFIX), path.ole)
      BY <1>8, <2>1 DEF Probe
    <3>2. Sniffed(path, SNIFF_PREFIX) = path.whole
      BY <1>6, SniffedHonest
    <3>3. call.surface # "convert"
      BY <1>4, <1>8 DEF Probe, Faithful
    <3> QED BY <1>0, <1>3, <1>4, <3>1, <3>2, <3>3, ProbeFaithful
  <2>2. CASE ~name_decides_probe(call)
    <3>1. phase' = "probe open"
      BY <1>6, <1>8, <2>2 DEF Probe, Go
    <3>2. call.surface # "convert"
      BY <1>4, <1>8 DEF Probe, Faithful
    <3> QED BY <1>3, <3>1, <3>2 DEF Faithful
  <2> QED BY <2>1, <2>2
<1>9. CASE ProbeOpen
  <2>1. phase' = "read" /\ reading' = "probe" /\ handle' = path
    BY <1>6, <1>9 DEF ProbeOpen, Blocks, Read
  <2>2. call.surface # "convert"
    BY <1>4, <1>9 DEF ProbeOpen, Faithful
  <2> QED BY <1>3, <2>1, <2>2 DEF Faithful
<1>10. CASE Stat
  <2>1. CASE refuse_over_ceiling(path)
    <3>1. phase' = "answered" /\ answer' = "ceiling"
      BY <1>6, <1>10, <2>1 DEF Stat, Gates, Answer, refuse_non_regular
    <3>2. Served = "ceiling"
      BY <1>6, <2>1 DEF Served, refuse_over_ceiling
    <3> QED BY <1>5, <3>1, <3>2 DEF Faithful, Agree
  <2>2. CASE ~refuse_over_ceiling(path)
    <3>1. phase' = "open"
      BY <1>6, <1>10, <2>2 DEF Stat, Gates, Go, refuse_non_regular
    <3> QED BY <3>1 DEF Faithful
  <2> QED BY <2>1, <2>2
<1>11. CASE Open
  <2>1. phase' = "fstat" /\ handle' = path
    BY <1>6, <1>11 DEF Open, Blocks, Go
  <2> QED BY <1>3, <2>1 DEF Faithful
<1>12. CASE Fstat
  <2>1. handle = path
    BY <1>4, <1>12 DEF Fstat, Faithful
  <2>2. CASE refuse_over_ceiling(path)
    <3>1. phase' = "answered" /\ answer' = "ceiling"
      BY <1>6, <1>12, <2>1, <2>2 DEF Fstat, Gates, Answer, refuse_non_regular
    <3>2. Served = "ceiling"
      BY <1>6, <2>2 DEF Served, refuse_over_ceiling
    <3> QED BY <1>5, <3>1, <3>2 DEF Faithful, Agree
  <2>3. CASE ~refuse_over_ceiling(path)
    <3>1. phase' = "admitted" /\ handle' = handle
      BY <1>6, <1>12, <2>1, <2>3 DEF Fstat, Gates, Go, refuse_non_regular
    <3>2. call.max > 0 => path.size <= call.max
      BY <1>0, <1>6, <2>3 DEF refuse_over_ceiling, Facts
    <3> QED BY <1>3, <2>1, <3>1, <3>2 DEF Faithful
  <2> QED BY <2>2, <2>3
<1>13. CASE AtDoor
  BY <1>3, <1>4, <1>13 DEF AtDoor, Faithful, Go
<1>14. CASE StartRead
  <2>1. phase' = "read" /\ reading' \in {"prefix", "zero", "budget"} /\ handle' = handle
        /\ phase = "admitted"
    BY <1>14 DEF StartRead, Read
  <2> QED BY <1>3, <1>4, <2>1 DEF Faithful
<1>15. CASE ReadSome
  BY <1>3, <1>4, <1>5, <1>15 DEF ReadSome, Faithful
<1>16. CASE ReadOver \/ ReadEnds
  <2>1. PICK over \in BOOLEAN : AfterRead(over) /\ (over <=> buf > ceiling)
    <3>1. CASE ReadOver
      BY <3>1 DEF ReadOver
    <3>2. CASE ReadEnds
      <4>1. ~(buf > ceiling)
        BY <1>0, <3>2 DEF ReadEnds, Facts
      <4> QED BY <3>2, <4>1 DEF ReadEnds
    <3> QED BY <1>16, <3>1, <3>2
  <2>2. phase = "read" /\ handle' = handle /\ handle = path
    BY <1>4, <1>16 DEF ReadOver, ReadEnds, Faithful
  <2>3. reading # "probe" => (call.max > 0 => path.size <= call.max)
    BY <1>4, <2>2 DEF Faithful
  <2>4. buf <= path.size
    BY <2>2 DEF IInv, Reads
  <2>5. CASE reading = "probe"
    <3>1. ProbeSays(Sniffed(path, buf), path.ole)
      BY <2>1, <2>2, <2>5 DEF AfterRead
    <3>2. Sniffed(path, buf) = path.whole
      BY <1>6, SniffedHonest
    <3>3. call.surface # "convert"
      BY <1>4, <2>2, <2>5 DEF Faithful
    <3> QED BY <1>0, <1>3, <1>4, <3>1, <3>2, <3>3, ProbeFaithful
  <2>6. CASE reading = "zero"
    <3>1. phase' = "core"
      BY <2>1, <2>6 DEF AfterRead, Go
    <3> QED BY <1>3, <2>2, <2>3, <2>6, <3>1 DEF Faithful
  <2>7. CASE reading = "prefix"
    <3>1. /\ phase' = "read" /\ reading' = "body"
          /\ ceiling' = provisional_ceiling(call, path, buf)
      BY <2>1, <2>2, <2>7 DEF AfterRead, Read
    <3>2. Sniffed(path, buf) = Sniffed(path, 0)
      BY <1>6, SniffedHonest
    <3>3. provisional_ceiling(call, path, buf) = provisional_ceiling(call, path, 0)
      BY <3>2 DEF provisional_ceiling
    <3> QED BY <1>3, <1>5, <2>2, <2>3, <2>7, <3>1, <3>3 DEF Faithful
  <2>8. CASE reading = "budget"
    <3>1. ~over
      BY <1>0, <2>1, <2>2, <2>3, <2>4, <2>8 DEF IInv, Reads, Facts
    <3>2. phase' = "core"
      BY <2>1, <2>8, <3>1 DEF AfterRead, Refuse, Go
    <3> QED BY <1>3, <2>2, <2>3, <2>8, <3>2 DEF Faithful
  <2>9. CASE reading = "body"
    <3>1. ceiling = provisional_ceiling(call, path, 0) /\ call.max = NoLimit
      BY <1>4, <2>2, <2>9 DEF Faithful, IInv, Reads
    <3>2. CASE over
      <4>1. phase' = "answered" /\ answer' = "ceiling"
        BY <2>1, <2>9, <3>2 DEF AfterRead, Refuse, Answer
      <4>2. path.size > ceiling
        BY <1>0, <2>1, <2>4, <3>2 DEF Facts
      <4>3. Agree("ceiling", Served)
        BY <1>0, <1>4, <3>1, <4>2, CeilingIsServed
      <4> QED BY <1>5, <4>1, <4>3 DEF Faithful, Agree
    <3>3. CASE ~over
      <4>1. phase' = "core"
        BY <2>1, <2>9, <3>3 DEF AfterRead, Refuse, Go
      <4> QED BY <1>3, <2>2, <2>3, <2>9, <4>1 DEF Faithful
    <3> QED BY <3>2, <3>3
  <2> QED BY <1>0, <2>2, <2>5, <2>6, <2>7, <2>8, <2>9 DEF IInv, Reads, Facts
<1>17. ~ReadDirectory
  BY <1>4, <1>6 DEF ReadDirectory, FailedRead, Faithful
<1>18. ~Copy
  BY <1>6 DEF Copy, IInv, Reads
<1>19. CASE RunCore
  <2>1. phase' = "answered" /\ answer' = Core(call, Sniffed(handle, buf), handle.ole, buf)
    BY <1>19 DEF RunCore, Answer
  <2>2. Agree(Core(call, Sniffed(handle, buf), handle.ole, buf), Served)
    BY <1>4, <1>19, CoreIsServed DEF RunCore
  <2> QED BY <1>5, <2>1, <2>2 DEF Faithful, Agree
<1>20. CASE UNCHANGED vars
  BY <1>4, <1>5, <1>20 DEF vars, Faithful, Agree
<1> QED BY <1>2, <1>7, <1>8, <1>9, <1>10, <1>11, <1>12, <1>13, <1>14, <1>15, <1>16, <1>17,
           <1>18, <1>19, <1>20 DEF Next

\* For every honest file no interference touches, the gates around open and the
\* two-phase read change when a refusal comes, never which documents run.
THEOREM ServesTheSame == Spec => []PathServesWhatDataServes
<1>1. Init => Faithful
  BY DEF Init, Faithful
<1>2. IInv /\ Faithful /\ [Next]_vars => Faithful'
  BY StepFaithful
<1>3. Faithful => PathServesWhatDataServes
  BY DEF Faithful, Honest, Served, Agree, PathServesWhatDataServes
<1> QED BY <1>1, <1>2, <1>3, Invariance, PTL DEF Spec
==============================================================================
