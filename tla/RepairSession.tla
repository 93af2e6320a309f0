----------------------------- MODULE RepairSession -----------------------------
(***************************************************************************)
(* One tors.JsonRepairer object under its calls: push, end, reset, and the *)
(* read-only snapshot (src/src/json_repair/streaming.rs).                  *)
(*                                                                         *)
(* A push is a loop over the chunk's characters, and a character may       *)
(* re-enter process several times; both are unrolled into Step actions, so *)
(* that every intermediate machine state is a state here.  `todo` is the   *)
(* text the running push has still to process.                             *)
(***************************************************************************)
EXTENDS StreamingClose, JsonText, FiniteSets

CONSTANT Callers  \* a set of callers: the texts one may push (chunks), and how
                  \* many of them one document may take (pushes: a bound)

ASSUME CallersAssumption ==
  \A k \in Callers : k.chunks \subseteq Seq(STRING) /\ k.pushes \in Nat

VARIABLES caller,   \* who drives this object
          m,        \* the machine (the struct)
          todo,     \* characters the running push has still to process
          call,     \* "idle", "push": which call runs
          finished, \* the flag end() sets
          pushes,   \* how many pushes this document has had
          fed,      \* history: the characters of this document pushed so far
          got,      \* history: the deltas returned so far, concatenated
          intact,   \* history: no repair reached behind the delta cursor
          reply     \* what the last call answered

vars == <<caller, m, todo, call, finished, pushes, fed, got, intact, reply>>

Init ==
  /\ caller \in Callers
  /\ m = Fresh /\ todo = <<>> /\ call = "idle" /\ finished = FALSE
  /\ pushes = 0 /\ fed = <<>> /\ got = <<>> /\ intact = TRUE /\ reply = "none"

Push(chunk) ==
  /\ call = "idle" /\ ~finished /\ ~m.error
  /\ pushes < caller.pushes /\ pushes' = pushes + 1
  /\ todo' = chunk /\ call' = "push" /\ fed' = fed \o chunk
  /\ UNCHANGED <<caller, m, finished, got, intact, reply>>

\* push after end() is an error and changes nothing.
PushRefused ==
  /\ call = "idle" /\ finished
  /\ reply' = "finalized"
  /\ UNCHANGED <<caller, m, todo, call, finished, pushes, fed, got, intact>>

\* One entry of process; the characters it re-enters with go first.
Step ==
  /\ call = "push" /\ todo # <<>> /\ ~m.error
  /\ LET next == process(m, Head(todo))
     IN  /\ m' = [next EXCEPT !.replay = <<>>]
         /\ todo' = next.replay \o Tail(todo)
         /\ intact' = (intact /\ next.emitted = m.emitted)
  /\ UNCHANGED <<caller, call, finished, pushes, fed, got, reply>>

Delta == SubSeq(m.out, LessOf(m.emitted, Len(m.out)) + 1, Len(m.out))

PushReturns ==
  /\ call = "push" /\ todo = <<>> /\ ~m.error
  /\ m' = [m EXCEPT !.emitted = Len(m.out)]
  /\ got' = got \o Delta
  /\ call' = "idle" /\ reply' = "delta"
  /\ UNCHANGED <<caller, todo, finished, pushes, fed, intact>>

\* The nesting cap: push fails, the rest of the chunk is not processed.
PushFails ==
  /\ call = "push" /\ m.error
  /\ call' = "idle" /\ todo' = <<>> /\ reply' = "nesting"
  /\ UNCHANGED <<caller, m, finished, pushes, fed, got, intact>>

End ==
  /\ call = "idle" /\ ~m.error
  /\ m' = IF finished THEN m ELSE Finalized(m)
  /\ finished' = TRUE /\ reply' = "final"
  /\ UNCHANGED <<caller, todo, call, pushes, fed, got, intact>>

Reset ==
  /\ call = "idle"
  /\ m' = Fresh /\ finished' = FALSE /\ pushes' = 0 /\ fed' = <<>> /\ got' = <<>> /\ intact' = TRUE
  /\ reply' = "none"
  /\ UNCHANGED <<caller, todo, call>>

snapshot == IF finished THEN m.out ELSE render_closed(m)

Next ==
  \/ \E chunk \in caller.chunks : Push(chunk)
  \/ PushRefused \/ Step \/ PushReturns \/ PushFails \/ End \/ Reset

Spec == Init /\ [][Next]_vars

\* ENABLED <<Step>>_vars, written out because TLC evaluates the definitions of `process`
\* over and over inside an ENABLED: an entry that put its character back and left the
\* machine as it was would be a step that does nothing.
StepMoves ==
  /\ call = "push" /\ todo # <<>> /\ ~m.error
  /\ LET next == process(m, Head(todo))
     IN  [next EXCEPT !.replay = <<>>] # m \/ next.replay \o Tail(todo) # todo

\* A push that has been called goes on; for Step this is WF_vars(Step).
StepFair == []<>~StepMoves \/ []<><<Step>>_vars
FairSpec == Spec /\ StepFair /\ WF_vars(PushReturns) /\ WF_vars(PushFails)

-----------------------------------------------------------------------------
(* Properties.                                                             *)

Answered == call = "idle" /\ ~m.error

FrameShape(f) ==
  /\ f.kind \in {"Obj", "Arr", "Paren"}
  /\ f.brace \in Nat /\ f.start \in Nat \cup {None}
  /\ f.count \in Nat /\ f.elems \in Nat /\ f.chars \in 0..2 /\ f.nonspace \in 0..2
  /\ {f.begun, f.colon, f.comma, f.groupish} \subseteq BOOLEAN

\* The shapes of the machine's fields between two entries of process.
TypeOK ==
  /\ call \in {"idle", "push"} /\ finished \in BOOLEAN /\ pushes \in 0..caller.pushes
  /\ reply \in {"none", "delta", "nesting", "final", "finalized"}
  /\ m.pos \in {"Value", "MemberValue", "Key", "Colon", "AfterValue"}
  /\ m.pending.kind \in {"none", "Num", "Word", "TopNum", "TopWord", "TopStr"}
  /\ m.comment.kind \in {"none", "Hash", "Slash", "Line", "Block"}
  /\ m.paren_gate.kind \in {"none", "FirstChar", "TailCheck"}
  /\ m.emitted \in 0..Len(m.out) /\ Len(m.frames) <= MAX_NESTING
  /\ \A i \in DOMAIN m.frames : FrameShape(m.frames[i])
  /\ m.replay = <<>>

\* snapshot (and so end) answers one loadable JSON document, or the empty
\* text, at every point of the stream, whatever was pushed (streaming.rs's
\* contract for `snapshot`).
SnapshotIsJson == Answered => (snapshot = <<>> \/ IsJson(snapshot))

\* A document that needs no repair comes out as its own canonical spelling:
\* no deferred separator, empty-element skip or grouping rule touches it.
\* The bare empty string is the machine's spelling of "nothing recovered".
StrictPassthrough ==
  Answered /\ IsJson(fed) =>
    snapshot = IF Reading(fed).seen = <<"\"", "\"">> THEN <<>> ELSE Reading(fed).seen

\* The open frames' coordinates stay true of the text under every drain and
\* truncation: each frame's bracket stands where it says, its in-flight
\* member lies behind the bracket, and a nested frame inside that member.
FramesInOrder ==
  \A i \in DOMAIN m.frames :
    LET f == m.frames[i] IN
    /\ f.brace < Len(m.out)
    /\ m.out[f.brace + 1] = IF f.kind = "Obj" THEN "{" ELSE "["
    /\ f.start # None => f.start \in (f.brace + 1)..Len(m.out)
    /\ i < Len(m.frames) => f.start # None /\ f.start <= m.frames[i + 1].brace

EmptyRendering == {<<"[", "]">>, <<"{", "}">>, <<"\"", "\"">>}
SpansEmpty(e) ==
  LET raw == SubSeq(m.out, e.start + 1, e.end)
  IN  /\ e.start < e.end /\ e.end <= Len(m.out)
      /\ raw \in EmptyRendering \/ (Head(raw) = SepTok /\ Tail(raw) \in EmptyRendering)

\* A deferred empty-element drop always covers exactly one strictly empty
\* element of the output, so that the drain at close can take nothing else.
MarksSpanEmpties ==
  ~finished =>
    /\ \A i \in DOMAIN m.empty_marks : SpansEmpty(m.empty_marks[i])
    /\ m.empty_pending.armed => SpansEmpty(m.empty_pending)

\* Every offset the session keeps stays true of the text under all the drains,
\* truncations and deferred drops: those of the open frames, never more than
\* the cap, and of the marks.
OffsetsHold == TypeOK /\ FramesInOrder /\ MarksSpanEmpties

\* As long as no repair reached behind the delta cursor, the deltas
\* concatenate to the emitted text (the contract of push).
DeltasConcatenate == (Answered /\ intact /\ ~finished) => got = m.out

\* Reference: the text without its // and /* */ comments; /*/ closes itself
\* (the engine's quirk).  A slash right behind a digit belongs to the number
\* run, and one behind a closer decides the empty-element skip: such a
\* text is outside the claim.
Glued(u) ==
  LET solid == SelectSeq(u.keep, LAMBDA c : c \notin Blank)
  IN  /\ u.keep # <<>> /\ solid # <<>>
      /\ u.keep[Len(u.keep)] \in Digit \/ solid[Len(solid)] \in {"]", "}"}

Uncomment(u, c) ==
  CASE u.mode = "text" /\ c = "/" -> [u EXCEPT !.mode = IF Glued(u) THEN "glued" ELSE "slash"]
    [] u.mode = "text" /\ c # "/" -> [u EXCEPT !.keep = Append(@, c)]
    [] u.mode = "slash" /\ c = "/" -> [u EXCEPT !.mode = "line"]
    [] u.mode = "slash" /\ c = "*" -> [u EXCEPT !.mode = "star"]
    [] u.mode = "line" /\ c = "\n" -> [u EXCEPT !.mode = "text"]
    [] u.mode = "star" /\ c = "/" -> [u EXCEPT !.mode = "text"]
    [] u.mode \in {"block", "star"} /\ ~(u.mode = "star" /\ c = "/") ->
         [u EXCEPT !.mode = IF c = "*" THEN "star" ELSE "block"]
    [] OTHER -> u

Uncommented(t) ==
  LET read[n \in 0..Len(t)] ==
        IF n = 0 THEN [mode |-> "text", keep |-> <<>>] ELSE Uncomment(read[n - 1], t[n])
  IN  read[Len(t)]

\* Inside a container a // or /* */ comment changes nothing: the text heals
\* to what it would without it (docs: comments "are skipped").
CommentsAreSkipped ==
  LET u == Uncommented(fed) IN
  (Answered /\ fed # <<>> /\ Head(fed) = "[" /\ u.mode = "text" /\ IsJson(u.keep)) =>
    snapshot = Reading(u.keep).seen

\* Text that needs no repair, but for its comments, is never repaired.
CleanTextPasses == StrictPassthrough /\ CommentsAreSkipped

Numbers(t) == Cardinality({i \in DOMAIN t : t[i] = "num"})

\* No retraction takes a committed number with it: what a step or the close
\* drops is a dangling key, an empty element or a bracket.  (The top-level
\* prose verdict of a paren group is the one exception: it drops the root.)
CommittedNumbersStay ==
  [][(Step /\ m.paren_gate.kind # "TailCheck") \/ End
       => Numbers(m'.out) >= Numbers(m.out)]_vars

\* Every push returns: no chain of re-entries runs forever.
PushesReturn == (call = "push") ~> (call = "idle")

\* The comment skipper's own words: "a standalone / is one skipped char", so
\* the character behind it is still read.
LoneSlashSkipsItself ==
  LET text == SelectSeq(fed, LAMBDA c : c # "/") IN
  (/\ Answered /\ fed # <<>> /\ Head(fed) = "[" /\ IsJson(text)
   /\ \A i \in 1..(Len(fed) - 1) : fed[i] \in Digit \cup {"/"} => fed[i + 1] # "/")
  => snapshot = Reading(text).seen

=============================================================================
