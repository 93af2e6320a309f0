----------------------------- MODULE MCDocuments -----------------------------
(***************************************************************************)
(* Documents of up to six units around a prefix of one, a default ceiling  *)
(* of three and a backstop of five; every argument the refusals look at.   *)
(* Beside them the calls of MCPdf: a run makes one call of either kind.    *)
(***************************************************************************)
EXTENDS DocumentIntake, MCPdf

Sized(size, trim, head, whole) ==
  [type |-> "file", stat |-> size, size |-> size, trim |-> trim, head |-> head,
   whole |-> whole, ole |-> FALSE]
Of(type) == [Sized(0, Unknown, Unknown, Unknown) EXCEPT !.type = type]

\* Documents whose prefix tells what they are, and the ones whose views
\* differ: the table whose rows outrun the prefix, the one the prefix cuts in
\* a character, the one that stops being a table, the package whose directory
\* is at its end; an OLE workbook, two lying stats, one past the backstop.
Honest == {Sized(n, k, k, k) : n \in {2, 4}, k \in {"pdf", "docx", "html", "csv"}}
Odd ==
  {Sized(0, Unknown, Unknown, Unknown),
   Sized(4, Unknown, "csv", "csv"), Sized(4, "csv", Unknown, "csv"),
   Sized(4, "csv", "csv", Unknown), Sized(4, Unknown, Unknown, "csv"),
   Sized(4, Unknown, Unknown, "docx"), Sized(6, "pdf", "pdf", "pdf"),
   [Sized(4, "xlsx", "xlsx", "xlsx") EXCEPT !.ole = TRUE],
   [Sized(6, "pdf", "pdf", "pdf") EXCEPT !.stat = 0],
   [Sized(4, "csv", "csv", "csv") EXCEPT !.stat = 0]}
Specials == {Of("missing"), Of("dir"), Of("fifo")}

AllFiles == Honest \cup Odd \cup Specials
Replacements == {Of("fifo"), Of("dir"), Sized(6, "csv", "csv", "csv")}

Default == [surface |-> "convert", source |-> "path", format |-> Unnamed, ext |-> Unknown,
          backend |-> "auto", password |-> FALSE, pages |-> FALSE, max |-> NoLimit]

\* Every argument that some refusal of the surface reads.
Varied ==
  {[Default EXCEPT !.surface = s, !.source = o, !.format = f, !.backend = b, !.max = m,
                 !.password = p, !.ext = e, !.pages = g] :
     s \in {"convert", "geometry", "structure"}, o \in {"path", "data"},
     f \in {Unnamed, "pdf", "xlsx", "csv", "bogus"}, b \in {"auto", "oxide", "anydoc"},
     m \in {NoLimit, 0, 3}, p \in BOOLEAN, e \in {Unknown, "pdf"}, g \in BOOLEAN}

AllCalls ==
  {c \in Varied :
     /\ c.pages => c.surface = "convert" /\ c.max = NoLimit
     /\ c.password => c.surface # "structure" /\ ~c.pages
     /\ c.ext # Unknown => c.source = "path" /\ c.format = Unnamed}

\* A conversion, or a call on a PDF.
NoRequest ==
  /\ request = Call("geometry", Doc(<<W>>, Open_, FALSE, <<>>, <<>>)) /\ stage = "none"
  /\ todo = <<>> /\ spent = 0 /\ reply = NoAnswer

NoConversion ==
  /\ call = Default /\ path = Of("missing") /\ handle = path /\ phase = "none" /\ reading = "nothing"
  /\ ceiling = 0 /\ buf = 0 /\ answer = "none yet" /\ changes = MaxChanges

CallInit == (Init /\ NoRequest) \/ (NoConversion /\ PdfInit)

CallNext == (Next /\ UNCHANGED pdf_vars) \/ (PdfNext /\ UNCHANGED vars)

CallSpec == CallInit /\ [][CallNext]_<<vars, pdf_vars>>
=============================================================================
