-------------------------------- MODULE Cover --------------------------------
(* What a covering chunker of tors promises, whatever boundaries it cuts at: *)
(* spans of codepoints that start at 0, leave no gap, advance strictly at    *)
(* both ends, and are handed over only once they reach the end of the text   *)
(* (src/src/chunk_budget_impl.rs, module docs, "Forward progress is          *)
(* unconditional").  A refused call hands over nothing.                      *)
EXTENDS Naturals, Sequences

VARIABLES total, spans, status

Init == /\ total \in Nat
        /\ spans = <<>>
        /\ status = "packing"

\* A span that continues the cover: it overlaps or abuts the one before it.
Continues(s, e) ==
  IF spans = <<>>
    THEN s = 0
    ELSE LET p == spans[Len(spans)]
         IN  p.start < s /\ s <= p.end /\ p.end < e

Emit == /\ status = "packing"
        /\ \E s, e \in 0..total :
             /\ s < e
             /\ Continues(s, e)
             /\ spans' = Append(spans, [start |-> s, end |-> e])
             /\ status' = IF e = total THEN "covered" ELSE "packing"
        /\ UNCHANGED total

\* Only the empty text is covered by no span.
Nothing == /\ status = "packing"
           /\ total = 0
           /\ status' = "covered"
           /\ UNCHANGED <<total, spans>>

Refuse == /\ status = "packing"
          /\ status' = "refused"
          /\ UNCHANGED <<total, spans>>

Next == Emit \/ Nothing \/ Refuse

Spec == Init /\ [][Next]_<<total, spans, status>>
==============================================================================
