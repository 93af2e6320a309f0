------------------------------- MODULE MCRepair -------------------------------
(***************************************************************************)
(* Small alphabets for TLC: each set of chunks aims at one group of the    *)
(* repairer's rules.  A chunk longer than a character is one push.         *)
(***************************************************************************)
EXTENDS RepairSession

Chars(S) == {<<c>> : c \in S}

\* Containers, members, separators and strings, one character a push.
StructureChunks == Chars({"{", "}", "[", "]", ",", ":", "\"", "1"})

\* Groups and deferred empty elements: the one-character decisions.
GroupChunks == Chars({"[", "]", "(", ")", ",", " ", "1"})

\* Whole tokens, so that several members and levels fit the bound.
DocumentChunks ==
  Chars({"[", "]", "}", "1"})
    \cup {<<"{", "\"", "a", "\"", ":">>, <<",", "\"", "b", "\"", ":">>,
          <<"[", "]">>, <<" ", ",">>, <<"\"", "\"">>}

\* Number runs, the roll-back, and the words born from them.
ScalarChunks ==
  Chars({"1", "-", ".", "e", ",", "x", "_"}) \cup {<<"[">>, <<"{", "a", ":">>, <<"t", "r", "u", "e">>}

\* Comments between the tokens of an array.
CommentChunks ==
  Chars({"[", "]", "1", "\n"})
    \cup {<<"[", "1", " ">>, <<"/", "/">>, <<"/", "*">>, <<"*", "/">>}

\* A slash that opens no comment.
SlashChunks == Chars({"[", "]", "1", "/"})

Calls(texts, n) == [chunks |-> texts, pushes |-> n]

\* One caller for each group of rules.
EveryCaller ==
  {Calls(StructureChunks, 5), Calls(GroupChunks, 5), Calls(DocumentChunks, 4),
   Calls(ScalarChunks, 4), Calls(CommentChunks, 5)}

SlashCaller == {Calls(SlashChunks, 4)}

=============================================================================
