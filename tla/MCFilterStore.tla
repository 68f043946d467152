--------------------------- MODULE MCFilterStore ---------------------------
(***************************************************************************)
(* FilterStore for TLC.  Three patterns: tgf is "tg-focus", word an        *)
(* ordinary one, quoted one that ends its TOML string; bad does not        *)
(* compile.  Message a contains "tg-focus" only, b contains the word only, *)
(* c contains both and n contains nothing.                                 *)
(***************************************************************************)
EXTENDS FilterStore

CONSTANTS tgf, word, quoted, bad, a, b, c, n

MCHits == ({tgf} \X Props \X {a, c}) \cup ({word} \X Props \X {b, c})
            \cup ({quoted} \X Props \X {n})

\* What a user leaves in the editor: no filter at all, which is refused; a
\* syntax error, which is refused; a text without the key, which is saved.
NoFilter == [kind |-> "ok", fs |-> << >>]
Broken == [kind |-> "bad", fs |-> << >>]
NoKey == [kind |-> "nokey", fs |-> << >>]

MCTexts == {NoFilter, Broken, NoKey}
MCArgs == -1 .. 3
NoTexts == {}
EditKeywords == {"keywords"}

=============================================================================
