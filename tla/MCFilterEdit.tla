---------------------------- MODULE MCFilterEdit ---------------------------
(***************************************************************************)
(* FilterEdit for TLC.  tgf is "tg-focus", word an ordinary pattern, bad   *)
(* one that does not compile.  Message a contains "tg-focus" only, b the   *)
(* word only, c both and n neither.                                        *)
(***************************************************************************)
EXTENDS FilterEdit

CONSTANTS tgf, word, bad, a, b, c, n

MCHits == ({tgf} \X Props \X {a, c}) \cup ({word} \X Props \X {b, c})

\* Ids in the group, one past its end, and one that is negative as an i32.
MCIds == {1, 2, 3, 15}
MCProps == {"keywords", "no-keywords"}

\* A file that also names a title and a sender.
MCLoaded == {<<[EmptyFilter EXCEPT !["titles"] = <<word, tgf>>],
               [TgFocusFilter EXCEPT !["senders"] = <<word>>, !["no-titles"] = <<tgf>>]>>}

=============================================================================
