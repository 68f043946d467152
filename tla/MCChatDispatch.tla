-------------------------- MODULE MCChatDispatch ---------------------------
(***************************************************************************)
(* ChatDispatch for TLC.  The pattern stop spells the word "pause", tgf    *)
(* and word spell no command, bad does not compile.                        *)
(***************************************************************************)
EXTENDS ChatDispatch

CONSTANTS tgf, word, stop, bad

MCMentions == [re \in Patterns |-> IF re = stop THEN {"pause"} ELSE {}]

\* A file, edited by hand, with a pattern that spells a command.
MCLoaded == {<<[TgFocusFilter EXCEPT !["titles"] = <<stop>>]>>}

T == W("TGFCMD")
Edit(id, action, re) == <<W("filter.edit"), Number(id), W("keywords"), W(action), Quoted(re)>>

\* Commands as documented.
Typed ==
  {<<T, W(name)>> : name \in {"pause", "resume", "filters", "rawfilters", "help", "filter.insert"}}
    \cup {<<T, W("filter.insert"), Number(2)>>, <<T, W("filter.remove"), Number(1)>>}
    \cup {<<T>> \o Edit(id, "add", word) : id \in {0, 1, 3}}
    \cup {<<T>> \o Edit(1, action, re) : action \in {"add", "del"}, re \in {tgf, stop, bad}}

\* Chatter, an unknown command, TGFCMD alone, and commands typed with a second
\* or a third TGFCMD.
Odd ==
  {<<W("other")>>, <<T>>, <<T, W("other")>>, <<T, T>>, <<T, T, W("other")>>}
    \cup {<<T, T, W(name)>> : name \in {"pause", "resume", "filters", "help", "filter.insert"}}
    \cup {<<T, T, W("filter.insert"), Number(1)>>, <<T, T, T, W("filter.insert"), Number(1)>>,
          <<T, T, W("filter.remove"), Number(1)>>, <<T, T>> \o Edit(1, "add", word)}

MCUserTexts == Typed \cup Odd
MCTheirTexts == {<<T, W("pause")>>, <<W("other")>>}

=============================================================================
