---------------------------- MODULE FilterMatch ----------------------------
(***************************************************************************)
(* The focus filters of filter.hh: how a filter and a group of filters     *)
(* decide about a message, and how the TGFCMD commands edit a group.       *)
(*                                                                         *)
(* A regular expression is a member of Patterns.  What regcomp and regexec *)
(* say of it is given by Compiles and Hits; what matters of its spelling   *)
(* is whether it survives between the quotes of a TOML string (Unsafe).    *)
(* A filter maps each property to its list of patterns, a group is a       *)
(* sequence of filters.                                                    *)
(***************************************************************************)
EXTENDS Integers, Sequences, SequencesExt

CONSTANTS
  Patterns,  \* regular expressions
  Compiles,  \* those regcomp accepts
  Unsafe,    \* those whose quote or line break ends the TOML string early
  TgFocus,   \* the pattern "tg-focus"
  Msgs,      \* messages
  Hits,      \* <<re, p, m>>: regexec finds re in the part of m that p names
  Word       \* 2^32: the modulus of u32

Wants == {"titles", "senders", "keywords"}
Bans == {"no-titles", "no-senders", "no-keywords"}
Props == Wants \cup Bans
Filter == [Props -> Seq(Patterns)]
Group == Seq(Filter)

ASSUME FilterAssumption ==
  /\ Compiles \subseteq Patterns
  /\ Unsafe \subseteq Patterns
  /\ TgFocus \in Compiles \ Unsafe
  /\ Word \in Nat /\ Word > 2

----------------------------------------------------------------------------
\* PosixExtRegex::is_match: a pattern that did not compile matches nothing.
is_match(re, p, m) == re \in Compiles /\ <<re, p, m>> \in Hits

\* One of the patterns of a list matches.
mtch(f, p, m) == \E i \in DOMAIN f[p] : is_match(f[p][i], p, m)

\* mtch_titles, mtch_senders, mtch_keywords: an empty list matches anything.
mtch_wants(f, p, m) == f[p] = << >> \/ mtch(f, p, m)

\* Filter::mtch_tgmsg: the blacklist is looked at before the whitelist.
FocusDecision(f, m) ==
  IF \E p \in Bans : mtch(f, p, m) THEN "Reject"
  ELSE IF \A p \in Wants : mtch_wants(f, p, m) THEN "Accept"
  ELSE "Skip"

\* A mutant: a later filter is tried after one that rejects.
mtch_tgmsgAny(g, m) == \E i \in DOMAIN g : FocusDecision(g[i], m) = "Accept"

\* FilterGroup::mtch_tgmsg: the first filter that does not skip the message
\* decides; when all skip, the message is not wanted.
mtch_tgmsg(g, m) ==
  \E i \in DOMAIN g : /\ FocusDecision(g[i], m) = "Accept"
                      /\ \A j \in 1 .. i - 1 : FocusDecision(g[j], m) = "Skip"

\* What a group forwards.
Forwards(g) == {m \in Msgs : mtch_tgmsg(g, m)}

----------------------------------------------------------------------------
\* The empty filter accepts every message; the one filter.insert creates
\* asks for the keyword "tg-focus".
EmptyFilter == [p \in Props |-> << >>]
TgFocusFilter == [EmptyFilter EXCEPT !["keywords"] = <<TgFocus>>]

\* An edited group: whether the edit reports success, the filters, and the
\* id the caller's u32 holds afterwards.
Edited(ok, fs, id) == [ok |-> ok, fs |-> fs, id |-> id]

\* A mutant: the result of atoi stays signed.
U32Signed(x) == x

U32(x) == x % Word

I32(x) == IF U32(x) < Word \div 2 THEN U32(x) ELSE U32(x) - Word

\* FilterGroup::ins_filter: the index is an i32, an id beyond the end
\* inserts at the end.
ins_filter(g, which) ==
  LET idx == I32(which - 1)
      at == IF idx > Len(g) THEN Len(g) + 1 ELSE idx + 1
  IN IF idx < 0 THEN Edited(FALSE, g, which)
                ELSE Edited(TRUE, InsertAt(g, at, TgFocusFilter), at)

\* A mutant: the only filter can be removed.
rm_filterLast(g, which) ==
  LET idx == U32(which - 1)
  IN IF idx > Len(g) - 1 THEN Edited(FALSE, g, which)
                         ELSE Edited(TRUE, RemoveAt(g, idx + 1), which)

\* FilterGroup::rm_filter: the index is a u32, the only filter stays.  This
\* and the next two compute size () - 1 and are only right on a group that
\* has a filter.
rm_filter(g, which) ==
  LET idx == U32(which - 1)
  IN IF Len(g) = 1 \/ idx > Len(g) - 1 THEN Edited(FALSE, g, which)
                                       ELSE Edited(TRUE, RemoveAt(g, idx + 1), which)

\* A mutant: the caller's id keeps its value when a filter is appended.
add_oneStaleId(g, which, p, re) ==
  LET new == which > Len(g)
      fs == IF new THEN Append(g, EmptyFilter) ELSE g
      at == IF new THEN Len(g) + 1 ELSE which
  IN Edited(TRUE, [fs EXCEPT ![at][p] = Append(@, re)], which)

\* A mutant: the pattern is not checked.
add_oneUnchecked(g, which, p, re) ==
  LET new == which > Len(g)
      fs == IF new THEN Append(g, EmptyFilter) ELSE g
      at == IF new THEN Len(g) + 1 ELSE which
  IN Edited(TRUE, [fs EXCEPT ![at][p] = Append(@, re)], at)

\* A mutant: the list is assigned instead of extended.
add_oneAssigns(g, which, p, re) ==
  LET fs == IF which > Len(g) THEN Append(g, EmptyFilter) ELSE g
      at == IF which > Len(g) THEN Len(g) + 1 ELSE which
  IN Edited(TRUE, IF re \in Compiles THEN [fs EXCEPT ![at][p] = <<re>>] ELSE fs, at)

\* FilterGroup::add_one: an id beyond the end appends an empty filter first
\* and names that one.  Neither an id of 0 nor a bad pattern is reported.
add_one(g, which, p, re) ==
  LET new == which > Len(g)
      fs == IF new THEN Append(g, EmptyFilter) ELSE g
      at == IF new THEN Len(g) + 1 ELSE which
  IN IF which < 1 THEN Edited(TRUE, g, which)
     ELSE Edited(TRUE,
                 IF re \in Compiles THEN [fs EXCEPT ![at][p] = Append(@, re)] ELSE fs,
                 at)

\* FilterGroup::del_one: an id beyond the end names the last filter; the
\* first equal pattern goes, and a pattern that is not there is no failure.
del_one(g, which, p, re) ==
  LET at == IF which > Len(g) THEN Len(g) ELSE which
  IN IF which < 1 THEN Edited(FALSE, g, which)
     ELSE IF re \notin Compiles THEN Edited(FALSE, g, at)
     ELSE Edited(TRUE, [g EXCEPT ![at][p] = RemoveFirst(@, re)], at)

----------------------------------------------------------------------------
\* The text of the filters file: what the TOML parser finds in it.
\*   empty  no bytes          bad  a syntax error
\*   nokey  no focus-filter   ok   the filters fs
Text == [kind : {"empty", "nokey", "bad", "ok"}, fs : Group]
Empty == [kind |-> "empty", fs |-> << >>]

\* FilterGroupToml's constructor: whatever goes wrong, the group is one
\* filter with empty lists.
Parse(t) == IF t.kind = "ok" THEN t.fs ELSE <<EmptyFilter>>

\* FilterGroupToml::as_fsdata: escape() doubles a backslash and leaves a
\* quote or a line break as it is, which ends the string.
as_fsdata(g) ==
  IF g = << >> THEN Empty
  ELSE IF \E i \in DOMAIN g : \E p \in Props : \E k \in DOMAIN g[i][p] : g[i][p][k] \in Unsafe
       THEN [kind |-> "bad", fs |-> << >>]
       ELSE [kind |-> "ok", fs |-> g]

=============================================================================
