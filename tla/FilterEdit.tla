---------------------------- MODULE FilterEdit -----------------------------
(***************************************************************************)
(* A FilterGroup in memory under any sequence of the calls the TGFCMD      *)
(* commands make: ins_filter, rm_filter, add_one and del_one.  The ids are *)
(* those that pass the checks of chatcmd.cc, u32 values of which a         *)
(* negative argument gives very large ones.                                *)
(***************************************************************************)
EXTENDS FilterMatch

CONSTANTS
  Loaded,      \* groups the parser makes of the filters file
  Ids,         \* filter ids a command passes on
  EditProps,   \* bound: the properties that are edited
  MaxFilters,  \* bound: filters in the group
  MaxPatterns  \* bound: patterns in a list

ASSUME EditAssumption ==
  /\ Loaded \subseteq Seq([Props -> Seq(Compiles)]) \ {<< >>}
  /\ Ids \subseteq 1 .. Word - 1
  /\ EditProps \subseteq Props
  /\ MaxFilters \in Nat /\ MaxPatterns \in Nat

VARIABLES
  filters,  \* FilterGroup::__filters
  done        \* what the last call returned

vars == <<filters, done>>

Bounded(g) == /\ Len(g) <= MaxFilters
              /\ \A i \in DOMAIN g : \A p \in Props : Len(g[i][p]) <= MaxPatterns

Return(res) ==
  /\ Bounded(res.fs)
  /\ filters' = res.fs
  /\ done' = res.ok

\* The default file's group, the fallback of the parser, or another one.
Init == /\ filters \in {<<TgFocusFilter>>, <<EmptyFilter>>} \cup Loaded
        /\ done = TRUE

InsertFilter(id) == Return(ins_filter(filters, id))
RemoveFilter(id) == Return(rm_filter(filters, id))
AddPattern(id, p, re) == Return(add_one(filters, id, p, re))
DeletePattern(id, p, re) == Return(del_one(filters, id, p, re))

Next == \E id \in Ids :
          \/ InsertFilter(id)
          \/ RemoveFilter(id)
          \/ \E p \in EditProps, re \in Patterns : \/ AddPattern(id, p, re)
                                                   \/ DeletePattern(id, p, re)

Spec == Init /\ [][Next]_vars

----------------------------------------------------------------------------
\* A group that started without bad patterns never holds one: every list has
\* only patterns that regcomp accepted.
TypeOK == /\ filters \in Seq([Props -> Seq(Compiles)])
          /\ done \in BOOLEAN

\* The group always has a filter, so that the expression size () - 1 of
\* rm_filter, add_one and del_one never wraps around.
GroupNeverEmpty == filters # << >>

\* The README's rule: "if there is any filter than can match the message and
\* not reject it, it will be forwarded", unless an earlier one rejects it.
Matches(f, m) == \A p \in Wants : f[p] # << >> => \E i \in DOMAIN f[p] : is_match(f[p][i], p, m)
Rejects(f, m) == \E p \in Bans : \E i \in DOMAIN f[p] : is_match(f[p][i], p, m)
DocumentedRule ==
  \A m \in Msgs :
    mtch_tgmsg(filters, m) <=>
      \E i \in DOMAIN filters : /\ Matches(filters[i], m)
                                  /\ \A j \in 1 .. i : ~ Rejects(filters[j], m)

\* The blacklist is one: a pattern added to a no-* list of an existing filter
\* never makes the group forward a message it did not forward, and one deleted
\* there never makes it withhold one (add_one, del_one and the order in which
\* Filter::mtch_tgmsg looks at its lists).
BansMonotone ==
  [][\A id \in Ids, p \in Bans \cap EditProps, re \in Patterns :
       id <= Len(filters) =>
         /\ AddPattern(id, p, re)
              => Forwards(filters') \subseteq Forwards(filters)
         /\ DeletePattern(id, p, re)
              => Forwards(filters) \subseteq Forwards(filters')]_vars

=============================================================================
