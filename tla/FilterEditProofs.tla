-------------------------- MODULE FilterEditProofs --------------------------
(***************************************************************************)
(* Theorems about FilterEdit, for any patterns, messages and ids.          *)
(***************************************************************************)
EXTENDS FilterEdit, FilterLemmas

GoodFilter == FilterOf(Compiles)

----------------------------------------------------------------------------
(***************************************************************************)
(* The type invariant and the group that is never empty.                   *)
(***************************************************************************)

IInv == TypeOK /\ GroupNeverEmpty

LEMMA Inductive == IInv /\ [Next]_vars => IInv'
<1> SUFFICES ASSUME IInv, [Next]_vars PROVE IInv'
  OBVIOUS
<1>0. filters \in Seq(GoodFilter) /\ filters # << >>
  BY DEF IInv, TypeOK, GroupNeverEmpty, GoodFilter, FilterOf
<1>1. ASSUME NEW res, Sound(res, Compiles), Return(res) PROVE IInv'
  BY <1>1 DEF Return, Sound, IInv, TypeOK, GroupNeverEmpty, FilterOf
<1> TgFocus \in Compiles /\ \A id \in Ids : id \in Int
  BY FilterAssumption, EditAssumption
<1>2. ASSUME NEW id \in Ids, InsertFilter(id) PROVE IInv'
  BY <1>0, <1>1, <1>2, InsertKeeps, Zenon DEF InsertFilter, GoodFilter
<1>3. ASSUME NEW id \in Ids, RemoveFilter(id) PROVE IInv'
  BY <1>0, <1>1, <1>3, RemoveKeeps, Zenon DEF RemoveFilter, GoodFilter
<1>4. ASSUME NEW id \in Ids, NEW p \in EditProps, NEW re \in Patterns,
             AddPattern(id, p, re)
      PROVE  IInv'
  <2>1. p \in Props /\ id \in Nat \ {0}
    BY EditAssumption, FilterAssumption
  <2> QED BY <1>0, <1>1, <1>4, <2>1, AddKeeps, Zenon DEF AddPattern, GoodFilter
<1>5. ASSUME NEW id \in Ids, NEW p \in EditProps, NEW re \in Patterns,
             DeletePattern(id, p, re)
      PROVE  IInv'
  <2>1. p \in Props /\ id \in Nat \ {0}
    BY EditAssumption, FilterAssumption
  <2> QED BY <1>0, <1>1, <1>5, <2>1, DeleteKeeps, Zenon DEF DeletePattern, GoodFilter
<1>6. CASE UNCHANGED vars
  BY <1>6 DEF vars, IInv, TypeOK, GroupNeverEmpty
<1> QED BY <1>2, <1>3, <1>4, <1>5, <1>6, Zenon DEF Next

LEMMA IInvInit == Init => IInv
<1> SUFFICES ASSUME Init PROVE IInv
  OBVIOUS
<1>1. <<TgFocusFilter>> \in Seq(GoodFilter) /\ <<EmptyFilter>> \in Seq(GoodFilter)
  BY StartFilters, FilterAssumption DEF GoodFilter
<1>2. <<TgFocusFilter>> # << >> /\ <<EmptyFilter>> # << >>
  OBVIOUS
<1> QED BY <1>1, <1>2, EditAssumption DEF Init, IInv, TypeOK, GroupNeverEmpty, GoodFilter, FilterOf

\* No call of the editing interface puts a pattern that does not compile into
\* a group that holds none (PosixExtRegex::is_pattern_accept in add_one).
THEOREM TypeCorrect == Spec => []TypeOK
<1>1. IInv => TypeOK
  BY DEF IInv
<1> QED BY <1>1, IInvInit, Inductive, PTL DEF Spec

\* Whatever is inserted and removed, a filter remains (rm_filter's guard).
THEOREM FilterRemains == Spec => []GroupNeverEmpty
<1>1. IInv => GroupNeverEmpty
  BY DEF IInv
<1> QED BY <1>1, IInvInit, Inductive, PTL DEF Spec

----------------------------------------------------------------------------
(***************************************************************************)
(* What a group decides.                                                   *)
(***************************************************************************)

\* The filter that decides is the first that does not skip, so the README's
\* rule, which asks that no filter up to it rejects, says the same.
LEMMA FirstDecides ==
  ASSUME NEW g \in Group, NEW m
  PROVE  mtch_tgmsg(g, m) <=>
           \E i \in DOMAIN g : /\ Matches(g[i], m)
                               /\ \A j \in 1 .. i : ~ Rejects(g[j], m)
<1>1. ASSUME NEW f
      PROVE  /\ FocusDecision(f, m) = "Reject" <=> Rejects(f, m)
             /\ FocusDecision(f, m) = "Accept" <=> ~ Rejects(f, m) /\ Matches(f, m)
             /\ FocusDecision(f, m) = "Skip" <=> ~ Rejects(f, m) /\ ~ Matches(f, m)
  BY DEF FocusDecision, Rejects, Matches, mtch, mtch_wants
<1>2. DOMAIN g = 1 .. Len(g) /\ Len(g) \in Nat
  BY LenProperties DEF Group
<1>3. ASSUME NEW i \in DOMAIN g, FocusDecision(g[i], m) = "Accept",
             \A j \in 1 .. i - 1 : FocusDecision(g[j], m) = "Skip"
      PROVE  Matches(g[i], m) /\ \A j \in 1 .. i : ~ Rejects(g[j], m)
  <2>1. ASSUME NEW j \in 1 .. i PROVE ~ Rejects(g[j], m)
    <3>1. j = i \/ j \in 1 .. i - 1
      BY <1>2
    <3> QED BY <1>1, <1>3, <3>1
  <2> QED BY <1>1, <1>3, <2>1
<1>4. ASSUME NEW i \in DOMAIN g, Matches(g[i], m),
             \A j \in 1 .. i : ~ Rejects(g[j], m)
      PROVE  mtch_tgmsg(g, m)
  <2> DEFINE T == {k \in 1 .. i : Matches(g[k], m)}
             first == Min(T)
  <2>1. T \subseteq Nat /\ i \in T
    BY <1>2, <1>4
  <2>2. first \in T /\ \A k \in T : first <= k
    <3> HIDE DEF T
    <3> QED BY <2>1, LeastMember
  <2> HIDE DEF first
  <2>3. first \in DOMAIN g /\ first \in 1 .. i
    BY <1>2, <2>2
  <2>4. FocusDecision(g[first], m) = "Accept"
    BY <1>1, <1>4, <2>2
  <2>5. ASSUME NEW j \in 1 .. first - 1 PROVE FocusDecision(g[j], m) = "Skip"
    <3>1. j \in 1 .. i /\ ~ (first <= j)
      BY <1>2, <2>3
    <3>2. ~ Matches(g[j], m)
      BY <2>2, <3>1
    <3> QED BY <1>1, <1>4, <3>1, <3>2
  <2> QED BY <2>3, <2>4, <2>5 DEF mtch_tgmsg
<1>5. ASSUME mtch_tgmsg(g, m)
      PROVE  \E i \in DOMAIN g : /\ Matches(g[i], m)
                                 /\ \A j \in 1 .. i : ~ Rejects(g[j], m)
  BY <1>3, <1>5, Zenon DEF mtch_tgmsg
<1> QED BY <1>4, <1>5, Zenon

\* A filter whose blacklist says more and whose whitelist is the same decides
\* the same or rejects.
LEMMA MoreBans ==
  ASSUME NEW f, NEW h, NEW m,
         \A p \in Wants : h[p] = f[p],
         \A p \in Bans : mtch(f, p, m) => mtch(h, p, m)
  PROVE  FocusDecision(h, m) \in {FocusDecision(f, m), "Reject"}
<1>1. \A p \in Wants : mtch_wants(h, p, m) <=> mtch_wants(f, p, m)
  BY DEF mtch_wants, mtch
<1> QED BY <1>1 DEF FocusDecision

\* A group in which some filters reject more forwards no more.
LEMMA MoreRejects ==
  ASSUME NEW g \in Group, NEW h \in Group, Len(h) = Len(g), NEW m,
         \A i \in DOMAIN g :
           FocusDecision(h[i], m) \in {FocusDecision(g[i], m), "Reject"},
         mtch_tgmsg(h, m)
  PROVE  mtch_tgmsg(g, m)
<1>1. DOMAIN g = 1 .. Len(g) /\ DOMAIN h = 1 .. Len(g) /\ Len(g) \in Nat
  BY LenProperties DEF Group
<1>2. PICK i \in DOMAIN h :
        /\ FocusDecision(h[i], m) = "Accept"
        /\ \A j \in 1 .. i - 1 : FocusDecision(h[j], m) = "Skip"
  BY DEF mtch_tgmsg
<1>3. i \in DOMAIN g /\ FocusDecision(g[i], m) = "Accept"
  BY <1>1, <1>2
<1>4. ASSUME NEW j \in 1 .. i - 1 PROVE FocusDecision(g[j], m) = "Skip"
  <2>1. j \in DOMAIN g
    BY <1>1
  <2> QED BY <1>2, <2>1
<1> QED BY <1>3, <1>4 DEF mtch_tgmsg

\* Replacing one list of one filter of a group.
Put(g, at, p, list) == [g EXCEPT ![at][p] = list]

\* Nothing else of the group changes.
LEMMA OneListChanged ==
  ASSUME NEW g \in Seq(GoodFilter), NEW at \in 1 .. Len(g), NEW p \in Bans,
         NEW list \in Seq(Compiles), NEW h, h = Put(g, at, p, list)
  PROVE  /\ h \in Seq(GoodFilter) /\ Len(h) = Len(g)
         /\ \A i \in 1 .. Len(g) : i # at => h[i] = g[i]
         /\ h[at][p] = list
         /\ \A q \in Props : q # p => h[at][q] = g[at][q]
<1> DEFINE f == [g[at] EXCEPT ![p] = list]
<1>1. g[at] \in GoodFilter /\ p \in Props
  BY ElementOfSeq DEF Props
<1>2. f \in GoodFilter /\ f[p] = list /\ \A q \in Props : q # p => f[q] = g[at][q]
  BY <1>1 DEF GoodFilter, FilterOf
<1>3. h = [g EXCEPT ![at] = f]
  BY DEF Put
<1> HIDE DEF f
<1>4. /\ [g EXCEPT ![at] = f] \in Seq(GoodFilter)
      /\ Len([g EXCEPT ![at] = f]) = Len(g)
      /\ \A i \in 1 .. Len(g) : [g EXCEPT ![at] = f][i] = IF i = at THEN f ELSE g[i]
  BY <1>2, ExceptSeq
<1> QED BY <1>2, <1>3, <1>4

\* One no-* list that loses no pattern: the group forwards no more.
LEMMA LongerBanNarrows ==
  ASSUME NEW g \in Seq(GoodFilter), NEW h \in Seq(GoodFilter), Len(h) = Len(g),
         NEW at \in 1 .. Len(g), NEW p \in Bans,
         \A i \in 1 .. Len(g) : i # at => h[i] = g[i],
         \A q \in Props : q # p => h[at][q] = g[at][q],
         \A k \in DOMAIN g[at][p] : \E j \in DOMAIN h[at][p] : h[at][p][j] = g[at][p][k]
  PROVE  Forwards(h) \subseteq Forwards(g)
<1>1. g \in Group /\ h \in Group /\ DOMAIN g = 1 .. Len(g)
  <2>1. GoodFilter \subseteq Filter
    BY FilterAssumption DEF GoodFilter, FilterOf, Filter
  <2> QED BY <2>1, LenProperties DEF Group
<1>2. ASSUME NEW m \in Msgs, NEW i \in DOMAIN g
      PROVE  FocusDecision(h[i], m) \in {FocusDecision(g[i], m), "Reject"}
  <2>1. CASE i # at
    BY <1>1, <2>1
  <2>2. CASE i = at
    <3>1. \A q \in Wants : h[at][q] = g[at][q]
      BY DEF Props, Wants, Bans
    <3>2. ASSUME NEW q \in Bans, mtch(g[at], q, m) PROVE mtch(h[at], q, m)
      <4>1. CASE q # p
        BY <3>2, <4>1 DEF mtch, Props
      <4>2. CASE q = p
        BY <3>2, <4>2 DEF mtch
      <4> QED BY <4>1, <4>2
    <3> QED BY <2>2, <3>1, <3>2, MoreBans
  <2> QED BY <2>1, <2>2
<1> QED BY <1>1, <1>2, MoreRejects DEF Forwards

\* The README's rule holds of every group the edits produce (mtch_tgmsg).
THEOREM RuleAsDocumented == Spec => []DocumentedRule
<1>1. IInv => DocumentedRule
  <2> SUFFICES ASSUME IInv PROVE DocumentedRule
    OBVIOUS
  <2>1. filters \in Group
    <3>1. GoodFilter \subseteq Filter
      BY FilterAssumption DEF GoodFilter, FilterOf, Filter
    <3> QED BY <3>1 DEF IInv, TypeOK, Group, GoodFilter, FilterOf
  <2> QED BY <2>1, FirstDecides DEF DocumentedRule
<1> QED BY <1>1, IInvInit, Inductive, PTL DEF Spec

\* Adding to a no-* list never makes a group forward more, deleting there never
\* less, for any patterns and any messages (add_one, del_one, mtch_tgmsg).
THEOREM BlacklistMonotone == Spec => BansMonotone
<1> DEFINE Goal == \A id \in Ids, p \in Bans \cap EditProps, re \in Patterns :
                     id <= Len(filters) =>
                       /\ AddPattern(id, p, re)
                            => Forwards(filters') \subseteq Forwards(filters)
                       /\ DeletePattern(id, p, re)
                            => Forwards(filters) \subseteq Forwards(filters')
<1>1. IInv => Goal
  <2> SUFFICES ASSUME IInv, NEW id \in Ids, NEW p \in Bans, p \in EditProps,
                      NEW re \in Patterns, id <= Len(filters)
               PROVE  /\ AddPattern(id, p, re)
                           => Forwards(filters') \subseteq Forwards(filters)
                      /\ DeletePattern(id, p, re)
                           => Forwards(filters) \subseteq Forwards(filters')
    OBVIOUS
  <2>1. filters \in Seq(GoodFilter)
    BY DEF IInv, TypeOK, GoodFilter, FilterOf
  <2>2. id \in 1 .. Len(filters) /\ ~ (id < 1) /\ ~ (id > Len(filters))
    BY <2>1, LenProperties, EditAssumption, FilterAssumption
  <2>3. filters[id] \in GoodFilter /\ filters[id][p] \in Seq(Compiles)
    <3>1. filters[id] \in GoodFilter
      BY <2>1, <2>2, ElementOfSeq
    <3> QED BY <3>1 DEF GoodFilter, FilterOf, Props
  <2>4. ASSUME AddPattern(id, p, re)
        PROVE  Forwards(filters') \subseteq Forwards(filters)
    <3>1. CASE re \notin Compiles
      BY <2>2, <2>4, <3>1 DEF AddPattern, Return, add_one, Edited
    <3>2. CASE re \in Compiles
      <4> DEFINE list == Append(filters[id][p], re)
                 h == filters'
      <4>1. h = Put(filters, id, p, list)
        BY <2>2, <2>4, <3>2 DEF AddPattern, Return, add_one, Edited, Put
      <4>2. list \in Seq(Compiles)
        BY <2>3, <3>2, AppendProperties
      <4>3. ASSUME NEW k \in DOMAIN filters[id][p]
            PROVE  \E j \in DOMAIN list : list[j] = filters[id][p][k]
        BY <2>3, <3>2, AppendProperties, LenProperties
      <4> HIDE DEF list, h
      <4>4. /\ h \in Seq(GoodFilter) /\ Len(h) = Len(filters)
            /\ \A i \in 1 .. Len(filters) : i # id => h[i] = filters[i]
            /\ h[id][p] = list
            /\ \A q \in Props : q # p => h[id][q] = filters[id][q]
        BY <2>1, <2>2, <4>1, <4>2, OneListChanged
      <4>5. Forwards(h) \subseteq Forwards(filters)
        BY <2>1, <2>2, <4>3, <4>4, LongerBanNarrows
      <4> QED BY <4>5 DEF h
    <3> QED BY <3>1, <3>2
  <2>5. ASSUME DeletePattern(id, p, re)
        PROVE  Forwards(filters) \subseteq Forwards(filters')
    <3>1. CASE re \notin Compiles
      BY <2>2, <2>5, <3>1 DEF DeletePattern, Return, del_one, Edited
    <3>2. CASE re \in Compiles
      <4> DEFINE list == RemoveFirst(filters[id][p], re)
                 h == filters'
      <4>1. h = Put(filters, id, p, list)
        BY <2>2, <2>5, <3>2 DEF DeletePattern, Return, del_one, Edited, Put
      <4>2. list \in Seq(Compiles)
        BY <2>3, RemoveFirstType
      <4>3. \A k \in DOMAIN list : \E j \in DOMAIN filters[id][p] : filters[id][p][j] = list[k]
        BY <2>3, RemoveFirstType
      <4> HIDE DEF list, h
      <4>4. /\ h \in Seq(GoodFilter) /\ Len(h) = Len(filters)
            /\ \A i \in 1 .. Len(filters) : i # id => h[i] = filters[i]
            /\ h[id][p] = list
            /\ \A q \in Props : q # p => h[id][q] = filters[id][q]
        BY <2>1, <2>2, <4>1, <4>2, OneListChanged
      <4>5. Forwards(filters) \subseteq Forwards(h)
        BY <2>1, <2>2, <4>3, <4>4, LongerBanNarrows
      <4> QED BY <4>5 DEF h
    <3> QED BY <3>1, <3>2
  <2> QED BY <2>4, <2>5
<1>2. IInv /\ [Next]_vars => [Goal]_vars
  BY <1>1
<1> HIDE DEF Goal
<1> QED BY <1>2, IInvInit, Inductive, PTL DEF Spec, BansMonotone, Goal

=============================================================================
