---------------------------- MODULE FilterLemmas ----------------------------
(***************************************************************************)
(* What the editing calls of a FilterGroup do, for any group, any id and   *)
(* any patterns: the facts that the proofs about FilterEdit, FilterStore   *)
(* and ChatDispatch share.                                                 *)
(***************************************************************************)
EXTENDS FilterMatch, SequenceTheorems, WellFoundedInduction, TLAPS

----------------------------------------------------------------------------
(***************************************************************************)
(* Sequences with an element inserted or removed.                          *)
(***************************************************************************)

\* Inserting keeps the type and yields a group with a filter.
LEMMA InsertAtType ==
  ASSUME NEW S, NEW s \in Seq(S), NEW e \in S, NEW i \in 1 .. Len(s) + 1
  PROVE  InsertAt(s, i, e) \in Seq(S) /\ InsertAt(s, i, e) # << >>
<1>1. SubSeq(s, 1, i - 1) \in Seq(S) /\ SubSeq(s, i, Len(s)) \in Seq(S)
  BY SubSeqProperties
<1>2. <<e>> \in Seq(S) /\ Len(<<e>>) = 1
  OBVIOUS
<1> DEFINE left == SubSeq(s, 1, i - 1) \o <<e>>
<1>3. left \in Seq(S) /\ Len(left) >= 1
  <2>1. Len(left) = Len(SubSeq(s, 1, i - 1)) + 1
    BY <1>1, <1>2, ConcatProperties
  <2> QED BY <1>1, <1>2, <2>1, ConcatProperties, LenProperties
<1> HIDE DEF left
<1>4. /\ left \o SubSeq(s, i, Len(s)) \in Seq(S)
      /\ Len(left \o SubSeq(s, i, Len(s))) >= 1
  BY <1>1, <1>3, ConcatProperties, LenProperties
<1> QED BY <1>4, Len(<< >>) = 0 DEF InsertAt, left

\* Removing keeps the type and the elements, and takes one off the length.
LEMMA RemoveAtType ==
  ASSUME NEW S, NEW s \in Seq(S), NEW i \in 1 .. Len(s)
  PROVE  /\ RemoveAt(s, i) \in Seq(S)
         /\ Len(RemoveAt(s, i)) = Len(s) - 1
         /\ \A k \in 1 .. Len(s) - 1 :
              RemoveAt(s, i)[k] = IF k < i THEN s[k] ELSE s[k + 1]
<1> DEFINE left == SubSeq(s, 1, i - 1)
           right == SubSeq(s, i + 1, Len(s))
<1>1. /\ left \in Seq(S) /\ Len(left) = i - 1
      /\ \A k \in 1 .. i - 1 : left[k] = s[k]
  BY SubSeqProperties
<1>2. /\ right \in Seq(S) /\ Len(right) = Len(s) - i
      /\ \A k \in 1 .. Len(s) - i : right[k] = s[i + k]
  BY SubSeqProperties
<1> HIDE DEF left, right
<1>3. /\ left \o right \in Seq(S)
      /\ Len(left \o right) = Len(s) - 1
      /\ \A k \in 1 .. Len(s) - 1 :
           (left \o right)[k] = IF k <= i - 1 THEN left[k] ELSE right[k - (i - 1)]
  <2>1. Len(left) + Len(right) = Len(s) - 1
    BY <1>1, <1>2, LenProperties
  <2>2. /\ left \o right \in Seq(S)
        /\ Len(left \o right) = Len(left) + Len(right)
        /\ \A k \in 1 .. Len(left) + Len(right) :
             (left \o right)[k] = IF k <= Len(left) THEN left[k] ELSE right[k - Len(left)]
    BY <1>1, <1>2, ConcatProperties
  <2> QED BY <1>1, <2>1, <2>2
<1>4. ASSUME NEW k \in 1 .. Len(s) - 1
      PROVE  (left \o right)[k] = IF k < i THEN s[k] ELSE s[k + 1]
  <2>1. CASE k < i
    BY <1>1, <1>3, <2>1
  <2>2. CASE k >= i
    <3>1. Len(s) \in Nat /\ i \in Int /\ k \in Int /\ k <= Len(s) - 1
      BY LenProperties
    <3>2. k - (i - 1) \in 1 .. Len(s) - i /\ i + (k - (i - 1)) = k + 1
      BY <2>2, <3>1
    <3>3. right[k - (i - 1)] = s[k + 1]
      BY <1>2, <3>2
    <3> QED BY <1>3, <2>2, <3>1, <3>3
  <2>3. k < i \/ k >= i
    BY LenProperties
  <2> QED BY <2>1, <2>2, <2>3
<1> QED BY <1>3, <1>4 DEF RemoveAt, left, right

\* A set of numbers that is not empty has a least member.
LEMMA LeastMember ==
  ASSUME NEW T, T \subseteq Nat, T # {}
  PROVE  /\ Min(T) \in T
         /\ \A y \in T : Min(T) <= y
<1>1. PICK x \in T : \A y \in T : ~ (<<y, x>> \in OpToRel(<, Nat))
  BY NatLessThanWellFounded, WFMin
<1>2. ASSUME NEW y \in T PROVE x <= y
  <2>1. OpToRel(<, Nat) = {ss \in Nat \X Nat : ss[1] < ss[2]}
    BY DEF OpToRel
  <2>2. <<y, x>> \in Nat \X Nat /\ ~ (y < x)
    BY <1>1, <2>1
  <2> QED BY <2>2
<1> QED BY <1>2 DEF Min

\* RemoveFirst keeps the type and adds no element.
LEMMA RemoveFirstType ==
  ASSUME NEW S, NEW s \in Seq(S), NEW e
  PROVE  /\ RemoveFirst(s, e) \in Seq(S)
         /\ \A k \in DOMAIN RemoveFirst(s, e) :
              \E j \in DOMAIN s : s[j] = RemoveFirst(s, e)[k]
<1> DEFINE found == {i \in 1 .. Len(s) : s[i] = e}
           first == SelectInSeq(s, LAMBDA v : v = e)
<1>1. CASE found = {}
  BY <1>1 DEF RemoveFirst
<1>2. CASE found # {}
  <2>1. first = Min(found)
    BY <1>2 DEF SelectInSeq
  <2>2. found \subseteq Nat
    BY LenProperties
  <2>3. first \in 1 .. Len(s)
    <3> HIDE DEF first
    <3>1. Min(found) \in found
      <4> HIDE DEF found
      <4> QED BY <1>2, <2>2, LeastMember
    <3> QED BY <2>1, <3>1
  <2>4. RemoveFirst(s, e) = RemoveAt(s, first)
    BY <1>2 DEF RemoveFirst
  <2> HIDE DEF first
  <2>5. /\ RemoveAt(s, first) \in Seq(S)
        /\ Len(RemoveAt(s, first)) = Len(s) - 1
        /\ \A k \in 1 .. Len(s) - 1 :
             RemoveAt(s, first)[k] = IF k < first THEN s[k] ELSE s[k + 1]
    BY <2>3, RemoveAtType
  <2>6. ASSUME NEW k \in DOMAIN RemoveAt(s, first)
        PROVE  \E j \in DOMAIN s : s[j] = RemoveAt(s, first)[k]
    <3>1. k \in 1 .. Len(s) - 1
      BY <2>5, LenProperties
    <3>2. k \in DOMAIN s /\ k + 1 \in DOMAIN s
      BY <3>1, LenProperties
    <3> QED BY <2>5, <3>1, <3>2
  <2> QED BY <2>4, <2>5, <2>6
<1> QED BY <1>1, <1>2

----------------------------------------------------------------------------
(***************************************************************************)
(* The calls, on filters whose patterns are in S.                          *)
(***************************************************************************)

FilterOf(S) == [Props -> Seq(S)]

\* What the parser and filter.insert start from.
LEMMA StartFilters ==
  ASSUME NEW S, TgFocus \in S
  PROVE  EmptyFilter \in FilterOf(S) /\ TgFocusFilter \in FilterOf(S)
<1>1. << >> \in Seq(S) /\ <<TgFocus>> \in Seq(S)
  OBVIOUS
<1> QED BY <1>1 DEF EmptyFilter, TgFocusFilter, FilterOf

\* A result with a truth value and a group that is well formed and not empty.
Sound(res, S) == res.ok \in BOOLEAN /\ res.fs \in Seq(FilterOf(S)) /\ res.fs # << >>

\* The conversions to u32 and i32.
LEMMA U32Type ==
  ASSUME NEW x \in Int
  PROVE  U32(x) \in 0 .. Word - 1 /\ I32(x) \in Int
<1>1. \A w \in Nat : w > 0 => x % w \in 0 .. w - 1
  OBVIOUS
<1>2. U32(x) \in 0 .. Word - 1
  BY <1>1, FilterAssumption DEF U32
<1> QED BY <1>2, FilterAssumption DEF I32

\* Each call keeps the group well formed and not empty.
LEMMA InsertKeeps ==
  ASSUME NEW S, TgFocus \in S, NEW g \in Seq(FilterOf(S)), g # << >>, NEW id \in Int
  PROVE  Sound(ins_filter(g, id), S)
<1> DEFINE idx == I32(id - 1)
           at == IF idx > Len(g) THEN Len(g) + 1 ELSE idx + 1
<1>1. idx \in Int
  BY U32Type
<1>2. CASE idx < 0
  BY <1>2 DEF ins_filter, Edited, Sound
<1>3. CASE idx >= 0
  <2>1. at \in 1 .. Len(g) + 1
    BY <1>1, <1>3, LenProperties
  <2>2. /\ InsertAt(g, at, TgFocusFilter) \in Seq(FilterOf(S))
        /\ InsertAt(g, at, TgFocusFilter) # << >>
    <3> HIDE DEF at
    <3> QED BY <2>1, InsertAtType, StartFilters
  <2>3. ins_filter(g, id) = Edited(TRUE, InsertAt(g, at, TgFocusFilter), at)
    <3>1. ~ (idx < 0)
      BY <1>1, <1>3
    <3> QED BY <3>1, Zenon DEF ins_filter
  <2> QED BY <2>2, <2>3 DEF Edited, Sound
<1> QED BY <1>1, <1>2, <1>3

LEMMA RemoveKeeps ==
  ASSUME NEW S, NEW g \in Seq(FilterOf(S)), g # << >>, NEW id \in Int
  PROVE  Sound(rm_filter(g, id), S)
<1> DEFINE idx == U32(id - 1)
<1>1. idx \in Nat
  <2>1. id - 1 \in Int
    OBVIOUS
  <2>2. idx \in 0 .. Word - 1
    BY <2>1, U32Type
  <2> QED BY <2>2, FilterAssumption
<1>2. CASE Len(g) = 1 \/ idx > Len(g) - 1
  BY <1>2 DEF rm_filter, Edited, Sound
<1>3. CASE ~ (Len(g) = 1 \/ idx > Len(g) - 1)
  <2>1. Len(g) \in Nat /\ Len(g) # 0
    BY EmptySeq, LenProperties
  <2>2. idx + 1 \in 1 .. Len(g) /\ Len(g) >= 2
    <3>1. Len(g) # 1 /\ ~ (idx > Len(g) - 1)
      BY <1>3
    <3>2. Len(g) >= 2
      <4>1. \A l \in Nat : l # 0 /\ l # 1 => l >= 2
        OBVIOUS
      <4> QED BY <2>1, <3>1, <4>1, Zenon
    <3>3. ASSUME NEW k \in Nat, ~ (k > Len(g) - 1) PROVE k + 1 \in 1 .. Len(g)
      BY <2>1, <3>3
    <3> QED BY <1>1, <3>1, <3>2, <3>3
  <2>3. RemoveAt(g, idx + 1) \in Seq(FilterOf(S)) /\ Len(RemoveAt(g, idx + 1)) >= 1
    <3> HIDE DEF idx
    <3> QED BY <2>1, <2>2, RemoveAtType
  <2>4. rm_filter(g, id) = Edited(TRUE, RemoveAt(g, idx + 1), id)
    BY <1>3 DEF rm_filter
  <2> QED BY <2>3, <2>4, Len(<< >>) = 0 DEF Edited, Sound
<1> QED BY <1>2, <1>3

\* The filter named by the result is the only one that is new or changed, and
\* the id that comes back is in use and no greater than the one that went in.
NamesItsFilter(res, g, id) ==
  /\ res.id \in 1 .. id
  /\ DOMAIN res.fs = DOMAIN g \cup {res.id}
  /\ \A i \in DOMAIN g \ {res.id} : res.fs[i] = g[i]

LEMMA AddKeeps ==
  ASSUME NEW S, Compiles \subseteq S, NEW g \in Seq(FilterOf(S)), g # << >>,
         NEW id \in Nat \ {0}, NEW p \in Props, NEW re
  PROVE  /\ Sound(add_one(g, id, p, re), S)
         /\ NamesItsFilter(add_one(g, id, p, re), g, id)
<1> DEFINE new == id > Len(g)
           fs == IF new THEN Append(g, EmptyFilter) ELSE g
           at == IF new THEN Len(g) + 1 ELSE id
           add == [fs EXCEPT ![at][p] = Append(@, re)]
<1>0. Len(g) \in Nat /\ DOMAIN g = 1 .. Len(g)
  BY LenProperties
<1>1. /\ fs \in Seq(FilterOf(S)) /\ fs # << >> /\ at \in 1 .. Len(fs) /\ at \in 1 .. id
      /\ DOMAIN fs = DOMAIN g \cup {at}
      /\ \A i \in DOMAIN g : fs[i] = g[i]
  <2>1. CASE new
    <3>1. EmptyFilter \in FilterOf(S)
      BY StartFilters, FilterAssumption
    <3>2. /\ Append(g, EmptyFilter) \in Seq(FilterOf(S))
          /\ Len(Append(g, EmptyFilter)) = Len(g) + 1
          /\ \A i \in 1 .. Len(g) : Append(g, EmptyFilter)[i] = g[i]
          /\ DOMAIN Append(g, EmptyFilter) = 1 .. Len(g) + 1
      BY <3>1, AppendProperties
    <3>3. 1 .. Len(g) + 1 = 1 .. Len(g) \cup {Len(g) + 1}
      BY <1>0
    <3>4. Append(g, EmptyFilter) # << >>
      BY <1>0, <3>2, Len(<< >>) = 0
    <3> QED BY <1>0, <2>1, <3>2, <3>3, <3>4
  <2>2. CASE ~ new
    BY <1>0, <2>2
  <2> QED BY <2>1, <2>2
<1>2. ASSUME re \in Compiles
      PROVE  /\ add \in Seq(FilterOf(S)) /\ add # << >> /\ DOMAIN add = DOMAIN fs
             /\ \A i \in DOMAIN fs \ {at} : add[i] = fs[i]
  <2> HIDE DEF fs, at, new
  <2>1. [fs[at] EXCEPT ![p] = Append(@, re)] \in FilterOf(S)
    <3>1. fs[at] \in FilterOf(S)
      BY <1>1, ElementOfSeq
    <3>2. Append(fs[at][p], re) \in Seq(S)
      BY <1>2, <3>1, AppendProperties DEF FilterOf
    <3> QED BY <3>1, <3>2 DEF FilterOf
  <2>2. add \in Seq(FilterOf(S)) /\ add # << >>
    BY <1>1, <2>1, ExceptSeq
  <2> QED BY <2>2
<1>3. add_one(g, id, p, re) = Edited(TRUE, IF re \in Compiles THEN add ELSE fs, at)
  <2>1. ~ (id < 1)
    OBVIOUS
  <2> QED BY <2>1, Zenon DEF add_one
<1> HIDE DEF add, fs, at
<1>4. CASE re \in Compiles
  <2>1. add_one(g, id, p, re) = Edited(TRUE, add, at)
    BY <1>3, <1>4
  <2> QED BY <1>1, <1>2, <1>4, <2>1 DEF Edited, Sound, NamesItsFilter
<1>5. CASE re \notin Compiles
  <2>1. add_one(g, id, p, re) = Edited(TRUE, fs, at)
    BY <1>3, <1>5
  <2> QED BY <1>1, <2>1 DEF Edited, Sound, NamesItsFilter
<1> QED BY <1>4, <1>5

LEMMA DeleteKeeps ==
  ASSUME NEW S, NEW g \in Seq(FilterOf(S)), g # << >>, NEW id \in Nat \ {0},
         NEW p \in Props, NEW re
  PROVE  /\ Sound(del_one(g, id, p, re), S)
         /\ NamesItsFilter(del_one(g, id, p, re), g, id)
<1> DEFINE at == IF id > Len(g) THEN Len(g) ELSE id
           del == [g EXCEPT ![at][p] = RemoveFirst(@, re)]
<1>0. Len(g) \in Nat /\ Len(g) # 0 /\ DOMAIN g = 1 .. Len(g)
  BY EmptySeq, LenProperties
<1>1. at \in 1 .. Len(g) /\ at \in 1 .. id
  BY <1>0
<1>2. /\ del \in Seq(FilterOf(S)) /\ del # << >> /\ DOMAIN del = DOMAIN g
      /\ \A i \in DOMAIN g \ {at} : del[i] = g[i]
  <2> HIDE DEF at
  <2>1. [g[at] EXCEPT ![p] = RemoveFirst(@, re)] \in FilterOf(S)
    <3>1. g[at] \in FilterOf(S)
      BY <1>1, ElementOfSeq
    <3>2. RemoveFirst(g[at][p], re) \in Seq(S)
      BY <3>1, RemoveFirstType DEF FilterOf
    <3> QED BY <3>1, <3>2 DEF FilterOf
  <2>2. del \in Seq(FilterOf(S)) /\ del # << >>
    BY <1>1, <2>1, ExceptSeq
  <2> QED BY <2>2
<1>3. del_one(g, id, p, re) = IF re \in Compiles THEN Edited(TRUE, del, at)
                                                ELSE Edited(FALSE, g, at)
  <2>1. ~ (id < 1)
    OBVIOUS
  <2> QED BY <2>1, Zenon DEF del_one
<1> HIDE DEF del, at
<1>4. DOMAIN g = DOMAIN g \cup {at}
  BY <1>0, <1>1
<1>5. CASE re \in Compiles
  <2>1. del_one(g, id, p, re) = Edited(TRUE, del, at)
    BY <1>3, <1>5
  <2> QED BY <1>1, <1>2, <1>4, <2>1 DEF Edited, Sound, NamesItsFilter
<1>6. CASE re \notin Compiles
  <2>1. del_one(g, id, p, re) = Edited(FALSE, g, at)
    BY <1>3, <1>6
  <2> QED BY <1>1, <1>4, <2>1 DEF Edited, Sound, NamesItsFilter
<1> QED BY <1>5, <1>6

=============================================================================
