-------------------------- MODULE FilterStoreProofs -------------------------
(***************************************************************************)
(* The safety properties of FilterStore, for any patterns, ids and texts.  *)
(* The inductive invariant adds to the properties themselves that no text  *)
(* on its way to the file is a group without filters (FilledInv), that the *)
(* file is being written by the holder of the lock only (LockInv), and     *)
(* that the daemon has nothing to write between two commands (IdleInv).    *)
(***************************************************************************)
EXTENDS FilterStore, FilterLemmas

USE FilterAssumption, StoreAssumption

----------------------------------------------------------------------------
(***************************************************************************)
(* The invariants.                                                         *)
(***************************************************************************)

Filled(t) == Parse(t) # << >>

\* The text that `tgfocus filters` has verified may be emptied by another start
\* of the program before it is read again, but that is no group without
\* filters either.
FilledInv ==
  /\ Filled(file)
  /\ \A w \in Writers : Filled(out[w])
  /\ pc["cli"] = "reload" => Filled(tmp)

LockInv == \A w \in Writers : pc[w] \in {"open", "write", "unlock"} => lock = w

FileInv == file = saved \/ \E w \in Writers : pc[w] = "write" /\ file = Empty

IdleInv == pc["chat"] = "idle" => out["chat"] = Empty

IInv == TypeOK /\ FilledInv /\ LockInv /\ FileInv /\ IdleInv

----------------------------------------------------------------------------
(***************************************************************************)
(* Texts.                                                                  *)
(***************************************************************************)

LEMMA EmptyText == Empty \in Text /\ Filled(Empty)
<1>1. << >> \in Group
  BY DEF Group
<1> QED BY <1>1 DEF Empty, Text, Filled, Parse

\* What is parsed is a group of filters.
LEMMA ParseType ==
  ASSUME NEW t \in Text
  PROVE  Parse(t) \in Group
<1>1. EmptyFilter \in Filter
  BY StartFilters DEF FilterOf, Filter
<1>2. <<EmptyFilter>> \in Group
  BY <1>1 DEF Group
<1> QED BY <1>2 DEF Parse, Text

\* What is written for a group with a filter is a text, never one that holds a
\* group without filters; when it is read as it was meant it holds that group.
LEMMA WrittenText ==
  ASSUME NEW g \in Group, g # << >>
  PROVE  /\ as_fsdata(g) \in Text /\ Filled(as_fsdata(g))
         /\ as_fsdata(g).kind = "ok" => as_fsdata(g).fs = g
<1>1. << >> \in Group
  BY DEF Group
<1>2. as_fsdata(g) \in {[kind |-> "bad", fs |-> << >>], [kind |-> "ok", fs |-> g]}
  BY DEF as_fsdata
<1>3. CASE as_fsdata(g) = [kind |-> "bad", fs |-> << >>]
  BY <1>1, <1>3 DEF Text, Filled, Parse
<1>4. CASE as_fsdata(g) = [kind |-> "ok", fs |-> g]
  BY <1>1, <1>4 DEF Text, Filled, Parse
<1> QED BY <1>2, <1>3, <1>4

LEMMA GroupIs == Group = Seq(FilterOf(Patterns)) /\ TgFocus \in Patterns
  BY DEF Group, Filter, FilterOf

----------------------------------------------------------------------------
(***************************************************************************)
(* The commands of the chat.                                               *)
(***************************************************************************)

LEMMA RefuseKeeps == ASSUME IInv, Refuse PROVE IInv'
<1>1. reply' \in [what : {"none", "success", "failed"}, id : 0 .. Word - 1]
  BY DEF Refuse
<1>2. UNCHANGED <<file, lock, saved, leaked, tmp, pc, out, decided>>
  BY DEF Refuse, disk
<1> QED BY <1>1, <1>2 DEF IInv, TypeOK, FilledInv, LockInv, FileInv, IdleInv

LEMMA StoreKeeps ==
  ASSUME IInv, pc["chat"] = "idle", NEW fs \in Group, fs # << >>,
         NEW id \in 0 .. Word - 1, Store(fs, id)
  PROVE  IInv'
<1> USE DEF IInv
<1>1. /\ out' = [out EXCEPT !["chat"] = as_fsdata(fs)]
      /\ pc' = [pc EXCEPT !["chat"] = "lock"]
      /\ reply' = [what |-> "none", id |-> id]
      /\ UNCHANGED <<file, lock, saved, leaked, tmp, decided>>
  BY DEF Store, disk
<1>2. TypeOK'
  BY <1>1, WrittenText DEF TypeOK, PC
<1>3. /\ \A w \in Writers : out'[w] = IF w = "chat" THEN as_fsdata(fs) ELSE out[w]
      /\ pc'["chat"] = "lock" /\ \A w \in Writers : w # "chat" => pc'[w] = pc[w]
  BY <1>1 DEF TypeOK, Writers
<1>4. FilledInv'
  BY <1>1, <1>3, WrittenText DEF FilledInv, Writers
<1>5. LockInv' /\ IdleInv'
  BY <1>1, <1>3 DEF LockInv, IdleInv
<1>6. FileInv'
  BY <1>1, <1>3 DEF FileInv
<1> QED BY <1>2, <1>4, <1>5, <1>6

LEMMA CommandKeeps == ASSUME IInv, Command PROVE IInv'
<1> DEFINE g == Parse(file)
<1>1. g \in Seq(FilterOf(Patterns)) /\ g # << >>
  BY ParseType, GroupIs DEF IInv, TypeOK, FilledInv, Filled
<1> HIDE DEF g
<1>2. ASSUME NEW arg \in Int, arg < Word, InsFilter(arg) PROVE IInv'
  <2>1. pc["chat"] = "idle" /\ \/ Refuse
                               \/ arg > 0 /\ Store(ins_filter(g, arg).fs, arg)
    BY <1>2 DEF InsFilter, g
  <2>2. Sound(ins_filter(g, arg), Patterns)
    BY <1>1, InsertKeeps, GroupIs
  <2>3. ins_filter(g, arg).fs \in Group /\ ins_filter(g, arg).fs # << >>
    BY <2>2, GroupIs DEF Sound
  <2>4. arg > 0 => arg \in 0 .. Word - 1
    BY <1>2
  <2> QED BY <2>1, <2>3, <2>4, RefuseKeeps, StoreKeeps
<1>3. ASSUME NEW arg \in Args PROVE arg \in Int /\ arg < Word /\ U32(arg) \in 0 .. Word - 1
  <2>1. arg \in Int /\ arg < Word
    OBVIOUS
  <2> QED BY <2>1, U32Type
<1>4. ASSUME NEW arg \in Args, RmFilter(arg) PROVE IInv'
  <2> DEFINE id == U32(arg)
  <2>1. id \in 0 .. Word - 1 /\ id \in Int
    BY <1>3
  <2>2. pc["chat"] = "idle" /\ (Refuse \/ Store(rm_filter(g, id).fs, id))
    BY <1>4 DEF RmFilter, g
  <2> HIDE DEF id
  <2>3. Sound(rm_filter(g, id), Patterns)
    BY <1>1, <2>1, RemoveKeeps
  <2> QED BY <2>1, <2>2, <2>3, RefuseKeeps, StoreKeeps, GroupIs DEF Sound
<1>5. ASSUME NEW arg \in Args, NEW p \in EditProps, NEW action \in {"add", "del"},
             NEW re \in Patterns, EditFilter(arg, p, action, re)
      PROVE  IInv'
  <2> DEFINE id == U32(arg)
             res == IF action = "add" THEN add_one(g, id, p, re) ELSE del_one(g, id, p, re)
  <2>1. id \in 0 .. Word - 1 /\ p \in Props
    BY <1>3
  <2>2. pc["chat"] = "idle" /\ (Refuse \/ (id # 0 /\ Store(res.fs, res.id)))
    <3>1. /\ pc["chat"] = "idle"
          /\ IF id = 0 \/ re \notin Compiles \/ ~ res.ok THEN Refuse
                                                        ELSE Store(res.fs, res.id)
      BY <1>5, Zenon DEF EditFilter, g
    <3> HIDE DEF id, res
    <3> QED BY <3>1
  <2> HIDE DEF id
  <2>3. ASSUME id # 0 PROVE res.fs \in Group /\ res.fs # << >> /\ res.id \in 0 .. Word - 1
    <3>1. id \in Nat \ {0}
      BY <2>1, <2>3
    <3>2. Sound(res, Patterns) /\ NamesItsFilter(res, g, id)
      BY <1>1, <2>1, <3>1, AddKeeps, DeleteKeeps
    <3> HIDE DEF res
    <3>3. res.fs \in Group /\ res.fs # << >>
      BY <3>2, GroupIs DEF Sound
    <3>4. res.id \in 1 .. id
      BY <3>2 DEF NamesItsFilter
    <3> QED BY <2>1, <3>3, <3>4
  <2> HIDE DEF res
  <2> QED BY <2>2, <2>3, RefuseKeeps, StoreKeeps
<1>6. CASE InsFilterNoId
  <2>1. Word - 1 \in Int /\ Word - 1 < Word
    OBVIOUS
  <2> QED BY <1>2, <1>6, <2>1 DEF InsFilterNoId
<1>7. CASE IllFormed
  BY <1>7, RefuseKeeps DEF IllFormed
<1> QED BY <1>2, <1>3, <1>4, <1>5, <1>6, <1>7 DEF Command

----------------------------------------------------------------------------
(***************************************************************************)
(* tgfocus filters, and set_filters.                                       *)
(***************************************************************************)

LEMMA CliKeeps ==
  ASSUME IInv, CliPrepare \/ CliEdit \/ CliVerify \/ CliReload \/ OtherStart
  PROVE  IInv'
<1> USE DEF IInv, disk, CliGoto
<1>1. ASSUME NEW to \in {"editor", "verify", "idle"}, pc["cli"] \notin {"open", "write", "unlock"},
             pc' = [pc EXCEPT !["cli"] = to], tmp' \in Text,
             UNCHANGED <<file, lock, saved, leaked, out, reply, decided>>
      PROVE  IInv'
  <2>1. pc'["cli"] = to /\ pc'["chat"] = pc["chat"] /\ \A w \in Writers : w # "cli" => pc'[w] = pc[w]
    BY <1>1 DEF TypeOK, Writers
  <2>2. TypeOK'
    BY <1>1 DEF TypeOK, PC
  <2>3. FilledInv' /\ IdleInv'
    BY <1>1, <2>1 DEF FilledInv, IdleInv
  <2>4. LockInv' /\ FileInv'
    BY <1>1, <2>1 DEF LockInv, FileInv
  <2> QED BY <2>2, <2>3, <2>4
<1>2. CASE CliPrepare
  BY <1>1, <1>2 DEF CliPrepare, TypeOK
<1>3. CASE CliEdit
  BY <1>1, <1>3 DEF CliEdit, TypeOK
<1>4. CASE CliVerify
  <2>1. CASE tmp.kind = "bad" \/ Parse(tmp) = << >>
    BY <1>1, <1>4, <2>1 DEF CliVerify, TypeOK
  <2>2. CASE ~ (tmp.kind = "bad" \/ Parse(tmp) = << >>)
    <3>1. /\ pc["cli"] = "verify" /\ pc' = [pc EXCEPT !["cli"] = "reload"]
          /\ UNCHANGED <<file, lock, saved, leaked, tmp, out, reply, decided>>
      BY <1>4, <2>2 DEF CliVerify
    <3>2. pc'["cli"] = "reload" /\ \A w \in Writers : w # "cli" => pc'[w] = pc[w]
      BY <3>1 DEF TypeOK, Writers
    <3>3. TypeOK' /\ LockInv' /\ FileInv'
      BY <3>1, <3>2 DEF TypeOK, PC, LockInv, FileInv
    <3>4. FilledInv' /\ IdleInv'
      BY <2>2, <3>1, <3>2 DEF FilledInv, Filled, IdleInv, Writers
    <3> QED BY <3>3, <3>4
  <2> QED BY <2>1, <2>2
<1>5. CASE CliReload
  <2>1. /\ pc["cli"] = "reload" /\ pc' = [pc EXCEPT !["cli"] = "lock"]
        /\ out' = [out EXCEPT !["cli"] = tmp]
        /\ UNCHANGED <<file, lock, saved, leaked, tmp, reply, decided>>
    BY <1>5 DEF CliReload
  <2>2. /\ pc'["cli"] = "lock" /\ \A w \in Writers : w # "cli" => pc'[w] = pc[w]
        /\ \A w \in Writers : out'[w] = IF w = "cli" THEN tmp ELSE out[w]
    BY <2>1 DEF TypeOK, Writers
  <2>3. TypeOK' /\ LockInv' /\ FileInv'
    BY <2>1, <2>2 DEF TypeOK, PC, LockInv, FileInv
  <2>4. FilledInv' /\ IdleInv'
    BY <2>1, <2>2 DEF FilledInv, IdleInv, Writers
  <2> QED BY <2>3, <2>4
<1>6. CASE OtherStart
  <2>1. tmp' = Empty /\ UNCHANGED <<file, lock, saved, leaked, pc, out, reply, decided>>
    BY <1>6 DEF OtherStart
  <2> QED BY <2>1, EmptyText DEF TypeOK, FilledInv, LockInv, FileInv, IdleInv
<1> QED BY <1>2, <1>3, <1>4, <1>5, <1>6

LEMMA FinishEffect ==
  ASSUME TypeOK, NEW w \in Writers, Finish(w)
  PROVE  /\ out' \in [Writers -> Text]
         /\ reply' \in [what : {"none", "success", "failed"}, id : 0 .. Word - 1]
         /\ out'[w] = Empty /\ \A v \in Writers : v # w => out'[v] = out[v]
         /\ UNCHANGED <<tmp, decided>>
<1>1. out' = [out EXCEPT ![w] = Empty] /\ UNCHANGED <<tmp, decided>>
  BY DEF Finish
<1>2. reply' = reply \/ reply' = [reply EXCEPT !.what = "success"]
  BY DEF Finish
<1> QED BY <1>1, <1>2, EmptyText DEF TypeOK

\* A writer that leaves set_filters.
LEMMA LeaveKeeps ==
  ASSUME IInv, NEW w \in Writers, pc[w] \in {"lock", "open", "unlock"},
         pc' = [pc EXCEPT ![w] = "idle"], Finish(w), UNCHANGED <<file, saved>>, leaked' \in BOOLEAN,
         lock' \in {lock, Nobody}, lock' = Nobody => lock \in {w, Nobody}
  PROVE  IInv'
<1> USE DEF IInv
<1>1. /\ out' \in [Writers -> Text]
      /\ reply' \in [what : {"none", "success", "failed"}, id : 0 .. Word - 1]
      /\ out'[w] = Empty /\ \A v \in Writers : v # w => out'[v] = out[v]
      /\ UNCHANGED <<tmp, decided>>
  BY FinishEffect
<1>2. pc'[w] = "idle" /\ \A v \in Writers : v # w => pc'[v] = pc[v]
  BY DEF TypeOK
<1>3. TypeOK'
  BY <1>1 DEF TypeOK, PC
<1>4. FilledInv'
  BY <1>1, <1>2, EmptyText DEF FilledInv, Writers
<1>5. LockInv'
  <2>1. ASSUME NEW v \in Writers, pc'[v] \in {"open", "write", "unlock"} PROVE lock' = v
    <3>1. v # w /\ pc[v] \in {"open", "write", "unlock"}
      BY <1>2, <2>1
    <3>2. lock = v /\ v # Nobody
      BY <3>1 DEF LockInv, Writers, Nobody
    <3> QED BY <3>1, <3>2
  <2> QED BY <2>1 DEF LockInv
<1>6. FileInv'
  BY <1>2 DEF FileInv
<1>7. IdleInv'
  BY <1>1, <1>2 DEF IdleInv, Writers
<1> QED BY <1>3, <1>4, <1>5, <1>6, <1>7

LEMMA SetFiltersKeeps ==
  ASSUME IInv, NEW w \in Writers, SetFilters(w) \/ LockFails(w)
  PROVE  IInv'
<1> USE DEF IInv, disk, Goto
<1>1. CASE SetNothing(w)
  BY <1>1, LeaveKeeps DEF SetNothing, TypeOK
<1>2. CASE OpenFails(w)
  <2>1. lock = w
    BY <1>2 DEF OpenFails, LockInv
  <2> QED BY <1>2, <2>1, LeaveKeeps DEF OpenFails, LockAfter, TypeOK
<1>3. CASE Unlock(w)
  <2>1. lock = w
    BY <1>3 DEF Unlock, LockInv
  <2> QED BY <1>3, <2>1, LeaveKeeps DEF Unlock, TypeOK
<1>4. CASE Lock(w)
  <2>1. /\ lock \in {Nobody, w} /\ pc[w] = "lock" /\ pc' = [pc EXCEPT ![w] = "open"] /\ lock' = w
        /\ UNCHANGED <<file, saved, leaked, tmp, out, reply, decided>>
    BY <1>4 DEF Lock
  <2>2. pc'[w] = "open" /\ \A v \in Writers : v # w => pc'[v] = pc[v]
    BY <2>1 DEF TypeOK
  <2>3. TypeOK'
    BY <2>1 DEF TypeOK, PC
  <2>4. LockInv'
    BY <2>1, <2>2 DEF LockInv, Writers, Nobody
  <2>5. FileInv' /\ FilledInv' /\ IdleInv'
    BY <2>1, <2>2 DEF FileInv, FilledInv, IdleInv, Writers
  <2> QED BY <2>3, <2>4, <2>5
<1>5. CASE Open(w)
  <2>1. /\ pc[w] = "open" /\ pc' = [pc EXCEPT ![w] = "write"] /\ file' = Empty
        /\ UNCHANGED <<lock, saved, leaked, tmp, out, reply, decided>>
    BY <1>5 DEF Open
  <2>2. pc'[w] = "write" /\ \A v \in Writers : v # w => pc'[v] = pc[v]
    BY <2>1 DEF TypeOK
  <2>3. TypeOK'
    BY <2>1, EmptyText DEF TypeOK, PC
  <2>4. LockInv' /\ FileInv'
    BY <2>1, <2>2 DEF LockInv, FileInv
  <2>5. FilledInv' /\ IdleInv'
    BY <2>1, <2>2, EmptyText DEF FilledInv, IdleInv, Writers
  <2> QED BY <2>3, <2>4, <2>5
<1>6. CASE Write(w)
  <2>1. /\ pc[w] = "write" /\ pc' = [pc EXCEPT ![w] = "unlock"]
        /\ file' = out[w] /\ saved' = out[w]
        /\ UNCHANGED <<lock, leaked, tmp, out, reply, decided>>
    BY <1>6 DEF Write
  <2>2. pc'[w] = "unlock" /\ \A v \in Writers : v # w => pc'[v] = pc[v]
    BY <2>1 DEF TypeOK
  <2>3. TypeOK'
    BY <2>1 DEF TypeOK, PC
  <2>4. LockInv' /\ FileInv'
    BY <2>1, <2>2 DEF LockInv, FileInv
  <2>5. FilledInv' /\ IdleInv'
    BY <2>1, <2>2 DEF FilledInv, IdleInv, Writers
  <2> QED BY <2>3, <2>4, <2>5
<1>7. CASE LockFails(w)
  BY <1>7, LeaveKeeps DEF LockFails, TypeOK
<1> QED BY <1>1, <1>2, <1>3, <1>4, <1>5, <1>6, <1>7 DEF SetFilters

LEMMA Inductive == Spec => []IInv
<1>1. Init => IInv
  <2> SUFFICES ASSUME Init PROVE IInv
    OBVIOUS
  <2> USE DEF Init
  <2>1. <<TgFocusFilter>> \in Group
    BY StartFilters, GroupIs
  <2>2. DefaultText \in Text /\ Filled(DefaultText)
    BY <2>1 DEF DefaultText, Text, Filled, Parse
  <2>3. TypeOK
    <3>1. leaked \in BOOLEAN /\ lock \in Writers \cup {Nobody}
      OBVIOUS
    <3>2. /\ pc \in [Writers -> PC] /\ out \in [Writers -> Text]
          /\ decided \in [Msgs -> Verdicts]
      BY EmptyText DEF PC, Verdicts
    <3>3. reply \in [what : {"none", "success", "failed"}, id : 0 .. Word - 1]
      OBVIOUS
    <3> QED BY <2>2, <3>1, <3>2, <3>3, EmptyText DEF TypeOK
  <2>4. FilledInv /\ IdleInv
    BY <2>2, EmptyText DEF FilledInv, IdleInv, Writers
  <2>5. LockInv /\ FileInv
    BY DEF LockInv, FileInv
  <2> QED BY <2>3, <2>4, <2>5 DEF IInv
<1>2. IInv /\ [Next]_vars => IInv'
  <2> SUFFICES ASSUME IInv, [Next]_vars PROVE IInv'
    OBVIOUS
  <2>1. ASSUME NEW m \in Msgs, need_collect(m) PROVE IInv'
    <3>1. UNCHANGED <<file, lock, saved, leaked, tmp, pc, out, reply>>
      BY <2>1 DEF need_collect, disk
    <3>2. decided' \in [Msgs -> Verdicts]
      BY <2>1 DEF need_collect, IInv, TypeOK, Verdicts
    <3> QED BY <3>1, <3>2 DEF IInv, TypeOK, FilledInv, LockInv, FileInv, IdleInv
  <2>2. CASE UNCHANGED vars
    BY <2>2 DEF vars, IInv, TypeOK, FilledInv, LockInv, FileInv, IdleInv
  <2> QED BY <2>1, <2>2, CommandKeeps, CliKeeps, SetFiltersKeeps DEF Next
<1> QED BY <1>1, <1>2, PTL DEF Spec

----------------------------------------------------------------------------
(***************************************************************************)
(* The theorems.                                                           *)
(***************************************************************************)

\* The texts are texts of a filters file, and the id an answer names fits a
\* u32: a negative argument of filter.remove or filter.edit has become a large
\* one, and filter.insert refuses it.
THEOREM TypeCorrect == Spec => []TypeOK
<1>1. IInv => TypeOK
  BY DEF IInv
<1> QED BY <1>1, Inductive, PTL

\* The group in the file always has a filter, whatever the commands edit, the
\* user saves and the other starts of the program truncate.
THEOREM FilterRemains == Spec => []GroupNeverEmpty
<1>1. IInv => GroupNeverEmpty
  BY DEF IInv, FilledInv, Filled, GroupNeverEmpty
<1> QED BY <1>1, Inductive, PTL

\* Nothing but the holder of the lock, between fopen and fclose of set_filters,
\* leaves anything else in the file than the last complete text.
THEOREM FileIsWhole == Spec => []WholeUnlessWriting
<1>1. IInv => WholeUnlessWriting
  BY DEF IInv, FileInv, LockInv, WholeUnlessWriting
<1> QED BY <1>1, Inductive, PTL

\* The filter that the answer of filter.edit names is the one it changed, for
\* every group, id, property and pattern (the reference through which add_one
\* and del_one return the id).
THEOREM AnswerIsTrue == Spec => AnswerNamesFilter
<1> DEFINE Goal ==
      \A arg \in Args, p \in EditProps, action \in {"add", "del"}, re \in Patterns :
        EditFilter(arg, p, action, re) /\ out'["chat"].kind = "ok"
          => LET g == Parse(file)
                 fs == out'["chat"].fs
             IN /\ DOMAIN fs = DOMAIN g \cup {reply'.id}
                /\ \A i \in DOMAIN g \ {reply'.id} : fs[i] = g[i]
<1>1. IInv => Goal
  <2> SUFFICES ASSUME IInv, NEW arg \in Args, NEW p \in EditProps, NEW action \in {"add", "del"},
                      NEW re \in Patterns, EditFilter(arg, p, action, re),
                      out'["chat"].kind = "ok"
               PROVE  LET g == Parse(file)
                          fs == out'["chat"].fs
                      IN /\ DOMAIN fs = DOMAIN g \cup {reply'.id}
                         /\ \A i \in DOMAIN g \ {reply'.id} : fs[i] = g[i]
    OBVIOUS
  <2> DEFINE g == Parse(file)
             id == U32(arg)
             res == IF action = "add" THEN add_one(g, id, p, re) ELSE del_one(g, id, p, re)
  <2>1. /\ pc["chat"] = "idle"
        /\ IF id = 0 \/ re \notin Compiles \/ ~ res.ok THEN Refuse ELSE Store(res.fs, res.id)
    BY Zenon DEF EditFilter
  <2>2. g \in Seq(FilterOf(Patterns)) /\ g # << >>
    BY ParseType, GroupIs DEF IInv, TypeOK, FilledInv, Filled
  <2>3. id \in 0 .. Word - 1 /\ p \in Props
    <3>1. arg \in Int
      OBVIOUS
    <3> QED BY <3>1, U32Type
  <2> HIDE DEF g, id, res
  <2>4. ~ Refuse
    BY <2>1 DEF Refuse, IInv, IdleInv, Empty
  <2>5. id # 0 /\ Store(res.fs, res.id)
    BY <2>1, <2>4
  <2>6. Sound(res, Patterns) /\ NamesItsFilter(res, g, id)
    <3>1. id \in Nat \ {0}
      BY <2>3, <2>5
    <3> QED BY <2>2, <2>3, <3>1, AddKeeps, DeleteKeeps DEF res
  <2>7. reply'.id = res.id /\ out'["chat"] = as_fsdata(res.fs)
    BY <2>5 DEF Store, IInv, TypeOK, Writers
  <2>8. out'["chat"].fs = res.fs
    BY <2>6, <2>7, GroupIs, WrittenText DEF Sound
  <2> QED BY <2>6, <2>7, <2>8 DEF NamesItsFilter, g
<1>2. IInv /\ [Next]_vars => [Goal]_vars
  BY <1>1
<1> HIDE DEF Goal
<1> QED BY <1>2, Inductive, PTL DEF Spec, AnswerNamesFilter, Goal

=============================================================================
