------------------------- MODULE ChatDispatchProofs -------------------------
(***************************************************************************)
(* The safety properties of ChatDispatch, for any texts and any filters.   *)
(* An answer is not a command by itself: what keeps the daemon from        *)
(* talking to itself is what each text that waits in the chat can still    *)
(* lead to (Pending), of which there is one for each text that was said    *)
(* (OneInv), and what the runs so far have used up (Ran).                  *)
(***************************************************************************)
EXTENDS ChatDispatch, FilterLemmas, FiniteSetTheorems

USE FilterAssumption, DispatchAssumption

----------------------------------------------------------------------------
(***************************************************************************)
(* The invariants.                                                         *)
(***************************************************************************)

Message == [from : {"user", "forward", "reply"}, by : Nat, text : Seq(Words)]
Statement == [from : {"user", "forward"}, text : Seq(Words)]
Command == [name : Kinds \cup {"none"}, from : {"user", "forward", "reply"}, ok : BOOLEAN]

TypeInv ==
  /\ chat \in Seq(Message)
  /\ filters \in Group /\ filters # << >>
  /\ said \in Seq(Statement)
  /\ runs \in Seq(Seq(Command)) /\ Len(runs) = Len(said)
  /\ \A i \in 1 .. Len(chat) : chat[i].by \in 1 .. Len(said)

\* The first k words of a text are TGFCMD, each with a space behind it, and
\* there are more words.
Leads(t, k) == \A j \in 1 .. k : t[j].is = "TGFCMD" /\ t[j].sep /\ j < Len(t)

\* The positions that Leading counts.
LeadSet(t) == {k \in DOMAIN t : \A i \in 1 .. k : t[i].is = "TGFCMD" /\ i < Len(t)}

\* A text that was said lets the daemon run n commands.
MayRun(s, n) == s.from = "user" /\ n \in LeadSet(s.text)

EditDone(r) == r.name \in Edits /\ r.ok

\* What a text m that waits can lead to: together with the commands rs that
\* were run, no more than the statement s allows; no command when an edit was
\* done or when it was forwarded.  An answer has the prefix of the answers
\* inside.
Pending(m, s, rs) ==
  /\ \A k \in Nat \ {0} : Leads(m.text, k) => MayRun(s, k + Len(rs))
  /\ IsTgfcmd(m.text) => \A k \in 1 .. Len(rs) : ~ EditDone(rs[k])
  /\ m.from = "forward" => ~ IsTgfcmd(m.text)
  /\ m.from = "reply" =>
       \E d \in Nat \ {0} : d + 3 <= Len(m.text) /\ m.text[d + 2] = W("TGFCMD")

PendingInv == \A i \in 1 .. Len(chat) : Pending(chat[i], said[chat[i].by], runs[chat[i].by])

OneInv == \A i, j \in 1 .. Len(chat) : chat[i].by = chat[j].by => i = j

\* What was run for a statement: no more than it allows, an edit only as the
\* last, and filter.edit only for the user.
Ran(s, rs) ==
  /\ Len(rs) = 0 \/ MayRun(s, Len(rs))
  /\ \A k \in 1 .. Len(rs) :
       /\ EditDone(rs[k]) => k = Len(rs)
       /\ rs[k].name = "filter.edit" /\ rs[k].ok => rs[k].from = "user"

RanInv == \A i \in 1 .. Len(said) : Ran(said[i], runs[i])

IInv == TypeInv /\ PendingInv /\ OneInv /\ RanInv

----------------------------------------------------------------------------
(***************************************************************************)
(* Texts.                                                                  *)
(***************************************************************************)

LEMMA WordType ==
  ASSUME NEW k \in Kinds
  PROVE  W(k) \in Words /\ W(k).is = k
  BY DEF W, Words

\* The words of an answer: what was done, the prefix, the rest.
Reply(did, aux) == did \o ReplyPrefix \o aux

LEMMA AnswerWords ==
  ASSUME NEW did \in Seq(Words), NEW aux \in Seq(Words),
         NEW text, text = Reply(did, aux)
  PROVE  /\ text \in Seq(Words) /\ Len(text) >= Len(did) + 3
         /\ \A j \in 1 .. Len(did) : text[j] = did[j]
         /\ text[Len(did) + 2] = W("TGFCMD")
<1>1. "other" \in Kinds /\ "TGFCMD" \in Kinds
  BY DEF Kinds
<1>2. /\ ReplyPrefix \in Seq(Words) /\ Len(ReplyPrefix) = 3
      /\ ReplyPrefix[2] = W("TGFCMD")
  BY <1>1, WordType DEF ReplyPrefix
<1> DEFINE left == did \o ReplyPrefix
<1>3. /\ left \in Seq(Words) /\ Len(left) = Len(did) + 3 /\ Len(did) \in Nat
      /\ \A j \in 1 .. Len(did) : left[j] = did[j]
      /\ left[Len(did) + 2] = W("TGFCMD")
  <2>1. /\ left \in Seq(Words) /\ Len(left) = Len(did) + 3
        /\ \A j \in 1 .. Len(did) + 3 :
             left[j] = IF j <= Len(did) THEN did[j] ELSE ReplyPrefix[j - Len(did)]
    <3>1. /\ left \in Seq(Words) /\ Len(left) = Len(did) + Len(ReplyPrefix)
          /\ \A j \in 1 .. Len(did) + Len(ReplyPrefix) :
               left[j] = IF j <= Len(did) THEN did[j] ELSE ReplyPrefix[j - Len(did)]
      BY <1>2, ConcatProperties
    <3> HIDE DEF left
    <3> QED BY <1>2, <3>1
  <2>2. Len(did) \in Nat
    OBVIOUS
  <2>3. ASSUME NEW n \in Nat PROVE n + 2 \in 1 .. n + 3 /\ ~ (n + 2 <= n) /\ (n + 2) - n = 2
    OBVIOUS
  <2> HIDE DEF left
  <2>4. left[Len(did) + 2] = ReplyPrefix[2]
    BY <2>1, <2>2, <2>3
  <2>5. \A j \in 1 .. Len(did) : left[j] = did[j]
    BY <2>1, <2>2
  <2> QED BY <1>2, <2>1, <2>2, <2>4, <2>5
<1> HIDE DEF left
<1>4. /\ left \o aux \in Seq(Words) /\ Len(left \o aux) = Len(left) + Len(aux)
      /\ \A j \in 1 .. Len(left) : (left \o aux)[j] = left[j]
      /\ Len(aux) \in Nat /\ Len(left) \in Nat
  <2>1. Len(left) \in Nat /\ Len(aux) \in Nat
    BY <1>3
  <2>2. /\ left \o aux \in Seq(Words) /\ Len(left \o aux) = Len(left) + Len(aux)
        /\ \A j \in 1 .. Len(left) + Len(aux) :
             (left \o aux)[j] = IF j <= Len(left) THEN left[j] ELSE aux[j - Len(left)]
    BY <1>3, ConcatProperties
  <2>3. \A j \in 1 .. Len(left) : j \in 1 .. Len(left) + Len(aux) /\ j <= Len(left)
    BY <2>1
  <2> QED BY <2>1, <2>2, <2>3
<1>5. text = left \o aux
  BY DEF left, Reply
<1> QED BY <1>3, <1>4, <1>5

\* Glued changes nothing but the space after the last word.
LEMMA GluedWords ==
  ASSUME NEW t \in Seq(Words), t # << >>
  PROVE  /\ Glued(t) \in Seq(Words) /\ Len(Glued(t)) = Len(t)
         /\ \A j \in 1 .. Len(t) : Glued(t)[j].is = t[j].is
                                   /\ (Glued(t)[j].sep => t[j].sep)
         /\ Len(t) \in 1 .. Len(t) /\ ~ Glued(t)[Len(t)].sep
<1>1. Len(t) \in 1 .. Len(t)
  BY EmptySeq
<1> DEFINE w == [t[Len(t)] EXCEPT !.sep = FALSE]
<1>2. t[Len(t)] \in Words
  BY <1>1, ElementOfSeq
<1>3. w \in Words /\ w.is = t[Len(t)].is /\ ~ w.sep
  BY <1>2 DEF Words
<1>4. Glued(t) = [t EXCEPT ![Len(t)] = w]
  BY DEF Glued
<1> HIDE DEF w
<1>5. /\ [t EXCEPT ![Len(t)] = w] \in Seq(Words)
      /\ Len([t EXCEPT ![Len(t)] = w]) = Len(t)
      /\ \A j \in 1 .. Len(t) : [t EXCEPT ![Len(t)] = w][j] = IF j = Len(t) THEN w ELSE t[j]
  BY <1>1, <1>3, ExceptSeq
<1> QED BY <1>1, <1>3, <1>4, <1>5

\* The command that is dispatched is spelled in the text, and not by a TGFCMD.
LEMMA DispatchSpells ==
  ASSUME NEW t \in Seq(Words), NEW name, name # "none", Dispatch(t) = name
  PROVE  \E j \in 1 .. Len(t) : t[j].is # "TGFCMD"
<1> DEFINE found == {k \in DOMAIN Names : Spells(t, Names[k])}
<1>1. found # {} /\ name = Names[Min(found)]
  BY DEF Dispatch
<1>2. found \subseteq Nat
  BY DEF Names
<1>3. Min(found) \in found
  <2> HIDE DEF found
  <2> QED BY <1>1, <1>2, LeastMember
<1>4. PICK k \in DOMAIN Names : Spells(t, Names[k])
  BY <1>3
<1>5. PICK j \in DOMAIN t : Names[k] \in NamesIn(t[j])
  BY <1>4 DEF Spells
<1>6. "TGFCMD" \notin Range(Names)
  BY DEF Range, Names
<1>7. t[j].is # "TGFCMD"
  BY <1>5, <1>6 DEF NamesIn
<1> QED BY <1>7, LenProperties

\* A text that is a command begins with one TGFCMD at least.
LEMMA CommandLeads ==
  ASSUME NEW t \in Seq(Words), IsTgfcmd(t)
  PROVE  Leads(t, 1) /\ Tail(t) \in Seq(Words) /\ Tail(t) # << >>
         /\ Len(t) = Len(Tail(t)) + 1 /\ Len(Tail(t)) \in Nat
         /\ \A j \in 1 .. Len(Tail(t)) : Tail(t)[j] = t[j + 1]
<1>1. Len(t) > 1 /\ Len(t) \in Nat /\ t[1].is = "TGFCMD" /\ t[1].sep
  BY DEF IsTgfcmd
<1>2. Leads(t, 1)
  BY <1>1 DEF Leads
<1>3. t # << >>
  BY <1>1
<1>4. /\ Tail(t) \in Seq(Words) /\ Len(Tail(t)) = Len(t) - 1
      /\ \A j \in 1 .. Len(t) - 1 : Tail(t)[j] = t[j + 1]
  BY <1>3
<1>5. Tail(t) # << >>
  BY <1>1, <1>4
<1> QED BY <1>1, <1>2, <1>4, <1>5

----------------------------------------------------------------------------
(***************************************************************************)
(* Commands and answers.                                                   *)
(***************************************************************************)

\* What an answer repeats of the text `t` of its command: the same words, of
\* which not all are a TGFCMD with a space behind it.
Repeats(did, t) ==
  /\ did \in Seq(Words) /\ Len(did) = Len(t)
  /\ \A j \in 1 .. Len(t) : did[j].is = t[j].is /\ (did[j].sep => t[j].sep)
  /\ \E j \in 1 .. Len(t) : did[j].is # "TGFCMD" \/ ~ did[j].sep

\* An answer begins with one TGFCMD less than its command, and contains the
\* prefix of the answers.
LEMMA PendingAnswer ==
  ASSUME NEW m \in Message, NEW s, NEW rs \in Seq(Command), NEW e \in Command,
         IsTgfcmd(m.text), Pending(m, s, rs),
         NEW did, Repeats(did, Tail(m.text)), NEW aux \in Seq(Words),
         EditDone(e) => did[1].is # "TGFCMD",
         NEW text, text = Reply(did, aux),
         NEW r, r = [from |-> "reply", by |-> m.by, text |-> text]
  PROVE  Pending(r, s, Append(rs, e))
<1> DEFINE t == m.text
           ipt == Tail(t)
<1>1. /\ t \in Seq(Words) /\ Leads(t, 1) /\ ipt \in Seq(Words) /\ ipt # << >>
      /\ Len(t) = Len(ipt) + 1 /\ Len(ipt) \in Nat
      /\ \A j \in 1 .. Len(ipt) : ipt[j] = t[j + 1]
  <2>1. t \in Seq(Words)
    BY DEF Message
  <2> QED BY <2>1, CommandLeads
<1>2. /\ text \in Seq(Words) /\ Len(text) >= Len(did) + 3
      /\ \A j \in 1 .. Len(did) : text[j] = did[j]
      /\ text[Len(did) + 2] = W("TGFCMD")
  <2>1. did \in Seq(Words)
    BY DEF Repeats
  <2> QED BY <2>1, AnswerWords
<1>3. /\ Len(did) = Len(ipt) /\ Len(did) >= 1 /\ Len(text) \in Nat
      /\ \A j \in 1 .. Len(ipt) : did[j].is = ipt[j].is /\ (did[j].sep => ipt[j].sep)
  <2>1. /\ Len(did) = Len(ipt)
        /\ \A j \in 1 .. Len(ipt) : did[j].is = ipt[j].is /\ (did[j].sep => ipt[j].sep)
    BY DEF Repeats
  <2> HIDE DEF ipt
  <2>2. Len(ipt) >= 1 /\ Len(text) \in Nat
    BY <1>1, <1>2, EmptySeq
  <2> QED BY <2>1, <2>2
<1>4. PICK last \in 1 .. Len(ipt) : did[last].is # "TGFCMD" \/ ~ did[last].sep
  BY DEF Repeats
<1> HIDE DEF t, ipt
<1>5. /\ Append(rs, e) \in Seq(Command) /\ Len(rs) \in Nat
      /\ Len(Append(rs, e)) = Len(rs) + 1
      /\ Append(rs, e)[Len(rs) + 1] = e
      /\ \A k \in 1 .. Len(rs) : Append(rs, e)[k] = rs[k]
  OBVIOUS
<1>6. ASSUME NEW k \in Nat \ {0}, Leads(text, k)
      PROVE  MayRun(s, k + Len(Append(rs, e)))
  <2>1. k < last
    <3>1. last \in 1 .. k => did[last].is = "TGFCMD" /\ did[last].sep
      BY <1>2, <1>3, <1>6 DEF Leads
    <3> QED BY <1>1, <1>4, <3>1
  <2>2. ASSUME NEW j \in 1 .. k + 1 PROVE t[j].is = "TGFCMD" /\ t[j].sep /\ j < Len(t)
    <3>1. CASE j = 1
      BY <1>1, <3>1 DEF Leads
    <3>2. CASE j # 1
      <4>1. j - 1 \in 1 .. k /\ j - 1 \in 1 .. Len(ipt) /\ (j - 1) + 1 = j /\ j < Len(t)
        BY <1>1, <1>4, <2>1, <3>2
      <4>2. text[j - 1].is = "TGFCMD" /\ text[j - 1].sep
        BY <1>6, <4>1 DEF Leads
      <4>3. ipt[j - 1].is = "TGFCMD" /\ ipt[j - 1].sep
        BY <1>2, <1>3, <4>1, <4>2
      <4> QED BY <1>1, <4>1, <4>3
    <3> QED BY <3>1, <3>2
  <2>3. MayRun(s, (k + 1) + Len(rs))
    <3>1. Leads(t, k + 1)
      BY <2>2, Zenon DEF Leads
    <3>2. k + 1 \in Nat \ {0}
      OBVIOUS
    <3> QED BY <3>1, <3>2 DEF Pending, t
  <2>4. (k + 1) + Len(rs) = k + Len(Append(rs, e))
    BY <1>5
  <2> QED BY <2>3, <2>4
<1>7. ASSUME IsTgfcmd(text), NEW k \in 1 .. Len(Append(rs, e))
      PROVE  ~ EditDone(Append(rs, e)[k])
  <2>1. CASE k = Len(rs) + 1
    <3>1. did[1].is = "TGFCMD"
      BY <1>2, <1>3, <1>7 DEF IsTgfcmd
    <3> QED BY <1>5, <2>1, <3>1
  <2>2. CASE k # Len(rs) + 1
    <3>1. k \in 1 .. Len(rs)
      BY <1>5, <2>2
    <3> QED BY <1>5, <3>1 DEF Pending
  <2> QED BY <2>1, <2>2
<1>8. Len(did) \in Nat \ {0} /\ Len(did) + 3 <= Len(text)
  BY <1>1, <1>2, <1>3
<1>9. r.from = "reply" /\ r.text = text
  OBVIOUS
<1> QED BY <1>2, <1>6, <1>7, <1>8, <1>9 DEF Pending

\* A command that is run was still allowed.
LEMMA RanAnswer ==
  ASSUME NEW m \in Message, NEW s, NEW rs \in Seq(Command), NEW e \in Command,
         IsTgfcmd(m.text), Pending(m, s, rs), Ran(s, rs),
         e.name = "filter.edit" /\ e.ok => e.from = "user"
  PROVE  Ran(s, Append(rs, e))
<1>1. Leads(m.text, 1) /\ 1 \in Nat \ {0}
  BY CommandLeads DEF Message
<1>2. MayRun(s, 1 + Len(rs))
  BY <1>1 DEF Pending
<1>3. /\ Append(rs, e) \in Seq(Command) /\ Len(rs) \in Nat
      /\ Len(Append(rs, e)) = 1 + Len(rs)
      /\ Append(rs, e)[1 + Len(rs)] = e
      /\ \A k \in 1 .. Len(rs) : Append(rs, e)[k] = rs[k]
  OBVIOUS
<1>4. ASSUME NEW k \in 1 .. Len(Append(rs, e))
      PROVE  /\ EditDone(Append(rs, e)[k]) => k = Len(Append(rs, e))
             /\ Append(rs, e)[k].name = "filter.edit" /\ Append(rs, e)[k].ok
                  => Append(rs, e)[k].from = "user"
  <2>1. CASE k = 1 + Len(rs)
    BY <1>3, <2>1
  <2>2. CASE k # 1 + Len(rs)
    <3>1. k \in 1 .. Len(rs)
      BY <1>3, <2>2
    <3>2. ~ EditDone(rs[k])
      BY <3>1 DEF Pending
    <3>3. rs[k].name = "filter.edit" /\ rs[k].ok => rs[k].from = "user"
      BY <3>1 DEF Ran
    <3> QED BY <1>3, <3>1, <3>2, <3>3
  <2> QED BY <2>1, <2>2
<1> QED BY <1>2, <1>3, <1>4 DEF Ran

\* The chat after its oldest message was taken, and perhaps one added.
LEMMA QueueMoves ==
  ASSUME NEW S, NEW q \in Seq(S), q # << >>, NEW r \in S,
         NEW n, n = Tail(q) \/ n = Append(Tail(q), r)
  PROVE  /\ n \in Seq(S)
         /\ \A i \in 1 .. Len(n) : \/ i + 1 \in 2 .. Len(q) /\ n[i] = q[i + 1]
                                   \/ i = Len(q) /\ n[i] = r
<1>1. /\ Tail(q) \in Seq(S) /\ Len(Tail(q)) = Len(q) - 1 /\ Len(q) \in Nat /\ Len(q) >= 1
      /\ \A i \in 1 .. Len(q) - 1 : Tail(q)[i] = q[i + 1]
  BY EmptySeq
<1>2. CASE n = Tail(q)
  <2>1. n \in Seq(S) /\ Len(n) = Len(q) - 1
    BY <1>1, <1>2
  <2>2. ASSUME NEW i \in 1 .. Len(n) PROVE i \in 1 .. Len(q) - 1 /\ i + 1 \in 2 .. Len(q)
    <3>1. i \in 1 .. Len(q) - 1
      BY <2>1
    <3> QED BY <1>1, <3>1
  <2> QED BY <1>1, <1>2, <2>1, <2>2
<1>3. CASE n = Append(Tail(q), r)
  <2>1. /\ n \in Seq(S) /\ Len(n) = Len(q) /\ n[Len(q)] = r
        /\ \A i \in 1 .. Len(q) - 1 : n[i] = Tail(q)[i]
    BY <1>1, <1>3
  <2>2. ASSUME NEW i \in 1 .. Len(n)
        PROVE  i = Len(q) \/ (i \in 1 .. Len(q) - 1 /\ i + 1 \in 2 .. Len(q))
    <3>1. i \in 1 .. Len(q)
      BY <2>1
    <3>2. ASSUME NEW l \in Nat, NEW k \in 1 .. l, k # l
          PROVE  k \in 1 .. l - 1 /\ k + 1 \in 2 .. l
      BY <3>2
    <3> QED BY <1>1, <3>1, <3>2
  <2> QED BY <1>1, <2>1, <2>2
<1> QED BY <1>2, <1>3

\* A command is run and answered.
LEMMA AnswerKeeps ==
  ASSUME IInv, chat # << >>, IsTgfcmd(Head(chat).text),
         NEW name \in Kinds \cup {"none"}, NEW ok \in BOOLEAN,
         NEW did, Repeats(did, Ipt), NEW aux \in Seq(Words),
         name \in Edits /\ ok => did[1].is # "TGFCMD",
         name = "filter.edit" /\ ok => Head(chat).from = "user",
         Answer(name, ok, did, aux),
         filters' \in Group, filters' # << >>
  PROVE  IInv'
<1> DEFINE m == Head(chat)
           b == m.by
           text == Reply(did, aux)
           r == [from |-> "reply", by |-> b, text |-> text]
           e == [name |-> name, from |-> m.from, ok |-> ok]
<1> USE DEF IInv
<1>1. /\ chat \in Seq(Message) /\ m = chat[1] /\ m \in Message
      /\ Len(chat) \in Nat /\ Len(chat) >= 1
  BY EmptySeq DEF TypeInv
<1>2. b \in 1 .. Len(said) /\ Len(runs) = Len(said) /\ Len(said) \in Nat
      /\ Pending(m, said[b], runs[b]) /\ Ran(said[b], runs[b])
  BY <1>1 DEF TypeInv, PendingInv, RanInv
<1>3. runs[b] \in Seq(Command) /\ e \in Command
  BY <1>1, <1>2, ElementOfSeq DEF TypeInv, Command, Message
<1>4. text \in Seq(Words) /\ r \in Message
  <2>1. text \in Seq(Words)
    BY AnswerWords DEF Repeats
  <2> QED BY <1>1, <2>1 DEF Message
<1>5. /\ runs' = [runs EXCEPT ![b] = Append(runs[b], e)]
      /\ chat' = Tail(chat) \/ chat' = Append(Tail(chat), r)
      /\ said' = said
  BY DEF Answer, Reply
<1>6. Pending(r, said[b], Append(runs[b], e))
  <2>1. EditDone(e) => did[1].is # "TGFCMD"
    BY DEF EditDone
  <2>2. Repeats(did, Tail(m.text))
    BY DEF Ipt
  <2> HIDE DEF e, r, m, b, text
  <2>3. r = [from |-> "reply", by |-> m.by, text |-> text] /\ text = Reply(did, aux)
    BY DEF r, b, text
  <2> QED BY <1>1, <1>2, <1>3, <2>1, <2>2, <2>3, PendingAnswer DEF m
<1>7. Ran(said[b], Append(runs[b], e))
  <2>1. e.name = "filter.edit" /\ e.ok => e.from = "user"
    OBVIOUS
  <2> HIDE DEF e, b, m
  <2> QED BY <1>1, <1>2, <1>3, <2>1, RanAnswer DEF m
<1> HIDE DEF e
<1>8. /\ runs' \in Seq(Seq(Command)) /\ Len(runs') = Len(said)
      /\ \A i \in 1 .. Len(said) : runs'[i] = IF i = b THEN Append(runs[b], e) ELSE runs[i]
  <2>1. /\ Append(runs[b], e) \in Seq(Command)
        /\ runs \in Seq(Seq(Command)) /\ b \in 1 .. Len(runs)
    BY <1>2, <1>3 DEF TypeInv
  <2> HIDE DEF b
  <2> QED BY <1>2, <1>5, <2>1, ExceptSeq
<1> HIDE DEF r, b, m
<1>9. /\ chat' \in Seq(Message)
      /\ \A i \in 1 .. Len(chat') : \/ i + 1 \in 2 .. Len(chat) /\ chat'[i] = chat[i + 1]
                                    \/ i = Len(chat) /\ chat'[i] = r
  BY <1>1, <1>4, <1>5, QueueMoves
<1>10. r.by = b
  BY DEF r
<1>11. ASSUME NEW j \in 2 .. Len(chat)
       PROVE  chat[j].by \in 1 .. Len(said) /\ chat[j].by # b
  <2>1. j \in 1 .. Len(chat) /\ 1 \in 1 .. Len(chat) /\ j # 1
    BY <1>1
  <2> QED BY <1>1, <2>1 DEF TypeInv, OneInv, b
<1>12. TypeInv'
  <2>1. ASSUME NEW i \in 1 .. Len(chat') PROVE chat'[i].by \in 1 .. Len(said')
    BY <1>2, <1>5, <1>9, <1>10, <1>11
  <2> QED BY <1>5, <1>8, <1>9, <2>1 DEF TypeInv
<1>13. PendingInv'
  <2> SUFFICES ASSUME NEW i \in 1 .. Len(chat')
               PROVE  Pending(chat'[i], said'[chat'[i].by], runs'[chat'[i].by])
    BY DEF PendingInv
  <2>1. CASE i = Len(chat) /\ chat'[i] = r
    <3>1. runs'[b] = Append(runs[b], e) /\ said' = said
      BY <1>2, <1>5, <1>8
    <3> QED BY <1>6, <1>10, <2>1, <3>1
  <2>2. CASE i + 1 \in 2 .. Len(chat) /\ chat'[i] = chat[i + 1]
    <3>1. chat[i + 1].by \in 1 .. Len(said) /\ chat[i + 1].by # b
      BY <1>11, <2>2
    <3>2. Pending(chat[i + 1], said[chat[i + 1].by], runs[chat[i + 1].by])
      BY <1>1, <2>2 DEF PendingInv
    <3> QED BY <1>5, <1>8, <2>2, <3>1, <3>2
  <2> QED BY <1>9, <2>1, <2>2
<1>14. OneInv'
  <2> SUFFICES ASSUME NEW i \in 1 .. Len(chat'), NEW j \in 1 .. Len(chat'),
                      chat'[i].by = chat'[j].by
               PROVE  i = j
    BY DEF OneInv
  <2>1. ASSUME NEW k \in 1 .. Len(chat')
        PROVE  \/ k + 1 \in 2 .. Len(chat) /\ chat'[k].by = chat[k + 1].by /\ chat'[k].by # b
               \/ k = Len(chat) /\ chat'[k].by = b
    BY <1>9, <1>10, <1>11
  <2>2. CASE chat'[i].by = b
    BY <2>1, <2>2
  <2>3. CASE chat'[i].by # b
    <3>1. /\ i + 1 \in 2 .. Len(chat) /\ j + 1 \in 2 .. Len(chat)
          /\ chat[i + 1].by = chat[j + 1].by
      BY <2>1, <2>3
    <3>2. i + 1 \in 1 .. Len(chat) /\ j + 1 \in 1 .. Len(chat)
      BY <1>1, <3>1
    <3>3. i + 1 = j + 1
      BY <3>1, <3>2 DEF OneInv
    <3> QED BY <3>3
  <2> QED BY <2>2, <2>3
<1>15. RanInv'
  <2> SUFFICES ASSUME NEW i \in 1 .. Len(said) PROVE Ran(said[i], runs'[i])
    BY <1>5 DEF RanInv
  <2>1. CASE i = b
    BY <1>7, <1>8, <2>1
  <2>2. CASE i # b
    BY <1>8, <2>2 DEF RanInv
  <2> QED BY <2>1, <2>2
<1> QED BY <1>12, <1>13, <1>14, <1>15

\* Another text is dropped.
LEMMA IgnoreKeeps == ASSUME IInv, Ignore PROVE IInv'
<1> USE DEF IInv
<1>1. /\ chat # << >> /\ chat' = Tail(chat) /\ UNCHANGED <<filters, said, runs>>
      /\ chat \in Seq(Message)
  BY DEF Ignore, TypeInv
<1>2. /\ Tail(chat) \in Seq(Message) /\ Len(Tail(chat)) = Len(chat) - 1 /\ Len(chat) \in Nat
      /\ \A i \in 1 .. Len(chat) - 1 : Tail(chat)[i] = chat[i + 1] /\ i + 1 \in 1 .. Len(chat)
  BY <1>1
<1>3. \A i \in 1 .. Len(chat') : i + 1 \in 1 .. Len(chat) /\ chat'[i] = chat[i + 1]
  BY <1>1, <1>2
<1>4. TypeInv'
  BY <1>1, <1>2, <1>3 DEF TypeInv
<1>5. PendingInv'
  BY <1>1, <1>3 DEF PendingInv
<1>6. OneInv'
  <2> SUFFICES ASSUME NEW i \in 1 .. Len(chat'), NEW j \in 1 .. Len(chat'),
                      chat'[i].by = chat'[j].by
               PROVE  i = j
    BY DEF OneInv
  <2>1. i + 1 = j + 1
    BY <1>3 DEF OneInv
  <2> QED BY <2>1
<1>7. RanInv'
  BY <1>1 DEF RanInv
<1> QED BY <1>4, <1>5, <1>6, <1>7

----------------------------------------------------------------------------
(***************************************************************************)
(* What is said.                                                           *)
(***************************************************************************)

LEMMA SayKeeps ==
  ASSUME IInv, NEW from \in {"user", "forward"}, NEW text \in Seq(Words), Say(from, text),
         from = "forward" => text[1].is # "TGFCMD"
  PROVE  IInv'
<1> USE DEF IInv
<1> DEFINE s == [from |-> from, text |-> text]
           m == [from |-> from, by |-> Len(said) + 1, text |-> text]
           n == Len(said)
<1>1. /\ said' = Append(said, s) /\ runs' = Append(runs, << >>) /\ chat' = Append(chat, m)
      /\ filters' = filters
  BY DEF Say
<1>2. /\ said \in Seq(Statement) /\ runs \in Seq(Seq(Command)) /\ chat \in Seq(Message)
      /\ n \in Nat /\ Len(runs) = n /\ Len(chat) \in Nat
  BY DEF TypeInv
<1>3. s \in Statement /\ m \in Message /\ << >> \in Seq(Command)
  BY <1>2 DEF Statement, Message
<1>4. m.by = n + 1 /\ m.text = text /\ m.from = from /\ s.text = text /\ s.from = from
  OBVIOUS
<1>5. Pending(m, s, << >>)
  <2>1. ASSUME NEW k \in Nat \ {0}, Leads(text, k) PROVE MayRun(s, k + 0)
    <3>1. text[1].is = "TGFCMD"
      BY <2>1 DEF Leads
    <3>2. \A i \in 1 .. k : text[i].is = "TGFCMD" /\ i < Len(text)
      BY <2>1 DEF Leads
    <3>3. k \in DOMAIN text /\ k + 0 = k
      BY <3>2, LenProperties
    <3> QED BY <1>4, <3>1, <3>2, <3>3 DEF MayRun, LeadSet
  <2> HIDE DEF m, s
  <2> QED BY <1>4, <2>1, Len(<< >>) = 0 DEF Pending, IsTgfcmd
<1>6. Ran(s, << >>)
  BY DEF Ran
<1> HIDE DEF s, m, n
<1>7. /\ said' \in Seq(Statement) /\ Len(said') = n + 1 /\ said'[n + 1] = s
      /\ \A i \in 1 .. n : said'[i] = said[i]
  BY <1>1, <1>2, <1>3 DEF n
<1>8. /\ runs' \in Seq(Seq(Command)) /\ Len(runs') = n + 1 /\ runs'[n + 1] = << >>
      /\ \A i \in 1 .. n : runs'[i] = runs[i]
  BY <1>1, <1>2, <1>3
<1>9. /\ chat' \in Seq(Message) /\ Len(chat') = Len(chat) + 1 /\ chat'[Len(chat) + 1] = m
      /\ \A i \in 1 .. Len(chat) : chat'[i] = chat[i]
  BY <1>1, <1>2, <1>3
<1>10. ASSUME NEW i \in 1 .. Len(chat')
       PROVE  \/ i = Len(chat) + 1 /\ chat'[i] = m
              \/ i \in 1 .. Len(chat) /\ chat'[i] = chat[i] /\ chat[i].by \in 1 .. n
  <2>1. i = Len(chat) + 1 \/ i \in 1 .. Len(chat)
    BY <1>2, <1>9, <1>10
  <2> QED BY <1>9, <2>1 DEF TypeInv, n
<1>11. n + 1 \notin 1 .. n /\ n + 1 \in 1 .. n + 1 /\ 1 .. n \subseteq 1 .. n + 1
  BY <1>2
<1>12. TypeInv'
  <2>1. ASSUME NEW i \in 1 .. Len(chat') PROVE chat'[i].by \in 1 .. Len(said')
    BY <1>4, <1>7, <1>10, <1>11
  <2> QED BY <1>1, <1>7, <1>8, <1>9, <2>1 DEF TypeInv
<1>13. PendingInv'
  <2> SUFFICES ASSUME NEW i \in 1 .. Len(chat')
               PROVE  Pending(chat'[i], said'[chat'[i].by], runs'[chat'[i].by])
    BY DEF PendingInv
  <2>1. CASE chat'[i] = m
    BY <1>4, <1>5, <1>7, <1>8, <2>1
  <2>2. CASE i \in 1 .. Len(chat) /\ chat'[i] = chat[i] /\ chat[i].by \in 1 .. n
    BY <1>7, <1>8, <2>2 DEF PendingInv
  <2> QED BY <1>10, <2>1, <2>2
<1>14. OneInv'
  <2> SUFFICES ASSUME NEW i \in 1 .. Len(chat'), NEW j \in 1 .. Len(chat'),
                      chat'[i].by = chat'[j].by
               PROVE  i = j
    BY DEF OneInv
  <2>1. CASE chat'[i].by = n + 1
    BY <1>4, <1>10, <1>11, <2>1
  <2>2. CASE chat'[i].by # n + 1
    BY <1>4, <1>10, <2>2 DEF OneInv
  <2> QED BY <2>1, <2>2
<1>15. RanInv'
  <2> SUFFICES ASSUME NEW i \in 1 .. n + 1 PROVE Ran(said'[i], runs'[i])
    BY <1>7 DEF RanInv
  <2>1. CASE i = n + 1
    BY <1>6, <1>7, <1>8, <2>1
  <2>2. CASE i # n + 1
    <3>1. i \in 1 .. n
      BY <1>2, <2>2
    <3> QED BY <1>7, <1>8, <3>1 DEF RanInv, n
  <2> QED BY <2>1, <2>2
<1> QED BY <1>12, <1>13, <1>14, <1>15

\* A forwarded message begins with the symbol of to_locale_string.
LEMMA ForwardedWords ==
  ASSUME NEW t \in Seq(Words)
  PROVE  ToLocaleString(t) \in Seq(Words) /\ ToLocaleString(t)[1].is # "TGFCMD"
<1>1. W("other") \in Words /\ W("other").is = "other"
  BY WordType DEF Kinds
<1>2. <<W("other")>> \in Seq(Words) /\ Len(<<W("other")>>) = 1
  BY <1>1
<1>3. 1 \in 1 .. Len(<<W("other")>>) + Len(t)
  BY <1>2, LenProperties
<1>4. /\ <<W("other")>> \o t \in Seq(Words)
      /\ (<<W("other")>> \o t)[1] = <<W("other")>>[1]
  BY <1>2, <1>3, ConcatProperties
<1> QED BY <1>1, <1>4 DEF ToLocaleString

----------------------------------------------------------------------------
(***************************************************************************)
(* The handlers.                                                           *)
(***************************************************************************)

LEMMA NameKinds ==
  /\ {"pause", "resume", "filters", "filter.edit", "filter.insert", "filter.remove", "help"}
       \subseteq Kinds
  /\ "shown" \in Kinds
<1>1. /\ Names[1] = "pause" /\ Names[2] = "resume" /\ Names[3] = "filters"
      /\ Names[5] = "filter.edit" /\ Names[6] = "filter.insert"
      /\ Names[7] = "filter.remove" /\ Names[8] = "help"
      /\ DOMAIN Names = 1 .. 8
  BY DEF Names
<1>2. {1, 2, 3, 5, 6, 7, 8} \subseteq 1 .. 8
  OBVIOUS
<1> QED BY <1>1, <1>2 DEF Kinds, Range

\* The patterns of a group are finitely many, so the list that shows them is a
\* text.
LEMMA ReadableText ==
  ASSUME NEW g \in Group
  PROVE  AsReadable(g) \in Seq(Words)
<1> DEFINE Of(i) == UNION {Range(g[i][p]) : p \in Props}
           all == UNION {UNION {Range(g[i][p]) : p \in Props} : i \in DOMAIN g}
           S == {Shown(re) : re \in all}
<1>1. DOMAIN g = 1 .. Len(g) /\ Len(g) \in Nat
      /\ \A i \in DOMAIN g : \A p \in Props : g[i][p] \in Seq(Patterns)
  BY DEF Group, Filter
<1>2. ASSUME NEW s \in Seq(Patterns) PROVE IsFiniteSet(Range(s)) /\ Range(s) \subseteq Patterns
  <2>1. s \in Surjection(1 .. Len(s), Range(s))
    BY DEF Surjection, Range
  <2>2. IsFiniteSet(1 .. Len(s))
    BY FS_Interval
  <2>3. Range(s) \subseteq Patterns
    BY DEF Range
  <2> QED BY <2>1, <2>2, <2>3, FS_Surjection
<1>3. IsFiniteSet(Props)
  <2>1. Props = {"titles", "senders", "keywords", "no-titles", "no-senders"} \cup {"no-keywords"}
    BY DEF Props, Wants, Bans
  <2>2. IsFiniteSet({} \cup {"titles"})
    BY FS_EmptySet, FS_AddElement
  <2>3. IsFiniteSet(({} \cup {"titles"}) \cup {"senders"})
    BY <2>2, FS_AddElement
  <2>4. IsFiniteSet((({} \cup {"titles"}) \cup {"senders"}) \cup {"keywords"})
    BY <2>3, FS_AddElement
  <2>5. IsFiniteSet(((({} \cup {"titles"}) \cup {"senders"}) \cup {"keywords"}) \cup {"no-titles"})
    BY <2>4, FS_AddElement
  <2>6. IsFiniteSet((((({} \cup {"titles"}) \cup {"senders"}) \cup {"keywords"})
                       \cup {"no-titles"}) \cup {"no-senders"})
    BY <2>5, FS_AddElement
  <2>7. (((({} \cup {"titles"}) \cup {"senders"}) \cup {"keywords"})
           \cup {"no-titles"}) \cup {"no-senders"}
          = {"titles", "senders", "keywords", "no-titles", "no-senders"}
    OBVIOUS
  <2> QED BY <2>1, <2>6, <2>7, FS_AddElement
<1>4. ASSUME NEW i \in DOMAIN g PROVE IsFiniteSet(Of(i))
  <2> DEFINE f == [p \in Props |-> Range(g[i][p])]
             T == {Range(g[i][p]) : p \in Props}
  <2>1. f \in Surjection(Props, T)
    BY DEF Surjection
  <2>2. IsFiniteSet(T)
    BY <1>3, <2>1, FS_Surjection
  <2>3. \A U \in T : IsFiniteSet(U)
    BY <1>1, <1>2
  <2> HIDE DEF T
  <2>4. IsFiniteSet(UNION T)
    BY <2>2, <2>3, FS_UNION
  <2> QED BY <2>4 DEF T
<1>5. IsFiniteSet(all)
  <2> DEFINE f == [i \in DOMAIN g |-> Of(i)]
             T == {Of(i) : i \in DOMAIN g}
  <2>1. f \in Surjection(DOMAIN g, T)
    BY DEF Surjection
  <2>2. IsFiniteSet(DOMAIN g)
    BY <1>1, FS_Interval
  <2>3. IsFiniteSet(T)
    BY <2>1, <2>2, FS_Surjection
  <2>4. \A U \in T : IsFiniteSet(U)
    BY <1>4
  <2>5. all = UNION T
    OBVIOUS
  <2> HIDE DEF T, all
  <2> QED BY <2>3, <2>4, <2>5, FS_UNION
<1>6. all \subseteq Patterns
  BY <1>1, <1>2
<1>7. \A re \in Patterns : Shown(re) \in Words
  <2>1. W("shown") \in Words
    BY NameKinds, WordType
  <2> QED BY <2>1 DEF Shown, Words
<1> HIDE DEF all
<1>8. IsFiniteSet(S) /\ S \subseteq Words
  <2> DEFINE f == [re \in all |-> Shown(re)]
  <2>1. f \in Surjection(all, S)
    BY DEF Surjection
  <2>2. IsFiniteSet(S)
    BY <1>5, <2>1, FS_Surjection
  <2> QED BY <1>6, <1>7, <2>2
<1> HIDE DEF S
<1>9. SetToSeq(S) \in [1 .. Cardinality(S) -> S] /\ Cardinality(S) \in Nat
  <2>1. Cardinality(S) \in Nat /\ ExistsBijection(1 .. Cardinality(S), S)
    BY <1>8, FS_CardinalityType
  <2>2. \E f \in [1 .. Cardinality(S) -> S] : IsInjective(f)
    BY <2>1 DEF ExistsBijection, Bijection, Injection
  <2> QED BY <2>1, <2>2 DEF SetToSeq
<1>10. SetToSeq(S) \in Seq(Words)
  BY <1>8, <1>9
<1> QED BY <1>10 DEF AsReadable, S, all

\* The command that is handled: its words, and who it is from.
LEMMA HandledCommand ==
  ASSUME IInv, NEW name, Incoming(name)
  PROVE  /\ chat # << >> /\ IsTgfcmd(Head(chat).text) /\ Dispatch(Ipt) = name
         /\ Ipt \in Seq(Words) /\ Ipt # << >> /\ Len(Ipt) \in Nat /\ Len(Ipt) >= 1
         /\ Head(chat) \in Message
         /\ Pending(Head(chat), said[Head(chat).by], runs[Head(chat).by])
         /\ Len(Head(chat).text) = Len(Ipt) + 1
         /\ \A j \in 1 .. Len(Ipt) : Ipt[j] = Head(chat).text[j + 1]
<1>1. chat # << >> /\ IsTgfcmd(Head(chat).text) /\ Dispatch(Ipt) = name
  BY DEF Incoming, Ipt
<1>2. /\ Head(chat) = chat[1] /\ Head(chat) \in Message /\ 1 \in 1 .. Len(chat)
  BY <1>1, EmptySeq DEF IInv, TypeInv
<1>3. Pending(Head(chat), said[Head(chat).by], runs[Head(chat).by])
  BY <1>2 DEF IInv, PendingInv
<1>4. Head(chat).text \in Seq(Words)
  BY <1>2 DEF Message
<1>5. /\ Ipt \in Seq(Words) /\ Ipt # << >> /\ Len(Head(chat).text) = Len(Ipt) + 1
      /\ Len(Ipt) \in Nat
      /\ \A j \in 1 .. Len(Ipt) : Ipt[j] = Head(chat).text[j + 1]
  BY <1>1, <1>4, CommandLeads DEF Ipt
<1>6. Len(Ipt) >= 1
  BY <1>5, EmptySeq
<1> QED BY <1>1, <1>2, <1>3, <1>5, <1>6

\* The words behind a name in front.
LEMMA ArgsAtFront ==
  ASSUME Ipt \in Seq(Words), Ipt # << >>, NEW name, AtFront(name)
  PROVE  /\ Args(name) \in Seq(Words) /\ Len(Args(name)) = Len(Ipt) - 1
         /\ \A j \in 1 .. Len(Ipt) - 1 : Args(name)[j] = Ipt[j + 1]
<1> DEFINE I == {i \in 1 .. Len(Ipt) : Ipt[i].is = name}
           k == SelectInSeq(Ipt, LAMBDA w : w.is = name)
<1>1. Len(Ipt) \in Nat /\ Len(Ipt) >= 1
  BY EmptySeq
<1>2. 1 \in I /\ I \subseteq Nat
  BY <1>1 DEF AtFront
<1>3. k = Min(I)
  BY <1>2 DEF SelectInSeq
<1>4. Min(I) \in I /\ Min(I) <= 1
  <2> HIDE DEF I
  <2> QED BY <1>2, LeastMember
<1>5. Min(I) = 1
  <2>1. Min(I) \in 1 .. Len(Ipt)
    BY <1>4
  <2> HIDE DEF I
  <2> QED BY <1>1, <1>4, <2>1
<1>6. Args(name) = SubSeq(Ipt, 2, Len(Ipt))
  <2>1. k + 1 = 2
    <3> HIDE DEF k
    <3> QED BY <1>3, <1>5
  <2>2. Args(name) = SubSeq(Ipt, k + 1, Len(Ipt))
    BY DEF Args
  <2> QED BY <2>1, <2>2
<1>7. /\ SubSeq(Ipt, 2, Len(Ipt)) \in Seq(Words)
      /\ Len(SubSeq(Ipt, 2, Len(Ipt))) = Len(Ipt) - 1
      /\ \A j \in 1 .. Len(Ipt) - 1 : SubSeq(Ipt, 2, Len(Ipt))[j] = Ipt[j + 1]
  <2> DEFINE n == Len(Ipt)
             r == SubSeq(Ipt, 2, n)
  <2>1. n \in Nat /\ n >= 1 /\ n \in Int /\ 2 \in Int
    BY <1>1
  <2>2. \A i \in 2 .. n : Ipt[i] \in Words
    <3>1. ASSUME NEW i \in 2 .. n PROVE i \in 1 .. n
      <4> HIDE DEF n
      <4> QED BY <2>1
    <3> QED BY <3>1, ElementOfSeq
  <2> HIDE DEF n
  <2>3. /\ r \in Seq(Words)
        /\ Len(r) = IF 2 <= n THEN n - 2 + 1 ELSE 0
        /\ \A i \in 1 .. n - 2 + 1 : r[i] = Ipt[2 + i - 1]
    BY <2>1, <2>2, SubSeqProperties
  <2> HIDE DEF r
  <2>4. Len(r) = n - 1
    BY <2>1, <2>3
  <2>5. ASSUME NEW j \in 1 .. n - 1 PROVE r[j] = Ipt[j + 1]
    <3>1. j \in 1 .. n - 2 + 1 /\ 2 + j - 1 = j + 1
      BY <2>1
    <3> QED BY <2>3, <3>1
  <2> QED BY <2>3, <2>4, <2>5 DEF n, r
<1> QED BY <1>6, <1>7

\* An answer that repeats the whole text, glued to the prefix.
LEMMA DoneKeeps ==
  ASSUME IInv, NEW name \in Kinds \cup {"none"}, Incoming(name), NEW aux \in Seq(Words),
         NEW ok \in BOOLEAN, Answer(name, ok, Glued(Ipt), aux),
         name \in Edits /\ ok => AtFront(name), name # "filter.edit",
         filters' \in Group, filters' # << >>
  PROVE  IInv'
<1>1. Repeats(Glued(Ipt), Ipt)
  BY HandledCommand, GluedWords DEF Repeats
<1>2. ASSUME name \in Edits, ok PROVE Glued(Ipt)[1].is # "TGFCMD"
  <2>1. Ipt[1].is = name /\ name # "TGFCMD"
    BY <1>2 DEF AtFront, Edits
  <2>2. 1 \in 1 .. Len(Ipt)
    BY HandledCommand
  <2> QED BY <1>1, <2>1, <2>2 DEF Repeats
<1> QED BY <1>1, <1>2, HandledCommand, AnswerKeeps

LEMMA BadRtnKeeps ==
  ASSUME IInv, NEW name \in Edits, Incoming(name), BadRtn(name)
  PROVE  IInv'
<1>1. name \in Kinds /\ name # "none"
  BY NameKinds DEF Edits
<1>2. Ipt \in Seq(Words) /\ Dispatch(Ipt) = name
  BY HandledCommand
<1>3. PICK j \in 1 .. Len(Ipt) : Ipt[j].is # "TGFCMD"
  BY <1>1, <1>2, DispatchSpells
<1>4. Repeats(Ipt, Ipt)
  BY <1>2, <1>3 DEF Repeats
<1>5. <<W(name)>> \in Seq(Words)
  BY <1>1, WordType
<1>6. filters' \in Group /\ filters' # << >>
  BY DEF BadRtn, IInv, TypeInv
<1>7. Answer(name, FALSE, Ipt, <<W(name)>>)
  BY DEF BadRtn
<1> QED BY <1>1, <1>4, <1>5, <1>6, <1>7, HandledCommand, AnswerKeeps

LEMMA GroupIs == Group = Seq(FilterOf(Patterns)) /\ TgFocus \in Patterns
  BY DEF Group, Filter, FilterOf

LEMMA InsFilterKeeps == ASSUME IInv, HandleInsFilter PROVE IInv'
<1> DEFINE name == "filter.insert"
           args == Args(name)
           id == IF args = << >> THEN Word - 1 ELSE args[1].num
<1>1. Incoming(name) /\ name \in Edits /\ name \in Kinds
  BY NameKinds DEF HandleInsFilter, Edits
<1>2. CASE BadRtn(name)
  BY <1>1, <1>2, BadRtnKeeps
<1>3. CASE AtFront(name) /\ Stored(name, ins_filter(filters, id), Glued(Ipt))
  <2>1. id \in Int
    <3>1. CASE args = << >>
      BY <3>1
    <3>2. CASE args # << >>
      <4>1. args \in Seq(Words)
        BY <1>1, <1>3, HandledCommand, ArgsAtFront
      <4> HIDE DEF args
      <4>2. args[1] \in Words
        BY <3>2, <4>1, EmptySeq
      <4>3. args[1].num \in Int
        BY <4>2 DEF Words
      <4> QED BY <3>2, <4>3
    <3> QED BY <3>1, <3>2
  <2> HIDE DEF id
  <2>2. Sound(ins_filter(filters, id), Patterns)
    BY <2>1, InsertKeeps, GroupIs DEF IInv, TypeInv
  <2>3. filters' \in Group /\ filters' # << >>
    BY <1>3, <2>2, GroupIs DEF Stored, Sound
  <2>4. Answer(name, TRUE, Glued(Ipt), << >>)
    BY <1>3, Zenon DEF Stored
  <2>5. << >> \in Seq(Words)
    OBVIOUS
  <2>6. name # "filter.edit"
    OBVIOUS
  <2> HIDE DEF name
  <2> QED BY <1>1, <1>3, <2>3, <2>4, <2>5, <2>6, DoneKeeps
<1> QED BY <1>2, <1>3 DEF HandleInsFilter

LEMMA RmFilterKeeps == ASSUME IInv, HandleRmFilter PROVE IInv'
<1> DEFINE name == "filter.remove"
           args == Args(name)
           id == U32(args[1].num)
<1>1. Incoming(name) /\ name \in Edits /\ name \in Kinds
  BY NameKinds DEF HandleRmFilter, Edits
<1>2. CASE BadRtn(name)
  BY <1>1, <1>2, BadRtnKeeps
<1>3. CASE AtFront(name) /\ args # << >> /\ Stored(name, rm_filter(filters, id), Glued(Ipt))
  <2>1. id \in Int
    <3>1. args \in Seq(Words)
      BY <1>1, <1>3, HandledCommand, ArgsAtFront
    <3>2. args[1].num \in Int
      <4> HIDE DEF args
      <4>1. args[1] \in Words
        BY <1>3, <3>1, EmptySeq
      <4> QED BY <4>1 DEF Words
    <3> HIDE DEF args
    <3>3. id \in 0 .. Word - 1
      BY <3>2, U32Type
    <3> HIDE DEF id
    <3> QED BY <3>3
  <2> HIDE DEF id
  <2>2. Sound(rm_filter(filters, id), Patterns)
    BY <2>1, RemoveKeeps, GroupIs DEF IInv, TypeInv
  <2>3. filters' \in Group /\ filters' # << >>
    BY <1>3, <2>2, GroupIs DEF Stored, Sound
  <2>4. Answer(name, TRUE, Glued(Ipt), << >>)
    BY <1>3, Zenon DEF Stored
  <2>5. << >> \in Seq(Words)
    OBVIOUS
  <2>6. name # "filter.edit"
    OBVIOUS
  <2> HIDE DEF name
  <2> QED BY <1>1, <1>3, <2>3, <2>4, <2>5, <2>6, DoneKeeps
<1> QED BY <1>2, <1>3 DEF HandleRmFilter

\* The text of an answer never has the form that handle_editfilter asks for:
\* the TGFCMD of the prefix stands where a number, a property or an action
\* should.
LEMMA EditedByUser ==
  ASSUME IInv, Incoming("filter.edit"), AtFront("filter.edit"), EditArgs(Args("filter.edit"))
  PROVE  Head(chat).from = "user"
<1> DEFINE m == Head(chat)
           t == m.text
           args == Args("filter.edit")
<1>1. /\ Ipt \in Seq(Words) /\ Ipt # << >> /\ Len(Ipt) \in Nat
      /\ m \in Message /\ IsTgfcmd(t) /\ Len(t) = Len(Ipt) + 1
      /\ Pending(m, said[m.by], runs[m.by])
      /\ \A j \in 1 .. Len(Ipt) : Ipt[j] = t[j + 1]
  BY HandledCommand
<1>2. /\ Len(args) = Len(Ipt) - 1
      /\ \A j \in 1 .. Len(Ipt) - 1 : args[j] = Ipt[j + 1]
  BY <1>1, ArgsAtFront
<1>3. /\ Len(args) = 4 /\ U32(args[1].num) > 0 /\ args[2].is \in Props
      /\ args[3].is \in {"add", "del"}
  BY DEF EditArgs
<1> HIDE DEF args, m, t
<1>4. Len(Ipt) = 5 /\ Len(t) = 6
  <2>1. ASSUME NEW a \in Nat, a - 1 = 4 PROVE a = 5
    BY <2>1
  <2>2. Len(Ipt) = 5
    BY <1>1, <1>2, <1>3, <2>1
  <2> QED BY <1>1, <2>2
<1>5. args[1] = t[3] /\ args[2] = t[4] /\ args[3] = t[5]
  <2>1. args[1] = Ipt[2] /\ args[2] = Ipt[3] /\ args[3] = Ipt[4]
    BY <1>2, <1>4
  <2>2. Ipt[2] = t[3] /\ Ipt[3] = t[4] /\ Ipt[4] = t[5]
    BY <1>1, <1>4
  <2> QED BY <2>1, <2>2
<1>6. m.from # "forward"
  BY <1>1 DEF Pending, t
<1>7. ASSUME m.from = "reply" PROVE FALSE
  <2>1. PICK d \in Nat \ {0} : d + 3 <= Len(t) /\ t[d + 2] = W("TGFCMD")
    BY <1>1, <1>7 DEF Pending, t
  <2>2. d = 1 \/ d = 2 \/ d = 3
    BY <1>4, <2>1
  <2>3. W("TGFCMD").is = "TGFCMD" /\ W("TGFCMD").num = 0
    BY DEF W
  <2>4. U32(0) = 0
    BY DEF U32
  <2>5. "TGFCMD" \notin Props
    BY DEF Props, Wants, Bans
  <2>6. CASE d = 1
    <3>1. t[3] = W("TGFCMD")
      BY <2>1, <2>6
    <3> QED BY <1>3, <1>5, <2>3, <2>4, <3>1
  <2>7. CASE d = 2
    <3>1. t[4] = W("TGFCMD")
      BY <2>1, <2>7
    <3> QED BY <1>3, <1>5, <2>3, <2>5, <3>1
  <2>8. CASE d = 3
    <3>1. t[5] = W("TGFCMD")
      BY <2>1, <2>8
    <3> QED BY <1>3, <1>5, <2>3, <3>1
  <2> QED BY <2>2, <2>6, <2>7, <2>8
<1> QED BY <1>1, <1>6, <1>7 DEF Message, m

LEMMA EditFilterKeeps == ASSUME IInv, HandleEditFilter PROVE IInv'
<1> DEFINE name == "filter.edit"
           args == Args(name)
           id == U32(args[1].num)
           res == IF args[3].is = "add" THEN add_one(filters, id, args[2].is, args[4].re)
                                        ELSE del_one(filters, id, args[2].is, args[4].re)
           did == [Ipt EXCEPT ![2].num = res.id]
<1>1. Incoming(name) /\ name \in Edits /\ name \in Kinds
  BY NameKinds DEF HandleEditFilter, Edits
<1>2. CASE BadRtn(name)
  BY <1>1, <1>2, BadRtnKeeps
<1>3. CASE AtFront(name) /\ EditArgs(args) /\ Stored(name, res, did)
  <2>1. /\ args \in Seq(Words) /\ Ipt \in Seq(Words) /\ Ipt # << >>
        /\ Len(args) = Len(Ipt) - 1 /\ Len(Ipt) \in Nat
    BY <1>1, <1>3, HandledCommand, ArgsAtFront
  <2>2. Len(args) = 4 /\ id > 0 /\ args[2].is \in Props
    BY <1>3 DEF EditArgs
  <2>3. 2 \in 1 .. Len(Ipt) /\ 1 \in 1 .. Len(Ipt)
    <3> HIDE DEF args
    <3> QED BY <2>1, <2>2
  <2>4. id \in Nat \ {0}
    <3> HIDE DEF args
    <3>1. args[1] \in Words
      BY <2>1, <2>2
    <3>2. args[1].num \in Int
      BY <3>1 DEF Words
    <3>3. id \in 0 .. Word - 1
      BY <3>2, U32Type
    <3> QED BY <2>2, <3>3
  <2>5. Sound(res, Patterns) /\ NamesItsFilter(res, filters, id)
    <3>1. filters \in Seq(FilterOf(Patterns)) /\ filters # << >>
      BY GroupIs DEF IInv, TypeInv
    <3> HIDE DEF args, id
    <3> QED BY <2>2, <2>4, <3>1, AddKeeps, DeleteKeeps
  <2> HIDE DEF res, id, args
  <2>6. filters' \in Group /\ filters' # << >>
    BY <1>3, <2>5, GroupIs DEF Stored, Sound
  <2>7. Repeats(did, Ipt) /\ did[1].is # "TGFCMD"
    <3> DEFINE w == [Ipt[2] EXCEPT !.num = res.id]
    <3>1. Ipt[2] \in Words /\ res.id \in Int
      BY <2>1, <2>3, <2>4, <2>5, ElementOfSeq DEF NamesItsFilter
    <3>2. w \in Words /\ w.is = Ipt[2].is /\ w.sep = Ipt[2].sep
      BY <3>1 DEF Words
    <3>3. did = [Ipt EXCEPT ![2] = w]
      OBVIOUS
    <3> HIDE DEF w, did
    <3>4. /\ did \in Seq(Words) /\ Len(did) = Len(Ipt)
          /\ \A j \in 1 .. Len(Ipt) : did[j] = IF j = 2 THEN w ELSE Ipt[j]
      BY <2>1, <2>3, <3>2, <3>3, ExceptSeq
    <3>5. Ipt[1].is = "filter.edit"
      BY <1>3 DEF AtFront
    <3>6. did[1].is # "TGFCMD"
      BY <2>3, <3>4, <3>5
    <3>7. \A j \in 1 .. Len(Ipt) : did[j].is = Ipt[j].is /\ (did[j].sep => Ipt[j].sep)
      BY <3>2, <3>4
    <3> QED BY <2>3, <3>4, <3>6, <3>7 DEF Repeats
  <2>8. /\ Answer(name, TRUE, did, << >>)
        /\ << >> \in Seq(Words)
    <3>1. Answer(name, TRUE, did, << >>)
      BY <1>3, Zenon DEF Stored
    <3>2. << >> \in Seq(Words)
      OBVIOUS
    <3> QED BY <3>1, <3>2
  <2>9. Head(chat).from = "user"
    BY <1>1, <1>3, EditedByUser DEF args
  <2> HIDE DEF did
  <2> QED BY <1>1, <2>6, <2>7, <2>8, <2>9, HandledCommand, AnswerKeeps
<1> QED BY <1>2, <1>3, Zenon DEF HandleEditFilter

LEMMA ProcessUpdateKeeps == ASSUME IInv, ProcessUpdate PROVE IInv'
<1>1. ASSUME NEW name \in Kinds \cup {"none"}, name \notin Edits, Incoming(name),
             NEW ok \in BOOLEAN, NEW aux \in Seq(Words),
             Answer(name, ok, Glued(Ipt), aux), UNCHANGED filters
      PROVE  IInv'
  <2>1. filters' \in Group /\ filters' # << >> /\ name # "filter.edit"
    BY <1>1 DEF IInv, TypeInv, Edits
  <2> QED BY <1>1, <2>1, DoneKeeps
<1>2. << >> \in Seq(Words)
  OBVIOUS
<1>3. CASE HandlePause
  BY <1>1, <1>2, <1>3, NameKinds DEF HandlePause, Done, Edits
<1>4. CASE HandleResume
  BY <1>1, <1>2, <1>4, NameKinds DEF HandleResume, Done, Edits
<1>5. CASE HandleFilters
  <2>1. AsReadable(filters) \in Seq(Words)
    BY ReadableText DEF IInv, TypeInv
  <2> QED BY <1>1, <1>5, <2>1, NameKinds DEF HandleFilters, Done, Edits
<1>6. CASE HandleHelp
  <2> DEFINE help == [k \in DOMAIN HelpNames |-> W(HelpNames[k])]
  <2>1. DOMAIN HelpNames = 1 .. 6 /\ \A k \in 1 .. 6 : HelpNames[k] \in Kinds
    BY NameKinds DEF HelpNames
  <2>2. help \in Seq(Words)
    <3>1. \A k \in 1 .. 6 : W(HelpNames[k]) \in Words
      BY <2>1, WordType
    <3> QED BY <2>1, <3>1
  <2> HIDE DEF help
  <2>3. Answer("help", TRUE, Glued(Ipt), help) /\ Incoming("help") /\ UNCHANGED filters
    BY <1>6 DEF HandleHelp, Done, help
  <2> QED BY <1>1, <2>2, <2>3, NameKinds DEF Edits
<1>7. CASE NotSupported
  BY <1>1, <1>2, <1>7 DEF NotSupported, Edits
<1> QED
  BY <1>3, <1>4, <1>5, <1>6, <1>7, InsFilterKeeps, RmFilterKeeps, EditFilterKeeps,
     IgnoreKeeps DEF ProcessUpdate

LEMMA Inductive == Spec => []IInv
<1>1. Init => IInv
  <2> SUFFICES ASSUME Init PROVE IInv
    OBVIOUS
  <2> USE DEF Init
  <2>1. <<TgFocusFilter>> \in Group /\ <<TgFocusFilter>> # << >>
    BY StartFilters, GroupIs
  <2>2. TypeInv
    BY <2>1 DEF TypeInv
  <2> QED BY <2>2 DEF IInv, PendingInv, OneInv, RanInv
<1>2. IInv /\ [Next]_vars => IInv'
  <2> SUFFICES ASSUME IInv, [Next]_vars PROVE IInv'
    OBVIOUS
  <2>1. ASSUME NEW t \in UserTexts, UserSays(t) PROVE IInv'
    BY <2>1, SayKeeps DEF UserSays
  <2>2. ASSUME NEW t \in TheirTexts, Forward(t) PROVE IInv'
    BY <2>2, SayKeeps, ForwardedWords DEF Forward
  <2>3. CASE UNCHANGED vars
    BY <2>3 DEF vars, IInv, TypeInv, PendingInv, OneInv, RanInv
  <2> QED BY <2>1, <2>2, <2>3, ProcessUpdateKeeps DEF Next
<1> QED BY <1>1, <1>2, PTL DEF Spec

----------------------------------------------------------------------------
(***************************************************************************)
(* The theorems.                                                           *)
(***************************************************************************)

\* Whatever is said in the chat or forwarded to it, the daemon runs no more
\* commands for a text than the TGFCMD it begins with, and none for a message
\* of another chat, although it hears its own answers.
THEOREM NoEndlessTalk == Spec => []RunsBounded
<1>1. IInv => RunsBounded
  <2> SUFFICES ASSUME IInv, NEW i \in DOMAIN said
               PROVE  Len(runs[i]) <=
                        (IF said[i].from = "user" THEN Leading(said[i].text) ELSE 0)
    BY DEF RunsBounded
  <2> DEFINE n == Len(runs[i])
             t == said[i].text
  <2>1. /\ i \in 1 .. Len(said) /\ said[i] \in Statement /\ t \in Seq(Words)
        /\ runs[i] \in Seq(Command) /\ n \in Nat
    <3>1. i \in 1 .. Len(said) /\ said[i] \in Statement
      BY ElementOfSeq, LenProperties DEF IInv, TypeInv
    <3>2. t \in Seq(Words)
      BY <3>1 DEF Statement
    <3>3. i \in 1 .. Len(runs) /\ runs[i] \in Seq(Command)
      BY <3>1, ElementOfSeq, LenProperties DEF IInv, TypeInv
    <3>4. n \in Nat
      BY <3>3, LenProperties
    <3> HIDE DEF n, t
    <3> QED BY <3>1, <3>2, <3>3, <3>4
  <2>2. n = 0 \/ MayRun(said[i], n)
    BY <2>1 DEF IInv, RanInv, Ran
  <2>3. /\ LeadSet(t) \subseteq 1 .. Len(t) /\ IsFiniteSet(1 .. Len(t))
        /\ Leading(t) = Cardinality(LeadSet(t))
    <3> HIDE DEF t
    <3>1. DOMAIN t = 1 .. Len(t) /\ Len(t) \in Nat
      BY <2>1, LenProperties
    <3>2. LeadSet(t) \subseteq 1 .. Len(t)
      BY <3>1 DEF LeadSet
    <3>3. IsFiniteSet(1 .. Len(t))
      BY <3>1, FS_Interval
    <3>4. Leading(t) = Cardinality(LeadSet(t))
      BY Zenon DEF LeadSet, Leading
    <3> QED BY <3>2, <3>3, <3>4
  <2>4. IsFiniteSet(LeadSet(t)) /\ Leading(t) \in Nat
    BY <2>3, FS_Subset, FS_CardinalityType
  <2> HIDE DEF n, t
  <2>5. CASE n = 0
    BY <2>4, <2>5 DEF n, t
  <2>6. CASE MayRun(said[i], n)
    <3>1. said[i].from = "user" /\ n \in LeadSet(t)
      BY <2>6 DEF MayRun, t
    <3>2. 1 .. n \subseteq LeadSet(t)
      <4> SUFFICES ASSUME NEW k \in 1 .. n PROVE k \in LeadSet(t)
        OBVIOUS
      <4>1. n \in 1 .. Len(t) /\ DOMAIN t = 1 .. Len(t) /\ Len(t) \in Nat
        BY <2>1, <2>3, <3>1
      <4>2. \A j \in 1 .. n : t[j].is = "TGFCMD" /\ j < Len(t)
        BY <3>1 DEF LeadSet
      <4>3. k \in DOMAIN t /\ 1 .. k \subseteq 1 .. n
        BY <2>1, <4>1
      <4> QED BY <4>2, <4>3 DEF LeadSet
    <3>3. n >= 1
      BY <2>3, <3>1
    <3>4. Cardinality(1 .. n) = n
      BY <2>1, <3>3, FS_Interval
    <3>5. Cardinality(1 .. n) <= Cardinality(LeadSet(t))
      BY <2>4, <3>2, FS_Subset
    <3> QED BY <2>3, <3>1, <3>4, <3>5 DEF n, t
  <2> QED BY <2>2, <2>5, <2>6
<1> QED BY <1>1, Inductive, PTL

\* The daemon changes the filters at most once for a text, also when its
\* answer to it is a command again.
THEOREM EditedOnce == Spec => []EditsOnce
<1>1. IInv => EditsOnce
  <2> SUFFICES ASSUME IInv, NEW i \in DOMAIN runs
               PROVE  Cardinality({k \in DOMAIN runs[i] :
                                     runs[i][k].name \in Edits /\ runs[i][k].ok}) <= 1
    BY DEF EditsOnce
  <2> DEFINE S == {k \in DOMAIN runs[i] : runs[i][k].name \in Edits /\ runs[i][k].ok}
             last == Len(runs[i])
  <2>1. i \in 1 .. Len(said) /\ DOMAIN runs[i] = 1 .. Len(runs[i])
    BY ElementOfSeq, LenProperties DEF IInv, TypeInv
  <2>2. S \subseteq {last}
    BY <2>1 DEF IInv, RanInv, Ran, EditDone
  <2>3. IsFiniteSet({last}) /\ Cardinality({last}) = 1
    BY FS_Singleton
  <2> HIDE DEF S, last
  <2>4. Cardinality(S) <= Cardinality({last})
    BY <2>2, <2>3, FS_Subset
  <2> QED BY <2>3, <2>4 DEF S
<1> QED BY <1>1, Inductive, PTL

\* No answer is taken for a filter.edit that can be done.
THEOREM OnlyUsersEdit == Spec => []AnswersNeverEdit
<1>1. IInv => AnswersNeverEdit
  <2> SUFFICES ASSUME IInv, NEW i \in DOMAIN runs, NEW k \in DOMAIN runs[i],
                      runs[i][k].name = "filter.edit" /\ runs[i][k].ok
               PROVE  runs[i][k].from = "user"
    BY DEF AnswersNeverEdit
  <2>1. i \in 1 .. Len(said) /\ k \in 1 .. Len(runs[i])
    BY ElementOfSeq, LenProperties DEF IInv, TypeInv
  <2> QED BY <2>1 DEF IInv, RanInv, Ran
<1> QED BY <1>1, Inductive, PTL

=============================================================================
