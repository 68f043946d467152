--------------------------- MODULE ChatDispatch ----------------------------
(***************************************************************************)
(* The TG-FOCUS chat seen by the daemon's producer thread: which texts are *)
(* taken for a TGFCMD command, which command is run for them, and what the *)
(* daemon answers.                                                         *)
(*                                                                         *)
(* The daemon speaks in the same chat, as the same user: its answers and   *)
(* the messages it forwards come back to TdCollector::process_update as    *)
(* new messages and go through the same test.  An answer repeats the text  *)
(* of the command, so whether it is taken for one depends on how that text *)
(* begins.                                                                 *)
(*                                                                         *)
(* A text is a sequence of words.  What is kept of a word is what the code *)
(* asks of it: what it is, the number atoi makes of it, the pattern it     *)
(* quotes, and whether a space follows it.  The group of filters is that   *)
(* of FilterMatch; how it is read and written is FilterStore's business.   *)
(***************************************************************************)
EXTENDS FilterMatch, FiniteSets, FiniteSetsExt

CONSTANTS
  Loaded,      \* groups the filters file may hold at first
  Mentions,    \* Mentions[re]: the command names spelled inside a pattern
  UserTexts,   \* bound: what the user may send to the chat
  TheirTexts,  \* bound: messages of other chats that are forwarded
  MaxSaid,     \* bound: texts sent by the user or forwarded
  MaxFilters   \* bound: filters in the group

VARIABLES
  chat,     \* messages of the chat that process_update has yet to see
  pause,    \* tgfstat::c::d::pause_do_csm_mq
  filters,  \* the group the filters file holds
  said,     \* history: the texts that were not answers
  runs      \* history: the commands run for each of them

vars == <<chat, pause, filters, said, runs>>

----------------------------------------------------------------------------
(***************************************************************************)
(* Words.                                                                  *)
(***************************************************************************)

\* handle_tgfcmd looks for the names in this order.
Names == <<"pause", "resume", "filters", "rawfilters", "filter.edit",
           "filter.insert", "filter.remove", "help">>
Edits == {"filter.edit", "filter.insert", "filter.remove"}

\* is is a command name, "TGFCMD", a property, an action, or one of
\*   number  digits, with their value num
\*   quoted  a pattern between double quotes     shown  one in parentheses
\*   other   anything else
Kinds == Range(Names) \cup Props
           \cup {"TGFCMD", "add", "del", "number", "quoted", "shown", "other"}
Words == [is : Kinds, num : Int, re : Patterns, sep : BOOLEAN]

ASSUME DispatchAssumption ==
  /\ Loaded \subseteq Group \ {<< >>}
  /\ UserTexts \subseteq Seq(Words) /\ TheirTexts \subseteq Seq(Words)
  /\ MaxSaid \in Nat /\ MaxFilters \in Nat

W(is) == [is |-> is, num |-> 0, re |-> TgFocus, sep |-> TRUE]
Number(n) == [W("number") EXCEPT !.num = n]
Quoted(re) == [W("quoted") EXCEPT !.re = re]
Shown(re) == [W("shown") EXCEPT !.re = re]

\* The command names string::find discovers in a word.
NamesIn(w) ==
  IF w.is \in {"quoted", "shown"} THEN Mentions[w.re]
  ELSE IF w.is = "rawfilters" THEN {"rawfilters", "filters"}
  ELSE Range(Names) \cap {w.is}

Spells(t, name) == \E i \in DOMAIN t : name \in NamesIn(t[i])

\* The text goes on without a space after its last word.
Glued(t) == IF t = << >> THEN t ELSE [t EXCEPT ![Len(t)].sep = FALSE]

\* CHATCMD_RPLY_PREFIX: an opening bracket, TGFCMD, a closing bracket.
ReplyPrefix == <<W("other"), W("TGFCMD"), W("other")>>

\* TgMsg::to_locale_string puts a symbol before the title, the sender and the
\* text of the message, in every language.
ToLocaleString(t) == <<W("other")>> \o t

----------------------------------------------------------------------------
(***************************************************************************)
(* TdCollector::process_update and handle_tgfcmd.                          *)
(***************************************************************************)

\* A mutant: the brackets of the answer do not matter.
IsTgfcmdAnywhere(t) == Len(t) > 1 /\ \E i \in DOMAIN t : t[i].is = "TGFCMD" /\ t[i].sep

\* txt.length () > 6 && txt[6] == 0x20 && txt.find ("TGFCMD") == 0
IsTgfcmd(t) == Len(t) > 1 /\ t[1].is = "TGFCMD" /\ t[1].sep

\* The chain of ifs: the first name of the list that is somewhere in the text.
Dispatch(t) ==
  LET found == {k \in DOMAIN Names : Spells(t, Names[k])}
  IN IF found = {} THEN "none" ELSE Names[Min(found)]

\* The oldest message the daemon has not seen is a command that goes to the
\* handler of `name`; ipt is the text after the first TGFCMD.
Incoming(name) ==
  /\ chat # << >>
  /\ IsTgfcmd(Head(chat).text)
  /\ Dispatch(Tail(Head(chat).text)) = name

Ipt == Tail(Head(chat).text)

\* The command ran.  The answer is what was done, the reply prefix and a
\* text; it comes back through the chat unless Telegram refuses it.
Answer(name, ok, did, aux) ==
  LET msg == Head(chat)
      text == did \o ReplyPrefix \o aux
  IN /\ runs' = [runs EXCEPT ![msg.by] = Append(@, [name |-> name, from |-> msg.from, ok |-> ok])]
     /\ \/ chat' = Append(Tail(chat), [from |-> "reply", by |-> msg.by, text |-> text])
        \/ chat' = Tail(chat)
     /\ UNCHANGED said

Done(name, aux) == Answer(name, TRUE, Glued(Ipt), aux)

\* bad_rtn: the text, a space, and the usage, which spells the name.
BadRtn(name) ==
  /\ Answer(name, FALSE, Ipt, <<W(name)>>)
  /\ UNCHANGED <<pause, filters>>

HandlePause ==
  /\ Incoming("pause")
  /\ pause' = TRUE
  /\ Done("pause", << >>)
  /\ UNCHANGED filters

HandleResume ==
  /\ Incoming("resume")
  /\ pause' = FALSE
  /\ Done("resume", << >>)
  /\ UNCHANGED filters

\* FilterGroup::as_readable shows every pattern.  A text that says rawfilters
\* comes here too.
AsReadable(g) ==
  LET all == UNION {UNION {Range(g[i][p]) : p \in Props} : i \in DOMAIN g}
  IN SetToSeq({Shown(re) : re \in all})

HandleFilters ==
  /\ Incoming("filters")
  /\ Done("filters", AsReadable(filters))
  /\ UNCHANGED <<pause, filters>>

\* A mutant: the name may stand anywhere in the text.
AtFrontAnywhere(name) == Spells(Ipt, name)

\* cmdipt.find (name) == 0
AtFront(name) == Ipt[1].is = name

\* The words after the name.
Args(name) == LET k == SelectInSeq(Ipt, LAMBDA w : w.is = name)
              IN SubSeq(Ipt, k + 1, Len(Ipt))

\* The group the command leaves behind, if it can be done.
Stored(name, res, did) ==
  /\ Len(res.fs) <= MaxFilters
  /\ filters' = res.fs
  /\ Answer(name, TRUE, did, << >>)
  /\ UNCHANGED pause

\* handle_insfilter.  Without an argument the u32 keeps UINT32_MAX, which
\* ins_filter takes for a negative index.
HandleInsFilter ==
  LET args == Args("filter.insert")
      id == IF args = << >> THEN Word - 1 ELSE args[1].num
      good == AtFront("filter.insert") /\ id > 0 /\ ins_filter(filters, id).ok
  IN /\ Incoming("filter.insert")
     /\ \/ good /\ Stored("filter.insert", ins_filter(filters, id), Glued(Ipt))
        \/ ~ good /\ BadRtn("filter.insert")

HandleRmFilter ==
  LET args == Args("filter.remove")
      id == U32(args[1].num)
      good == /\ AtFront("filter.remove")
              /\ args # << >>
              /\ id > 0
              /\ rm_filter(filters, id).ok
  IN /\ Incoming("filter.remove")
     /\ \/ good /\ Stored("filter.remove", rm_filter(filters, id), Glued(Ipt))
        \/ ~ good /\ BadRtn("filter.remove")

\* A mutant: the value is the fourth word, whatever follows.
EditArgsLoose(t) ==
  /\ Len(t) >= 4
  /\ U32(t[1].num) > 0
  /\ t[2].is \in Props
  /\ t[3].is \in {"add", "del"}
  /\ t[4].is = "quoted" /\ t[4].re \in Compiles

\* The four arguments of handle_editfilter.  The last one is the rest of the
\* text: it must begin and end with a double quote.
EditArgs(t) ==
  /\ Len(t) = 4
  /\ U32(t[1].num) > 0
  /\ t[2].is \in Props
  /\ t[3].is \in {"add", "del"}
  /\ t[4].is = "quoted" /\ t[4].re \in Compiles

\* The answer is put together from the arguments, with the id of the filter
\* that was edited, and ends with a space.
HandleEditFilter ==
  LET args == Args("filter.edit")
      id == U32(args[1].num)
      good == AtFront("filter.edit") /\ EditArgs(args)
      res == IF args[3].is = "add" THEN add_one(filters, id, args[2].is, args[4].re)
                                   ELSE del_one(filters, id, args[2].is, args[4].re)
  IN /\ Incoming("filter.edit")
     /\ \/ good /\ res.ok /\ Stored("filter.edit", res, [Ipt EXCEPT ![2].num = res.id])
        \/ ~ (good /\ res.ok) /\ BadRtn("filter.edit")

\* The help text spells these.
HelpNames == <<"pause", "resume", "filters", "filter.insert", "filter.remove", "filter.edit">>

HandleHelp ==
  /\ Incoming("help")
  /\ Done("help", [k \in DOMAIN HelpNames |-> W(HelpNames[k])])
  /\ UNCHANGED <<pause, filters>>

NotSupported ==
  /\ Incoming("none")
  /\ Answer("none", FALSE, Glued(Ipt), << >>)
  /\ UNCHANGED <<pause, filters>>

\* Any other text of the chat, forwarded messages included, is dropped.
Ignore ==
  /\ chat # << >>
  /\ ~ IsTgfcmd(Head(chat).text)
  /\ chat' = Tail(chat)
  /\ UNCHANGED <<pause, filters, said, runs>>

ProcessUpdate ==
  \/ HandlePause \/ HandleResume \/ HandleFilters \/ HandleInsFilter
  \/ HandleRmFilter \/ HandleEditFilter \/ HandleHelp \/ NotSupported \/ Ignore

----------------------------------------------------------------------------
(***************************************************************************)
(* Those who write in the chat.                                            *)
(***************************************************************************)

Say(from, text) ==
  /\ Len(said) < MaxSaid
  /\ said' = Append(said, [from |-> from, text |-> text])
  /\ runs' = Append(runs, << >>)
  /\ chat' = Append(chat, [from |-> from, by |-> Len(said) + 1, text |-> text])
  /\ UNCHANGED <<pause, filters>>

UserSays(t) == Say("user", t)

\* A mutant: the text is forwarded as it is.
ForwardBare(t) == Say("forward", t)

\* coll_consumer sends TgMsg::to_locale_string of a collected message.
Forward(t) == Say("forward", ToLocaleString(t))

Init ==
  /\ chat = << >>
  /\ pause = FALSE
  /\ filters \in {<<TgFocusFilter>>} \cup Loaded
  /\ said = << >>
  /\ runs = << >>

Next == \/ \E t \in UserTexts : UserSays(t)
        \/ \E t \in TheirTexts : Forward(t)
        \/ ProcessUpdate

Spec == Init /\ [][Next]_vars

----------------------------------------------------------------------------
\* How many TGFCMD a text begins with, each followed by a space.
Leading(t) ==
  Cardinality({k \in DOMAIN t : \A i \in 1 .. k : t[i].is = "TGFCMD" /\ i < Len(t)})

\* The daemon never talks to itself without end: a text makes it run at most
\* as many commands as the TGFCMD it begins with, one when it is typed as
\* documented, none when it is a message forwarded from another chat, whatever
\* that message says (process_update and the did_what of every handler).
RunsBounded ==
  \A i \in DOMAIN said :
    Len(runs[i]) <= (IF said[i].from = "user" THEN Leading(said[i].text) ELSE 0)

\* A text typed by the user changes the filters at most once, also when the
\* daemon takes its own answer for a command: the handlers of filter.insert,
\* filter.remove and filter.edit want their name in front.
EditsOnce ==
  \A i \in DOMAIN runs :
    Cardinality({k \in DOMAIN runs[i] : runs[i][k].name \in Edits /\ runs[i][k].ok}) <= 1

\* An answer may insert or remove a filter but never edits one: the text that
\* follows the quoted value makes handle_editfilter refuse it.
AnswersNeverEdit ==
  \A i \in DOMAIN runs : \A k \in DOMAIN runs[i] :
    (runs[i][k].name = "filter.edit" /\ runs[i][k].ok) => runs[i][k].from = "user"

\* What the help text promises: "Edit A Filter: TGFCMD filter.edit ...",
\* "Pause Forwarding: TGFCMD pause".  The command that runs is the one whose
\* name follows TGFCMD.
FirstWordRuns ==
  \A i \in DOMAIN runs : \A k \in DOMAIN runs[i] :
    (runs[i][k].from = "user" /\ said[i].text[2].is \in Range(HelpNames))
      => runs[i][k].name = said[i].text[2].is

=============================================================================
