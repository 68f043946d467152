---------------------------- MODULE FilterStore ----------------------------
(***************************************************************************)
(* The filters file and the three that use it.                             *)
(*                                                                         *)
(*   chat   the daemon's producer thread, running a TGFCMD command: read,  *)
(*          edit, write back                                               *)
(*   cli    `tgfocus filters`, another process: copy to the temporary      *)
(*          file, run an editor on it, verify, write back                  *)
(*   the daemon's consumer thread, which reads the file for each message   *)
(*                                                                         *)
(* UserData::set_filters takes a file lock, truncates the file by opening  *)
(* it and writes; the readers take no lock.  A text fits one stdio buffer: *)
(* it is read, and written, as a whole.                                    *)
(***************************************************************************)
EXTENDS FilterMatch

CONSTANTS
  Args,        \* what atoi may return, an i32, for the filter id of a command
  EditProps,   \* bound: the properties that commands edit
  UserTexts,   \* bound: what the user may leave in the editor
  MaxFilters,  \* bound: filters in a group
  MaxPatterns, \* bound: patterns in a list
  MayFail      \* TRUE when fopen or flock may fail

ASSUME StoreAssumption ==
  /\ Args \subseteq -(Word \div 2) .. (Word \div 2) - 1
  /\ EditProps \subseteq Props
  /\ UserTexts \subseteq Text
  /\ MaxFilters \in Nat /\ MaxPatterns \in Nat
  /\ MayFail \in BOOLEAN

VARIABLES
  file,     \* the text of the filters file
  tmp,      \* the text of the temporary copy
  lock,     \* who holds the file lock
  pc,       \* where each writer is
  out,      \* the text each writer is to write
  reply,    \* the daemon's last answer: outcome, and the id it names
  decided,  \* need_collect's verdict on each message
  saved,    \* history: the last text written completely
  leaked    \* history: the daemon's last fopen failed with the lock held

vars == <<file, tmp, lock, pc, out, reply, decided, saved, leaked>>
disk == <<file, lock, saved, leaked>>

Writers == {"chat", "cli"}
Nobody == "nobody"

PC == {"idle", "editor", "verify", "reload", "lock", "open", "write", "unlock"}
Verdicts == {"none", "yes", "no"}

\* The bounds on a group that a command produces.
Bounded(g) == /\ Len(g) <= MaxFilters
              /\ \A i \in DOMAIN g : \A p \in Props : Len(g[i][p]) <= MaxPatterns

\* The file UserData's constructor creates.
DefaultText == [kind |-> "ok", fs |-> <<TgFocusFilter>>]

Init ==
  /\ file = DefaultText /\ saved = DefaultText
  /\ tmp = Empty
  /\ lock = Nobody /\ leaked = FALSE
  /\ pc = [w \in Writers |-> "idle"]
  /\ out = [w \in Writers |-> Empty]
  /\ reply = [what |-> "none", id |-> 0]
  /\ decided = [m \in Msgs |-> "none"]

----------------------------------------------------------------------------
(***************************************************************************)
(* TGFCMD commands, run by the producer thread one at a time.              *)
(***************************************************************************)

\* The command goes no further: the answer explains its usage.
Refuse ==
  /\ reply' = [what |-> "failed", id |-> 0]
  /\ UNCHANGED <<disk, tmp, pc, out, decided>>

\* The edited group goes to set_filters; the answer, sent after it, names
\* an id.
Store(fs, id) ==
  /\ Bounded(fs)
  /\ out' = [out EXCEPT !["chat"] = as_fsdata(fs)]
  /\ pc' = [pc EXCEPT !["chat"] = "lock"]
  /\ reply' = [what |-> "none", id |-> id]
  /\ UNCHANGED <<disk, tmp, decided>>

\* handle_insfilter.  Without an id the u32 keeps UINT32_MAX, which ins_filter
\* takes for a negative index.
InsFilter(arg) ==
  LET res == ins_filter(Parse(file), arg)
  IN /\ pc["chat"] = "idle"
     /\ IF arg <= 0 \/ ~ res.ok THEN Refuse ELSE Store(res.fs, arg)

InsFilterNoId == InsFilter(Word - 1)

\* handle_rmfilter: the result of atoi becomes a u32 before it is tested.
RmFilter(arg) ==
  LET res == rm_filter(Parse(file), U32(arg))
  IN /\ pc["chat"] = "idle"
     /\ IF U32(arg) = 0 \/ ~ res.ok THEN Refuse
                                    ELSE Store(res.fs, U32(arg))

\* handle_editfilter with its four arguments.  A command that lacks one, or
\* names no property, no action or no quoted value, is IllFormed.
EditFilter(arg, p, action, re) ==
  LET id == U32(arg)
      res == IF action = "add" THEN add_one(Parse(file), id, p, re)
                               ELSE del_one(Parse(file), id, p, re)
  IN /\ pc["chat"] = "idle"
     /\ IF id = 0 \/ re \notin Compiles \/ ~ res.ok THEN Refuse
                                                    ELSE Store(res.fs, res.id)

IllFormed == pc["chat"] = "idle" /\ Refuse

Command ==
  \/ \E arg \in Args : InsFilter(arg)
  \/ InsFilterNoId
  \/ \E arg \in Args : RmFilter(arg)
  \/ \E arg \in Args, p \in EditProps, action \in {"add", "del"}, re \in Patterns :
       EditFilter(arg, p, action, re)
  \/ IllFormed

----------------------------------------------------------------------------
(***************************************************************************)
(* tgfocus filters.                                                        *)
(***************************************************************************)

CliGoto(from, to) == pc["cli"] = from /\ pc' = [pc EXCEPT !["cli"] = to]

\* prepare_filters_tmp copies the file; the editor starts.
CliPrepare ==
  /\ CliGoto("idle", "editor")
  /\ tmp' = file
  /\ UNCHANGED <<disk, out, reply, decided>>

\* The user saves a text, or leaves the copy as it is, and quits.
CliEdit ==
  /\ CliGoto("editor", "verify")
  /\ tmp' \in UserTexts \cup {tmp}
  /\ UNCHANGED <<disk, out, reply, decided>>

\* A mutant: a group without filters is saved.
CliVerifyLax ==
  /\ CliGoto("verify", IF tmp.kind = "bad" THEN "idle" ELSE "reload")
  /\ UNCHANGED <<disk, tmp, out, reply, decided>>

\* The text must be TOML and hold a filter: isEffective ().
CliVerify ==
  /\ CliGoto("verify", IF tmp.kind = "bad" \/ Parse(tmp) = << >> THEN "idle"
                                                                 ELSE "reload")
  /\ UNCHANGED <<disk, tmp, out, reply, decided>>

\* get_filters_tmp reads the file again.
CliReload ==
  /\ CliGoto("reload", "lock")
  /\ out' = [out EXCEPT !["cli"] = tmp]
  /\ UNCHANGED <<disk, tmp, reply, decided>>

\* Any other start of the program: UserData's constructor truncates the
\* temporary file.
OtherStart ==
  /\ tmp' = Empty
  /\ UNCHANGED <<disk, pc, out, reply, decided>>

----------------------------------------------------------------------------
(***************************************************************************)
(* UserData::set_filters, run by either writer.                            *)
(***************************************************************************)

Goto(w, from, to) == pc[w] = from /\ pc' = [pc EXCEPT ![w] = to]

\* The command is over: the daemon answers.
Finish(w) ==
  /\ out' = [out EXCEPT ![w] = Empty]
  /\ reply' = IF w = "chat" THEN [reply EXCEPT !.what = "success"] ELSE reply
  /\ UNCHANGED <<tmp, decided>>

\* An empty text is not written.
SetNothing(w) ==
  /\ out[w].kind = "empty"
  /\ Goto(w, "lock", "idle")
  /\ Finish(w)
  /\ UNCHANGED disk

\* A mutant: the lock is shared.
LockShared(w) ==
  /\ out[w].kind # "empty"
  /\ Goto(w, "lock", "open")
  /\ lock' = w
  /\ UNCHANGED <<file, saved, leaked, tmp, out, reply, decided>>

\* flock: a second request of the process that holds the lock succeeds.
Lock(w) ==
  /\ out[w].kind # "empty"
  /\ lock \in {Nobody, w}
  /\ Goto(w, "lock", "open")
  /\ lock' = w
  /\ UNCHANGED <<file, saved, leaked, tmp, out, reply, decided>>

\* The lock file is not open, or flock fails: set_filters returns, nothing is
\* written, and the caller does not hear of it.
LockFails(w) ==
  /\ MayFail /\ out[w].kind # "empty"
  /\ Goto(w, "lock", "idle")
  /\ Finish(w)
  /\ UNCHANGED disk

\* fopen (.., "w") truncates.
Open(w) ==
  /\ Goto(w, "open", "write")
  /\ file' = Empty
  /\ UNCHANGED <<lock, saved, leaked, tmp, out, reply, decided>>

\* The lock after w has ended its command: the process of the command line
\* ends with it, which drops its lock; the daemon keeps what it has.
LockAfter(w) == IF w = "cli" THEN Nobody ELSE lock

\* fopen fails: set_filters returns with the lock held.
OpenFails(w) ==
  /\ MayFail
  /\ Goto(w, "open", "idle")
  /\ Finish(w)
  /\ lock' = LockAfter(w)
  /\ leaked' = (leaked \/ w = "chat")
  /\ UNCHANGED <<file, saved>>

Write(w) ==
  /\ Goto(w, "write", "unlock")
  /\ file' = out[w] /\ saved' = out[w]
  /\ UNCHANGED <<lock, leaked, tmp, out, reply, decided>>

\* A mutant: the lock is not given back.
UnlockKept(w) ==
  /\ Goto(w, "unlock", "idle")
  /\ Finish(w)
  /\ lock' = LockAfter(w)
  /\ leaked' = (leaked /\ w # "chat")
  /\ UNCHANGED <<file, saved>>

Unlock(w) ==
  /\ Goto(w, "unlock", "idle")
  /\ Finish(w)
  /\ lock' = Nobody
  /\ leaked' = (leaked /\ w # "chat")
  /\ UNCHANGED <<file, saved>>

SetFilters(w) == \/ SetNothing(w) \/ Lock(w) \/ Open(w) \/ OpenFails(w)
                 \/ Write(w) \/ Unlock(w)

----------------------------------------------------------------------------
\* need_collect: the consumer reads the file, without the lock, and decides.
need_collect(m) ==
  /\ decided[m] = "none"
  /\ decided' = [decided EXCEPT ![m] = IF mtch_tgmsg(Parse(file), m) THEN "yes" ELSE "no"]
  /\ UNCHANGED <<disk, tmp, pc, out, reply>>

Next ==
  \/ Command
  \/ CliPrepare \/ CliEdit \/ CliVerify \/ CliReload \/ OtherStart
  \/ \E w \in Writers : SetFilters(w) \/ LockFails(w)
  \/ \E m \in Msgs : need_collect(m)

Spec == Init /\ [][Next]_vars

\* A thread that runs goes on; a process blocked in flock gets the lock when
\* it is free again and again (the kernel queues the waiters); it need not
\* fail.  The user may stay in the editor.
Fairness ==
  /\ WF_vars(CliVerify \/ CliReload)
  /\ \A w \in Writers : /\ WF_vars(SetFilters(w))
                        /\ SF_vars(Lock(w))

FairSpec == Spec /\ Fairness

----------------------------------------------------------------------------
(***************************************************************************)
(* Properties.                                                             *)
(***************************************************************************)

\* The values of the disk and the threads; the id an answer names fits the
\* u32 the command parsed it into.
TypeOK ==
  /\ file \in Text /\ tmp \in Text /\ saved \in Text
  /\ lock \in Writers \cup {Nobody} /\ leaked \in BOOLEAN
  /\ pc \in [Writers -> PC]
  /\ out \in [Writers -> Text]
  /\ reply \in [what : {"none", "success", "failed"}, id : 0 .. Word - 1]
  /\ decided \in [Msgs -> Verdicts]

\* The group read from the file always has a filter, whatever the two writers
\* save in whatever order: the indices size () - 1 of rm_filter, add_one and
\* del_one never wrap around, and isEffective ()'s promise survives the edits.
GroupNeverEmpty == Parse(file) # << >>

\* The file holds the last text that was written completely, except while the
\* writer that holds the lock is between fopen and fclose of set_filters.
WholeUnlessWriting ==
  file # saved => \E w \in Writers : lock = w /\ pc[w] = "write" /\ file = Empty

\* filter.edit changes the filter whose id its answer names, and no other: the
\* id comes back from add_one and del_one through a reference.
AnswerNamesFilter ==
  [][\A arg \in Args, p \in EditProps, action \in {"add", "del"}, re \in Patterns :
       EditFilter(arg, p, action, re) /\ out'["chat"].kind = "ok"
         => LET g == Parse(file)
                fs == out'["chat"].fs
            IN /\ DOMAIN fs = DOMAIN g \cup {reply'.id}
               /\ \A i \in DOMAIN g \ {reply'.id} : fs[i] = g[i]]_vars

\* A writer that entered set_filters leaves it.  The exception is a command
\* line process that waits for a lock the daemon has kept since its last fopen
\* failed (the early return between lock_stream and unlock_stream); a path that
\* succeeds, or fails before the lock, leaves no lock behind.
WritersFinish ==
  \A w \in Writers : pc[w] = "lock" ~> pc[w] = "idle" \/ (w = "cli" /\ leaked)

\* A message is forwarded only when the filters that were saved last, or the
\* ones being saved, accept it (need_collect).
ForwardsOnlyFiltered ==
  [][\A m \in Msgs :
       decided[m] = "none" /\ decided'[m] = "yes"
         => \/ mtch_tgmsg(Parse(saved), m)
            \/ \E w \in Writers : pc[w] = "write" /\ mtch_tgmsg(Parse(out[w]), m)]_vars

\* A command that is answered with success leaves filters that can be read.
SuccessReadsBack ==
  [][pc["chat"] = "unlock" /\ reply'.what = "success" => file.kind = "ok"]_vars

=============================================================================
