------------------------------ MODULE Account ------------------------------
(***************************************************************************)
(* Logging in and out: the commands auth, auth-cust-api and auth-reset     *)
(* beside the collector of the daemon.                                     *)
(*                                                                         *)
(* They meet in three small files and a directory: the API id, the API     *)
(* hash, the hint that says "logged in", and the database of TDLib.  A     *)
(* file is truncated when it is opened for writing and gets its contents   *)
(* when it is closed; nothing locks them, and a command may be killed      *)
(* between any two steps.  TDLib itself lets one process use its database. *)
(***************************************************************************)
EXTENDS Naturals, Sequences

CONSTANTS
  Ours,   \* the API credentials built into tg-focus
  Typed,  \* credentials a user may type in
  Known   \* credentials Telegram knows

Empty == "empty"   \* a truncated file
Apis == {Ours} \cup Typed

ASSUME AccountAssumption ==
  /\ Ours \in Known /\ Ours \notin Typed /\ Typed # {}
  /\ Empty \notin Apis

VARIABLES
  disk,     \* the files: id, hash and hint
  tddata,   \* TRUE when TDLib's directory holds a session that is logged in
  owner,    \* the process that has TDLib's database open
  lost,     \* that database has been removed meanwhile
  auth,     \* where `auth` is
  own,      \* it was started as `auth`, not as `auth-cust-api`
  asked,    \* its last query has no answer yet
  api,      \* the credentials it uses
  step,     \* how many of its writes to the files are done
  reset,    \* where `auth-reset` is
  coll,     \* where the collector is
  params,   \* the credentials it has read
  over,     \* history: `auth` stores while the hint already says "logged in"
  torn,     \* history: such a run was killed while it stored
  crossed,  \* history: the collector read credentials that were torn or changing
  login,    \* history: the login that `auth` stores: "real", "void" when auth-reset
            \* had removed its database before, "none" when taken back since
  fresh     \* history: the login for which "Logged in!" was printed, likewise

client == <<auth, own, asked, api, step>>
vars == <<disk, tddata, owner, lost, client, reset, coll, params, over, torn, crossed, login, fresh>>

Prompts == {"params", "phone", "code", "password"}
NoApi == [id |-> Empty, hash |-> Empty]

\* get_auth_hint.
Hint == disk.hint = "a"

\* The id and the hash belong together.
Pair(c) == c.id = c.hash /\ c.id # Empty

Init ==
  /\ disk = [id |-> Empty, hash |-> Empty, hint |-> Empty]
  /\ tddata = FALSE /\ owner = "nobody" /\ lost = FALSE
  /\ auth = "idle" /\ own = TRUE /\ asked = FALSE /\ api = NoApi /\ step = 0
  /\ reset = "idle"
  /\ coll = "down" /\ params = NoApi
  /\ over = FALSE /\ torn = FALSE /\ crossed = FALSE
  /\ login = "none" /\ fresh = "none"

----------------------------------------------------------------------------
(***************************************************************************)
(* TdAuth.                                                                 *)
(***************************************************************************)

AuthStart ==
  /\ auth = "idle"
  /\ auth' = "params" /\ own' \in BOOLEAN /\ asked' = FALSE
  /\ UNCHANGED <<disk, tddata, owner, lost, api, step, reset, coll, params, over, torn, crossed, login, fresh>>

\* on_authorization_state_update with WaitTdlibParameters: the stored
\* credentials if the hint is set, ours, or what the user types.  An id that
\* is not a number becomes 0.
AuthParams ==
  /\ auth = "params" /\ ~ asked
  /\ asked' = TRUE
  /\ IF Hint THEN api' = [id |-> disk.id, hash |-> disk.hash]
     ELSE IF own THEN api' = [id |-> Ours, hash |-> Ours]
     ELSE \E a \in Typed : \E i \in {a, Empty} : api' = [id |-> i, hash |-> a]
  /\ UNCHANGED <<disk, tddata, owner, lost, auth, own, step, reset, coll, params, over, torn, crossed, login, fresh>>

\* The other states: the user is asked and the answer is sent.
AuthAsk ==
  /\ auth \in Prompts \ {"params"} /\ ~ asked
  /\ asked' = TRUE
  /\ UNCHANGED <<disk, tddata, owner, lost, auth, own, api, step, reset, coll, params, over, torn, crossed, login, fresh>>

\* A mutant: after an error nobody asks again.
AuthErrorIgnored ==
  /\ auth \in Prompts /\ asked
  /\ auth = "params" => api.id = Empty
  /\ UNCHANGED vars

\* auth_query_callback, one of the known errors: the handler of the current
\* state runs again.  TDLib wants an API id before it opens anything; the
\* other queries fail for a wrong answer, or for wrong credentials.
AuthError ==
  /\ auth \in Prompts /\ asked
  /\ auth = "params" => api.id = Empty
  /\ asked' = FALSE
  /\ UNCHANGED <<disk, tddata, owner, lost, auth, own, api, step, reset, coll, params, over, torn, crossed, login, fresh>>

\* The process ends, and TDLib's database is closed.
Gone == /\ auth' = "idle" /\ own' = TRUE /\ asked' = FALSE /\ step' = 0 /\ api' = NoApi
        /\ over' = FALSE /\ login' = "none"
        /\ owner' = (IF owner = "auth" THEN "nobody" ELSE owner)
        /\ lost' = (lost /\ owner # "auth")

\* An error that is not known, exit (11).  One of them is certain: another
\* process uses the database.
AuthBusy ==
  /\ auth = "params" /\ asked
  /\ api.id # Empty /\ owner # "nobody"
  /\ Gone
  /\ UNCHANGED <<disk, tddata, reset, coll, params, torn, crossed, fresh>>

\* The others: the API hash is empty, Telegram refuses.  A state that is not
\* known, exit (10).
AuthFatal ==
  /\ auth \in Prompts /\ asked
  /\ Gone
  /\ UNCHANGED <<disk, tddata, reset, coll, params, torn, crossed, fresh>>

\* A mutant: the hint is stored before the credentials.
StoreOrderHintFirst == <<"hint", "id", "hash">>

\* A mutant: the API hash is not stored.
StoreOrderNoHash == <<"id", "hint">>

\* authorizationStateReady: set_api_id, set_api_hash, set_auth_hint.
StoreOrder == <<"id", "hash", "hint">>

\* The session is logged in, in the database that was opened: nobody looks
\* whether that is still the one on disk.
Ready == /\ auth' = "store" /\ step' = 0 /\ asked' = FALSE
         /\ over' = Hint
         /\ login' = IF lost' THEN "void" ELSE "real"
         /\ UNCHANGED <<disk, own, api, reset, coll, params, torn, crossed, fresh>>

\* setTdlibParameters succeeds: the database tells whether there is a session.
AuthOpen ==
  /\ auth = "params" /\ asked
  /\ api.id # Empty /\ owner = "nobody"
  /\ owner' = "auth" /\ lost' = FALSE
  /\ \/ tddata /\ Ready
     \/ /\ ~ tddata
        /\ auth' = "phone" /\ asked' = FALSE
        /\ UNCHANGED <<disk, own, api, step, reset, coll, params, over, torn, crossed, login, fresh>>
  /\ UNCHANGED tddata

\* Telegram knows the credentials and the phone number.
AuthPhone ==
  /\ auth = "phone" /\ asked /\ api.id \in Known
  /\ auth' = "code" /\ asked' = FALSE
  /\ UNCHANGED <<disk, tddata, owner, lost, own, api, step, reset, coll, params, over, torn, crossed, login, fresh>>

\* The code is right, and so is the password if there is one.
AuthCode ==
  /\ auth = "code" /\ asked
  /\ auth' = "password" /\ asked' = FALSE
  /\ UNCHANGED <<disk, tddata, owner, lost, own, api, step, reset, coll, params, over, torn, crossed, login, fresh>>

AuthIn ==
  /\ auth \in {"code", "password"} /\ asked
  /\ UNCHANGED <<owner, lost>>
  /\ Ready
  /\ tddata' = ~ lost

\* The contents a file gets when it is closed.
Contents(f) == IF f = "hint" THEN "a" ELSE api[f]

\* One half of a setter: fopen, which truncates, or fclose.  set_api_hash
\* returns at once when there is nothing to write.
AuthStore ==
  LET f == StoreOrder[(step \div 2) + 1]
  IN /\ auth = "store" /\ step < 2 * Len(StoreOrder)
     /\ step' = step + 1
     /\ disk' = IF f = "hash" /\ api.hash = Empty THEN disk
                ELSE [disk EXCEPT ![f] = IF step % 2 = 0 THEN Empty ELSE Contents(f)]
     /\ fresh' = "none"
     /\ crossed' = (crossed \/ coll = "hash")
     /\ UNCHANGED <<tddata, owner, lost, auth, own, asked, api, reset, coll, params, over, torn, login>>

\* "Logged in!", and the destructor closes TDLib.
AuthDone ==
  /\ auth = "store" /\ step = 2 * Len(StoreOrder)
  /\ Gone
  /\ fresh' = login
  /\ torn' = (torn /\ ~ Pair(api))
  /\ UNCHANGED <<disk, tddata, reset, coll, params, crossed>>

\* The user interrupts it, or it crashes.
AuthCrash ==
  /\ auth # "idle"
  /\ Gone
  /\ torn' = (torn \/ (auth = "store" /\ over))
  /\ UNCHANGED <<disk, tddata, reset, coll, params, crossed, fresh>>

----------------------------------------------------------------------------
(***************************************************************************)
(* handle_auth_reset: the hint, the database, the chat id, which           *)
(* CollPipeline looks at.                                                  *)
(***************************************************************************)

ResetOpen ==
  /\ reset = "idle"
  /\ reset' = "hint"
  /\ disk' = [disk EXCEPT !.hint = Empty]
  /\ login' = "none" /\ fresh' = "none"
  /\ crossed' = (crossed \/ coll \in {"id", "hash"})
  /\ UNCHANGED <<tddata, owner, lost, client, coll, params, over, torn>>

ResetHint ==
  /\ reset = "hint"
  /\ reset' = "remove"
  /\ disk' = [disk EXCEPT !.hint = "u"]
  /\ login' = "none" /\ fresh' = "none"
  /\ crossed' = (crossed \/ coll \in {"id", "hash"})
  /\ UNCHANGED <<tddata, owner, lost, client, coll, params, over, torn>>

\* remove_all fails: the command ends there.
ResetFails ==
  /\ reset = "remove"
  /\ reset' = "idle"
  /\ UNCHANGED <<disk, tddata, owner, lost, client, coll, params, over, torn, crossed, login, fresh>>

\* A process that has the database open keeps using the removed one.
ResetRemove ==
  /\ reset = "remove"
  /\ reset' = "idle"
  /\ tddata' = FALSE
  /\ lost' = (lost \/ owner # "nobody")
  /\ login' = "none" /\ fresh' = "none"
  /\ UNCHANGED <<disk, owner, client, coll, params, over, torn, crossed>>

ResetCrash ==
  /\ reset # "idle"
  /\ reset' = "idle"
  /\ UNCHANGED <<disk, tddata, owner, lost, client, coll, params, over, torn, crossed, login, fresh>>

\* The user ends the session from another device.
Revoke ==
  /\ tddata
  /\ tddata' = FALSE
  /\ login' = "none" /\ fresh' = "none"
  /\ UNCHANGED <<disk, owner, lost, client, reset, coll, params, over, torn, crossed>>

----------------------------------------------------------------------------
(***************************************************************************)
(* The collector: CollIniter and the login part of TdCollector.            *)
(***************************************************************************)

Coll(from, to) == /\ coll = from /\ coll' = to
                  /\ UNCHANGED <<disk, tddata, client, reset, over, torn, login, fresh>>

CollStart == Coll("down", "wait") /\ UNCHANGED <<owner, lost, params, crossed>>

\* The hint is read in a loop until it is set, and then once more.
CollHint == Hint /\ Coll("wait", "check") /\ UNCHANGED <<owner, lost, params, crossed>>

CollAgain ==
  /\ Coll("check", IF Hint THEN "id" ELSE "down")
  /\ UNCHANGED <<owner, lost, params, crossed>>

Rewriting == auth = "store" /\ over

\* setTdlibParameters with the stored id and hash.
CollId ==
  /\ Coll("id", "hash")
  /\ params' = [params EXCEPT !.id = disk.id]
  /\ crossed' = (crossed \/ Rewriting \/ torn)
  /\ UNCHANGED <<owner, lost>>

CollHash ==
  /\ Coll("hash", "open")
  /\ params' = [params EXCEPT !.hash = disk.hash]
  /\ crossed' = (crossed \/ Rewriting \/ torn)
  /\ UNCHANGED <<owner, lost>>

\* An error of TDLib is only logged: the collector runs and sees nothing.
CollMute ==
  /\ params.id = Empty \/ params.hash = Empty \/ owner # "nobody"
  /\ Coll("open", "mute")
  /\ UNCHANGED <<owner, lost, params, crossed>>

CollUp ==
  /\ params.id # Empty /\ owner = "nobody" /\ tddata
  /\ Coll("open", "up")
  /\ owner' = "coll" /\ lost' = FALSE
  /\ UNCHANGED <<params, crossed>>

\* WaitPhoneNumber: "Logged in information is corrupted", exit (2).
CollCorrupt ==
  /\ params.id # Empty /\ owner = "nobody" /\ ~ tddata
  /\ Coll("open", "down")
  /\ params' = NoApi /\ crossed' = FALSE
  /\ UNCHANGED <<owner, lost>>

CollStop ==
  /\ coll \in {"wait", "mute", "up"}
  /\ Coll(coll, "down")
  /\ owner' = (IF owner = "coll" THEN "nobody" ELSE owner)
  /\ lost' = (lost /\ owner # "coll")
  /\ params' = NoApi /\ crossed' = FALSE

----------------------------------------------------------------------------
Auth == AuthParams \/ AuthAsk \/ AuthError \/ AuthBusy \/ AuthOpen \/ AuthPhone \/ AuthCode \/ AuthIn
          \/ AuthStore \/ AuthDone

Reset == ResetHint \/ ResetRemove

Collect == CollHint \/ CollAgain \/ CollId \/ CollHash \/ CollMute \/ CollUp \/ CollCorrupt

World == AuthStart \/ AuthFatal \/ AuthCrash \/ ResetOpen \/ ResetFails \/ ResetCrash \/ Revoke
           \/ CollStart \/ CollStop

Next == Auth \/ Reset \/ Collect \/ World

Spec == Init /\ [][Next]_vars

\* The processes go on, and a user who is asked again and again gives the
\* right answer some day.
FairSpec == /\ Spec
            /\ WF_vars(Auth) /\ WF_vars(Reset) /\ WF_vars(Collect)
            /\ SF_vars(AuthParams /\ api'.id # Empty) /\ SF_vars(AuthOpen)
            /\ SF_vars(AuthPhone) /\ SF_vars(AuthIn)

----------------------------------------------------------------------------
\* The hint is never set over credentials that are not a pair: it is the last
\* thing `auth` stores, and auth-reset takes it back first.  Only a second
\* `auth` of a user who is logged in rewrites them under the hint, and leaves
\* them torn when it is killed.
HintMeansCredentials ==
  (Hint /\ ~ torn /\ ~ Rewriting) => Pair(disk)

\* A collector that waits for the login never hands TDLib half of the
\* credentials, whenever it looks; except when they are rewritten, or taken
\* back, between its reads.
CollectorReadsPair ==
  (coll \in {"open", "mute", "up"} /\ ~ crossed) => Pair(params)

\* After "Logged in!" the account is usable until a reset, the end of the
\* session or another login: the next collector finds the hint, a pair and a
\* session, and so does not report corrupted information.  Two exceptions: the
\* credentials were torn before, or auth-reset removed the database during the
\* dialogue.  In that case "Logged in!" is printed over a database that is gone
\* (td_auth.cc:51), and only the next login mends it.
LoggedInUsable ==
  fresh # "none" /\ ~ torn => Hint /\ Pair(disk) /\ (fresh = "real" => tddata)

\* `auth` ends, if the user finally answers right and types credentials that
\* Telegram knows: errors make it ask again.  It does not end when it takes
\* its API id from a file that is empty: that error comes again for ever.
AuthEnds ==
  auth # "idle" ~> \/ auth = "idle"
                   \/ Hint /\ disk.id = Empty
                   \/ api.id \notin Known \cup {Empty}

=============================================================================
