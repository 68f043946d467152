---------------------------- MODULE CollPipeline ----------------------------
(***************************************************************************)
(* The message collector of tg-focus: four threads of the daemon and the   *)
(* globals of stat.cc they share.                                          *)
(*                                                                         *)
(*   initer    CollIniter    starts and joins the three others             *)
(*   producer  CollProducer  takes one TDLib response at a time; new       *)
(*                           messages go to the front of mq                *)
(*   consumer  CollConsumer  creates the TG-FOCUS chat, forwards a batch   *)
(*   switcher  CollSwitcher  every 5s gives the turn to the consumer, and  *)
(*                           stops the other two at shutdown               *)
(*                                                                         *)
(* do_csm_mq is the turn: the producer waits while it is TRUE, the         *)
(* consumer while it is FALSE.  Every access to an atomic, to the file     *)
(* that holds the chat id or to a plain flag shared by two threads is a    *)
(* step of its own, except where merging two of them loses no outcome.     *)
(* Telegram and the user are the environment: what receive() returns is a  *)
(* choice, an answer needs a query that is outstanding.                    *)
(***************************************************************************)
EXTENDS Integers, Sequences, FiniteSets

CONSTANTS
  Msgs,        \* messages that may arrive, each at most once
  TgfMsgs,     \* those posted in a TG-FOCUS chat (commands, echoes, talk)
  Wanted,      \* those the focus filters accept
  MaxSessions, \* bound: how often the collector is started
  MaxLost,     \* bound: how many TG-FOCUS chats the user deletes
  MayFail,     \* TRUE when Telegram may refuse to create a chat
  MayExit,     \* TRUE when TDLib may report a lost login: exit (2)
  MayReset     \* TRUE when the user may run `auth-reset`, once

ASSUME ConstAssumption ==
  /\ TgfMsgs \subseteq Msgs
  /\ Wanted \subseteq Msgs
  /\ MaxSessions \in Nat
  /\ MaxLost \in Nat
  /\ MayFail \in BOOLEAN
  /\ MayExit \in BOOLEAN
  /\ MayReset \in BOOLEAN

VARIABLES
  pc,               \* where each thread is
  do_csm_mq,        \* stat.cc: whose turn it is
  pause_do_csm_mq,  \* stat.cc: set by TGFCMD pause
  tryshut,          \* stat.cc: tryshutwk::coll_*
  succ,             \* stat.cc: tryshutwk::coll_*_succ
  mq,               \* stat.cc: queued messages, newest first
  p_msg,            \* the message the producer is about to insert
  p_id,             \* the chat id the producer is about to store
  it,               \* the consumer's iterator into mq
  is_auth,          \* TdCollector::is_auth
  tried_c_tgfchat,  \* TdCollector::tried_c_tgfchat
  tgfid,            \* the chat id on disk, NoChat when invalid
  reset,            \* how far another process is with `auth-reset`
  auth_hint,        \* the authorization hint on disk
  sends,            \* sendMessage queries without an answer
  creates,          \* create-chat queries without an answer
  td_ready,         \* this session's TDLib client is authorized
  chats,            \* TG-FOCUS chats created so far: 1..chats
  lost,             \* those the user deleted
  session,          \* how often the collector was started
  arrived,          \* history: messages received
  fwd,              \* history: how often collect_msg got a message
  dropped,          \* history: messages discarded unexamined
  moved,            \* history: the chat id changed during this batch
  stray,            \* history: responses taken in the consumer's turn
  n_create,         \* history: create-chat queries of this process
  n_fatal           \* history: answers that invalidated the chat

flags == <<do_csm_mq, pause_do_csm_mq, tryshut, succ>>
auth == <<is_auth, td_ready>>
queries == <<creates, sends>>
chatid == <<tgfid, moved>>
chat == <<chatid, p_id, chats, tried_c_tgfchat, n_fatal>>
inbound == <<pause_do_csm_mq, p_msg, arrived>>
world == <<auth_hint, lost, session, reset>>
data == <<flags, auth, queries, chat, inbound, world, mq, it, fwd, dropped,
          stray, n_create>>
vars == <<pc, data>>

Workers == {"initer", "producer", "consumer", "switcher"}
NoChat == -1
Torn == 0  \* what eight failed reads of an empty file add up to
NoMsg == "none"

\* The labels of each thread, in the order of its code.
IniterPC == {"down", "i_auth", "i_check", "i_run", "i_stop_s", "i_join_s",
             "i_succ", "exited"}
ProducerPC == {"done", "p_while", "p_wait", "p_fetch", "p_insert", "p_open",
               "p_store", "exited"}
ConsumerPC == {"done", "c_while", "c_wait", "c_valid", "c_tried", "c_create",
               "c_lock", "c_next", "c_collect", "c_empty", "c_clear", "exited"}
SwitcherPC == {"done", "s_while", "s_paused", "s_turn", "s_queue", "s_stop_p",
               "s_join_p", "s_break_c", "s_stop_c", "s_join_c", "exited"}

Send == [msg : Msgs, chat : Nat \cup {NoChat}, auth : BOOLEAN]
Create == [n : Nat, auth : BOOLEAN]

\* A thread moves on; a step that does nothing else.
Goto(t, from, to) == pc[t] = from /\ pc' = [pc EXCEPT ![t] = to]
Jump(t, from, to) == Goto(t, from, to) /\ UNCHANGED data

\* is_tgfid_valid (): a torn id passes for a valid one.
TgfidValid == tgfid # NoChat

\* mq_lock is held across steps by the consumer only; the producer's and the
\* switcher's critical sections are one step each.
MqLocked == pc["consumer"] \in {"c_next", "c_collect", "c_empty"}

Elems(s) == {s[i] : i \in DOMAIN s}

\* Queued messages the consumer has not come to.
Unexamined == {mq[i] : i \in {j \in DOMAIN mq : MqLocked => j >= it}}

\* set_tgfid () of any process opens the file, which empties it, ...
OpenTgfid == tgfid' = Torn /\ moved' = (moved \/ MqLocked)

\* ... and closes it, which writes the eight bytes.
CloseTgfid(id) == tgfid' = id /\ moved' = (moved \/ MqLocked)

----------------------------------------------------------------------------
\* The globals of a process start as stat.cc and TdCollector declare them.
NoThreads == [t \in Workers |-> IF t = "initer" THEN "down" ELSE "done"]
FlagsDown == [t \in Workers |-> FALSE]

\* The account directory is fresh, or an earlier process left a chat in it.
Init ==
  /\ pc = NoThreads
  /\ do_csm_mq = FALSE /\ pause_do_csm_mq = FALSE
  /\ tryshut = FlagsDown /\ succ = FlagsDown
  /\ mq = << >> /\ p_msg = NoMsg /\ p_id = NoChat /\ it = 1
  /\ is_auth = FALSE /\ td_ready = FALSE /\ tried_c_tgfchat = FALSE
  /\ creates = {} /\ sends = {}
  /\ tgfid \in {NoChat, 1}
  /\ chats = IF tgfid = NoChat THEN 0 ELSE 1
  /\ auth_hint \in BOOLEAN
  /\ lost = {} /\ session = 0 /\ reset = "idle" /\ moved = FALSE
  /\ arrived = {} /\ fwd = [m \in Msgs |-> 0] /\ dropped = {}
  /\ stray = 0 /\ n_create = 0 /\ n_fatal = 0

----------------------------------------------------------------------------
(***************************************************************************)
(* The user and the world.                                                 *)
(***************************************************************************)

\* IpcMsgType UpColl with no collector running: the eight flags are reset,
\* nothing else is, and a CollIniter thread starts.
UpColl ==
  /\ session < MaxSessions
  /\ Goto("initer", "down", "i_auth")
  /\ tryshut' = FlagsDown /\ succ' = FlagsDown
  /\ session' = session + 1
  /\ UNCHANGED <<do_csm_mq, auth, queries, chat, inbound, auth_hint, lost, reset,
                 mq, it, fwd, dropped, stray, n_create>>

\* IpcMsgType ShutdownColl (or ShutdownIpcSrv) with a collector running.
ShutdownColl ==
  /\ pc["initer"] \notin {"down", "exited"}
  /\ ~tryshut["initer"]
  /\ tryshut' = [tryshut EXCEPT !["initer"] = TRUE]
  /\ UNCHANGED <<pc, do_csm_mq, succ, auth, queries, chat, inbound, world, mq, it,
                 fwd, dropped, stray, n_create>>

\* `tg-focus auth` succeeds in another process.
Authorize ==
  /\ ~auth_hint
  /\ auth_hint' = TRUE
  /\ UNCHANGED <<pc, flags, auth, queries, chat, inbound, lost, session, reset,
                 mq, it, fwd, dropped, stray, n_create>>

\* The user deletes a TG-FOCUS chat or leaves it.
LoseChat ==
  /\ Cardinality(lost) < MaxLost
  /\ \E c \in 1..chats \ lost : lost' = lost \cup {c}
  /\ UNCHANGED <<pc, flags, auth, queries, chat, inbound, auth_hint, session,
                 reset, mq, it, fwd, dropped, stray, n_create>>

\* `tg-focus auth-reset` in another process, the daemon running or not: the
\* hint, the TDLib directory, then the chat id.  Whoever has read the new hint
\* starts no thread, so the hint and the opening of the file are one step.
ResetOpen ==
  /\ MayReset
  /\ reset = "idle" /\ reset' = "open"
  /\ auth_hint' = FALSE
  /\ OpenTgfid
  /\ UNCHANGED <<pc, flags, auth, queries, p_id, chats, tried_c_tgfchat, n_fatal,
                 inbound, lost, session, mq, it, fwd, dropped, stray, n_create>>

ResetChat ==
  /\ reset = "open" /\ reset' = "over"
  /\ CloseTgfid(NoChat)
  /\ UNCHANGED <<pc, flags, auth, queries, p_id, chats, tried_c_tgfchat, n_fatal,
                 inbound, auth_hint, lost, session, mq, it, fwd, dropped, stray,
                 n_create>>

\* The daemon is launched again after exit (2): memory starts anew, the disk
\* and the Telegram account are as they were.
Relaunch ==
  /\ pc["initer"] = "exited"
  /\ pc' = NoThreads
  /\ do_csm_mq' = FALSE /\ pause_do_csm_mq' = FALSE
  /\ tryshut' = FlagsDown /\ succ' = FlagsDown
  /\ mq' = << >> /\ p_msg' = NoMsg /\ p_id' = NoChat /\ it' = 1
  /\ is_auth' = FALSE /\ td_ready' = FALSE /\ tried_c_tgfchat' = FALSE
  /\ creates' = {} /\ sends' = {}
  /\ stray' = 0 /\ n_create' = 0 /\ n_fatal' = 0
  /\ moved' = FALSE
  /\ UNCHANGED <<world, tgfid, chats, arrived, fwd, dropped>>

World ==
  \/ UpColl
  \/ ShutdownColl
  \/ Authorize
  \/ LoseChat
  \/ ResetOpen
  \/ ResetChat
  \/ Relaunch

----------------------------------------------------------------------------
(***************************************************************************)
(* CollIniter::operator()                                                  *)
(***************************************************************************)

\* while (!get_auth_hint ()): leave the loop when authorized or stopped.
IniterAuth ==
  (auth_hint \/ tryshut["initer"]) /\ Jump("initer", "i_auth", "i_check")

\* Give up without the hint.
IniterGiveUp == ~auth_hint /\ Jump("initer", "i_check", "i_succ")

\* collector.init () replaces the TDLib client (queries of the old one are
\* never answered); is_auth and tried_c_tgfchat keep their values.  Then the
\* three threads start.
IniterSpawn ==
  /\ auth_hint
  /\ pc["initer"] = "i_check"
  /\ pc' = [initer |-> "i_run", producer |-> "p_while",
            consumer |-> "c_while", switcher |-> "s_while"]
  /\ td_ready' = FALSE /\ creates' = {} /\ sends' = {}
  /\ UNCHANGED <<flags, is_auth, chat, inbound, world, mq, it, fwd, dropped, stray,
                 n_create>>

\* tryshutwk::coll_initer.wait (false)
IniterWait == tryshut["initer"] /\ Jump("initer", "i_run", "i_stop_s")

IniterStopSwitcher ==
  /\ Goto("initer", "i_stop_s", "i_join_s")
  /\ tryshut' = [tryshut EXCEPT !["switcher"] = TRUE]
  /\ UNCHANGED <<do_csm_mq, succ, auth, queries, chat, inbound, world, mq, it, fwd,
                 dropped, stray, n_create>>

\* coll_switcher_succ.wait, then the jthreads are joined as the block ends.
IniterJoin ==
  /\ succ["switcher"]
  /\ \A t \in Workers \ {"initer"} : pc[t] = "done"
  /\ Jump("initer", "i_join_s", "i_succ")

IniterSucc ==
  /\ Goto("initer", "i_succ", "down")
  /\ succ' = [succ EXCEPT !["initer"] = TRUE]
  /\ UNCHANGED <<do_csm_mq, tryshut, auth, queries, chat, inbound, world, mq, it,
                 fwd, dropped, stray, n_create>>

Initer ==
  \/ IniterAuth
  \/ IniterGiveUp
  \/ IniterSpawn
  \/ IniterWait
  \/ IniterStopSwitcher
  \/ IniterJoin
  \/ IniterSucc

----------------------------------------------------------------------------
(***************************************************************************)
(* CollProducer::operator() and the TdCollector code it runs.              *)
(***************************************************************************)
ProducerWhile == ~tryshut["producer"] /\ Jump("producer", "p_while", "p_wait")

ProducerExit ==
  /\ tryshut["producer"]
  /\ Goto("producer", "p_while", "done")
  /\ succ' = [succ EXCEPT !["producer"] = TRUE]
  /\ UNCHANGED <<do_csm_mq, tryshut, auth, queries, chat, inbound, world, mq, it,
                 fwd, dropped, stray, n_create>>

\* Mutant: the producer does not wait for its turn.
ProducerWaitDropped == Jump("producer", "p_wait", "p_fetch")

\* do_csm_mq.wait (true)
ProducerWait == ~do_csm_mq /\ Jump("producer", "p_wait", "p_fetch")

\* Mutant: an empty response is processed like a message.
FetchNothingProcessed == Jump("producer", "p_fetch", "p_insert")

\* receive (10) times out, or returns something no handler acts on.
FetchNothing == Jump("producer", "p_fetch", "p_while")

\* What every response does; stray counts those of the consumer's turn.
Fetched ==
  /\ pc["producer"] = "p_fetch"
  /\ stray' = IF do_csm_mq THEN stray + 1 ELSE stray
  /\ UNCHANGED <<do_csm_mq, tryshut, succ, world, mq, it, fwd, n_create>>

\* updateAuthorizationState, authorizationStateReady.
FetchReady ==
  /\ Fetched
  /\ ~td_ready
  /\ Goto("producer", "p_fetch", "p_while")
  /\ td_ready' = TRUE /\ is_auth' = TRUE
  /\ UNCHANGED <<queries, chat, inbound, dropped>>

\* updateAuthorizationState, authorizationStateWaitPhoneNumber: exit (2).
FetchLoginLost ==
  /\ MayExit
  /\ Fetched
  /\ ~td_ready
  /\ pc' = [t \in Workers |-> "exited"]
  /\ dropped' = dropped \cup Unexamined
  /\ UNCHANGED <<auth, queries, chat, inbound>>

\* TDLib delivers messages once it is ready, each of them once.
Arrive(m) ==
  /\ td_ready
  /\ m \notin arrived
  /\ arrived' = arrived \cup {m}

\* updateNewMessage from any other chat, or from a TG-FOCUS chat that is no
\* longer the one on disk: build the TgMsg and go for the lock.
FetchMessage(m) ==
  /\ Fetched
  /\ m \in TgfMsgs => \E c \in 1..chats : c # tgfid
  /\ Arrive(m)
  /\ Goto("producer", "p_fetch", "p_insert")
  /\ p_msg' = m
  /\ UNCHANGED <<auth, queries, chat, pause_do_csm_mq, dropped>>

\* updateNewMessage from the TG-FOCUS chat: a TGFCMD is executed, anything
\* else (the echo of a forwarded message, talk) is ignored.  The reply to a
\* command is a query whose answer changes nothing.
FetchCommand(m, cmd) ==
  /\ Fetched
  /\ m \in TgfMsgs
  /\ tgfid \in 1..chats
  /\ Arrive(m)
  /\ Goto("producer", "p_fetch", "p_while")
  /\ pause_do_csm_mq' = CASE cmd = "pause" -> TRUE
                          [] cmd = "resume" -> FALSE
                          [] OTHER -> pause_do_csm_mq
  /\ UNCHANGED <<auth, queries, chat, p_msg, dropped>>

\* try_create_tgfchat's callback with the new chat: set_tgfid follows.
FetchCreated(q) ==
  /\ Fetched
  /\ Goto("producer", "p_fetch", "p_open")
  /\ creates' = creates \ {q}
  /\ chats' = chats + 1
  /\ p_id' = chats + 1
  /\ UNCHANGED <<auth, sends, chatid, tried_c_tgfchat, n_fatal, inbound, dropped>>

\* ... with an error: logged, tried_c_tgfchat stays TRUE.
FetchCreateError(q) ==
  /\ Fetched
  /\ ~q.auth \/ MayFail
  /\ Goto("producer", "p_fetch", "p_while")
  /\ creates' = creates \ {q}
  /\ UNCHANGED <<auth, sends, chat, inbound, dropped>>

\* collect_msg's callback: sent, or an error that only gets logged.
FetchSendDone(q) ==
  /\ Fetched
  /\ q.chat \notin {NoChat, Torn} \/ ~q.auth
  /\ Goto("producer", "p_fetch", "p_while")
  /\ sends' = sends \ {q}
  /\ UNCHANGED <<auth, creates, chat, inbound, dropped>>

\* ... with "Chat not found" or "Have no write access to the chat":
\* set_tgfid (-1) follows.
FetchChatGone(q) ==
  /\ Fetched
  /\ q.chat \in lost \cup {NoChat, Torn}
  /\ Goto("producer", "p_fetch", "p_open")
  /\ sends' = sends \ {q}
  /\ tried_c_tgfchat' = FALSE
  /\ p_id' = NoChat
  /\ n_fatal' = n_fatal + 1
  /\ UNCHANGED <<auth, creates, chatid, chats, inbound, dropped>>

\* __cb is a plain map: when the lookup of process_response overlaps the
\* emplace of a query the consumer sends, the callback may not be found.
FetchUnmatched ==
  /\ Fetched
  /\ pc["consumer"] \in {"c_create", "c_collect"}
  /\ Goto("producer", "p_fetch", "p_while")
  /\ \/ \E q \in creates : creates' = creates \ {q} /\ UNCHANGED sends
     \/ \E q \in sends : sends' = sends \ {q} /\ UNCHANGED creates
  /\ UNCHANGED <<auth, chat, inbound, dropped>>

Answer ==
  \/ \E q \in creates : FetchCreated(q) \/ FetchCreateError(q)
  \/ \E q \in sends : FetchSendDone(q) \/ FetchChatGone(q)

Fetch ==
  \/ FetchNothing
  \/ FetchReady
  \/ FetchLoginLost
  \/ \E m \in Msgs : FetchMessage(m)
  \/ \E m \in Msgs, cmd \in {"pause", "resume", "other"} : FetchCommand(m, cmd)
  \/ Answer
  \/ FetchUnmatched

\* Mutant: the producer inserts without mq_lock.
ProducerInsertUnlocked ==
  /\ Goto("producer", "p_insert", "p_while")
  /\ mq' = <<p_msg>> \o mq
  /\ p_msg' = NoMsg
  /\ UNCHANGED <<flags, auth, queries, chat, arrived, world, it, fwd,
                 dropped, stray, n_create>>

\* process_update's tail: lock mq, insert at mq.begin ().
ProducerInsert ==
  /\ ~MqLocked
  /\ Goto("producer", "p_insert", "p_while")
  /\ mq' = <<p_msg>> \o mq
  /\ p_msg' = NoMsg
  /\ UNCHANGED <<flags, auth, queries, chat, arrived, world, it, fwd,
                 dropped, stray, n_create>>

\* set_tgfid () of a callback.
ProducerOpen ==
  /\ Goto("producer", "p_open", "p_store")
  /\ OpenTgfid
  /\ UNCHANGED <<flags, auth, queries, p_id, chats, tried_c_tgfchat, n_fatal,
                 inbound, world, mq, it, fwd, dropped, stray, n_create>>

ProducerStore ==
  /\ Goto("producer", "p_store", "p_while")
  /\ CloseTgfid(p_id)
  /\ UNCHANGED <<flags, auth, queries, p_id, chats, tried_c_tgfchat, n_fatal,
                 inbound, world, mq, it, fwd, dropped, stray, n_create>>

Producer ==
  \/ ProducerWhile
  \/ ProducerExit
  \/ ProducerWait
  \/ Fetch
  \/ ProducerInsert
  \/ ProducerOpen
  \/ ProducerStore

----------------------------------------------------------------------------
(***************************************************************************)
(* CollSwitcher::operator()                                                *)
(***************************************************************************)

\* Only the switcher gives the consumer the turn.
RaiseTurn == do_csm_mq' = TRUE /\ stray' = 0

\* What the switcher never changes.
switcherRest == <<auth, queries, chat, inbound, world, mq, it, fwd, dropped,
                  n_create>>

\* The loop test, then sleep_for (5s).
SwitcherWhile ==
  Jump("switcher", "s_while", IF tryshut["switcher"] THEN "s_stop_p" ELSE "s_paused")

\* Mutant: the pause is not looked at.
SwitcherPausedDropped == Jump("switcher", "s_paused", "s_turn")

SwitcherPaused ==
  Jump("switcher", "s_paused", IF pause_do_csm_mq THEN "s_while" ELSE "s_turn")

SwitcherTurn ==
  Jump("switcher", "s_turn", IF do_csm_mq THEN "s_while" ELSE "s_queue")

\* Mutant: one message is not worth a turn.
SwitcherQueueOffByOne ==
  /\ ~MqLocked
  /\ Goto("switcher", "s_queue", "s_while")
  /\ IF Len(mq) > 1 THEN RaiseTurn ELSE UNCHANGED <<do_csm_mq, stray>>
  /\ UNCHANGED <<switcherRest, tryshut, succ>>

\* Under mq_lock: give the consumer its turn when there is something to do.
SwitcherQueue ==
  /\ ~MqLocked
  /\ Goto("switcher", "s_queue", "s_while")
  /\ IF Len(mq) > 0 THEN RaiseTurn ELSE UNCHANGED <<do_csm_mq, stray>>
  /\ UNCHANGED <<switcherRest, tryshut, succ>>

SwitcherStopProducer ==
  /\ Goto("switcher", "s_stop_p", "s_join_p")
  /\ tryshut' = [tryshut EXCEPT !["producer"] = TRUE]
  /\ UNCHANGED <<switcherRest, do_csm_mq, succ, stray>>

\* Mutant: the consumer is stopped without waiting for the producer.
SwitcherJoinProducerDropped == Jump("switcher", "s_join_p", "s_break_c")

SwitcherJoinProducer ==
  succ["producer"] /\ Jump("switcher", "s_join_p", "s_break_c")

\* "foceably break consumer's workflow": do_csm_mq first, ...
SwitcherBreakConsumer ==
  /\ Goto("switcher", "s_break_c", "s_stop_c")
  /\ RaiseTurn
  /\ UNCHANGED <<switcherRest, tryshut, succ>>

\* ... the flag the consumer's loop tests after it.
SwitcherStopConsumer ==
  /\ Goto("switcher", "s_stop_c", "s_join_c")
  /\ tryshut' = [tryshut EXCEPT !["consumer"] = TRUE]
  /\ UNCHANGED <<switcherRest, do_csm_mq, succ, stray>>

SwitcherExit ==
  /\ succ["consumer"]
  /\ Goto("switcher", "s_join_c", "done")
  /\ succ' = [succ EXCEPT !["switcher"] = TRUE]
  /\ UNCHANGED <<switcherRest, do_csm_mq, tryshut, stray>>

Switcher ==
  \/ SwitcherWhile
  \/ SwitcherPaused
  \/ SwitcherTurn
  \/ SwitcherQueue
  \/ SwitcherStopProducer
  \/ SwitcherJoinProducer
  \/ SwitcherBreakConsumer
  \/ SwitcherStopConsumer
  \/ SwitcherExit

----------------------------------------------------------------------------
(***************************************************************************)
(* CollConsumer::operator()                                                *)
(***************************************************************************)

\* What the consumer never changes.
consumerRest == <<tryshut, auth, tgfid, p_id, chats, n_fatal, inbound, world, stray>>

ConsumerWhile == ~tryshut["consumer"] /\ Jump("consumer", "c_while", "c_wait")

ConsumerExit ==
  /\ tryshut["consumer"]
  /\ Goto("consumer", "c_while", "done")
  /\ succ' = [succ EXCEPT !["consumer"] = TRUE]
  /\ UNCHANGED <<consumerRest, do_csm_mq, moved, tried_c_tgfchat, queries, mq, it,
                 fwd, dropped, n_create>>

\* do_csm_mq.wait (false)
ConsumerWait == do_csm_mq /\ Jump("consumer", "c_wait", "c_valid")

\* isValid = is_tgfid_valid ()
ConsumerValid ==
  Jump("consumer", "c_valid", IF TgfidValid THEN "c_lock" ELSE "c_tried")

\* isTriedCreate = tried_c_tgfchat, looked at when the chat id was invalid.
ConsumerTried ==
  Jump("consumer", "c_tried", IF tried_c_tgfchat THEN "c_lock" ELSE "c_create")

\* Mutant: the attempt to create a chat is not recorded.
ConsumerCreateUnrecorded ==
  /\ Goto("consumer", "c_create", "c_while")
  /\ IF is_auth /\ ~TgfidValid /\ ~tried_c_tgfchat
     THEN /\ creates' = creates \cup {[n |-> n_create, auth |-> td_ready]}
          /\ n_create' = n_create + 1
     ELSE UNCHANGED <<creates, n_create>>
  /\ UNCHANGED <<consumerRest, do_csm_mq, succ, moved, tried_c_tgfchat, sends, mq,
                 it, fwd, dropped>>

\* try_create_tgfchat, whose guard reads everything again; then `continue`,
\* with the turn still the consumer's.
ConsumerCreate ==
  /\ Goto("consumer", "c_create", "c_while")
  /\ IF is_auth /\ ~TgfidValid /\ ~tried_c_tgfchat
     THEN /\ tried_c_tgfchat' = TRUE
          /\ creates' = creates \cup {[n |-> n_create, auth |-> td_ready]}
          /\ n_create' = n_create + 1
     ELSE UNCHANGED <<tried_c_tgfchat, creates, n_create>>
  /\ UNCHANGED <<consumerRest, do_csm_mq, succ, moved, sends, mq, it, fwd, dropped>>

\* The chat id is being rewritten.
IdInFlux == pc["producer"] = "p_store" \/ reset = "open"

\* Mutant: the chat id is not looked at under the lock.
ConsumerLockUnchecked ==
  /\ Goto("consumer", "c_lock", IF Len(mq) > 0 THEN "c_next" ELSE "c_clear")
  /\ it' = 1
  /\ moved' = IdInFlux
  /\ UNCHANGED <<consumerRest, do_csm_mq, succ, tried_c_tgfchat, queries, mq, fwd,
                 dropped, n_create>>

\* Take mq_lock; consume only with a message and a valid chat.
ConsumerLock ==
  /\ Goto("consumer", "c_lock",
          IF Len(mq) > 0 /\ TgfidValid THEN "c_next" ELSE "c_clear")
  /\ it' = 1
  /\ moved' = (Len(mq) > 0 /\ IdInFlux)
  /\ UNCHANGED <<consumerRest, do_csm_mq, succ, tried_c_tgfchat, queries, mq, fwd,
                 dropped, n_create>>

\* The batch ends, or is given up at shutdown.
BatchOver == it > Len(mq) \/ tryshut["consumer"]

\* is_from_tgfocus () goes by the chat's title; need_collect () by the filters.
Collects(m) == m \notin TgfMsgs /\ m \in Wanted

\* The loop's test and the filters.
ConsumerEnds == BatchOver /\ Jump("consumer", "c_next", "c_empty")

ConsumerAccepts ==
  ~BatchOver /\ Collects(mq[it]) /\ Jump("consumer", "c_next", "c_collect")

ConsumerSkips ==
  /\ ~BatchOver
  /\ ~Collects(mq[it])
  /\ Goto("consumer", "c_next", "c_next")
  /\ it' = it + 1
  /\ UNCHANGED <<consumerRest, do_csm_mq, succ, moved, tried_c_tgfchat, queries, mq,
                 fwd, dropped, n_create>>

\* After the 500ms sleep: collect_msg to the chat id that is on disk now.
ConsumerCollect ==
  /\ Goto("consumer", "c_collect", "c_next")
  /\ sends' = sends \cup {[msg |-> mq[it], chat |-> tgfid, auth |-> td_ready]}
  /\ fwd' = [fwd EXCEPT ![mq[it]] = @ + 1]
  /\ it' = it + 1
  /\ UNCHANGED <<consumerRest, do_csm_mq, succ, moved, tried_c_tgfchat, creates, mq,
                 dropped, n_create>>

\* Mutant: the batch stays in mq.
ConsumerEmptyKept == Jump("consumer", "c_empty", "c_clear")

\* auto tmp = move (mq): all of mq goes, examined or not.  Unlock.
ConsumerEmpty ==
  /\ Goto("consumer", "c_empty", "c_clear")
  /\ mq' = << >>
  /\ dropped' = dropped \cup Unexamined
  /\ moved' = FALSE
  /\ UNCHANGED <<consumerRest, do_csm_mq, succ, tried_c_tgfchat, queries, it, fwd,
                 n_create>>

\* Mutant: the consumer keeps the turn.
ConsumerClearKept == Jump("consumer", "c_clear", "c_while")

\* Give the turn back.
ConsumerClear ==
  /\ Goto("consumer", "c_clear", "c_while")
  /\ do_csm_mq' = FALSE
  /\ UNCHANGED <<consumerRest, succ, moved, tried_c_tgfchat, queries, mq, it, fwd,
                 dropped, n_create>>

Consumer ==
  \/ ConsumerWhile
  \/ ConsumerExit
  \/ ConsumerWait
  \/ ConsumerValid
  \/ ConsumerTried
  \/ ConsumerCreate
  \/ ConsumerLock
  \/ ConsumerEnds
  \/ ConsumerAccepts
  \/ ConsumerSkips
  \/ ConsumerCollect
  \/ ConsumerEmpty
  \/ ConsumerClear

----------------------------------------------------------------------------
Next == World \/ Initer \/ Producer \/ Switcher \/ Consumer

Spec == Init /\ [][Next]_vars

\* The scheduler runs every thread that can run.  The producer is not passed
\* over when its turn comes: do_csm_mq stays FALSE while the switcher sleeps
\* its 5s.  TDLib answers every query in the end.  The user and Telegram owe
\* nothing else.
Fairness ==
  /\ WF_vars(Initer)
  /\ WF_vars(Producer)
  /\ WF_vars(Switcher)
  /\ WF_vars(Consumer)
  /\ SF_vars(ProducerWait)
  /\ SF_vars(Answer)

FairSpec == Spec /\ Fairness

----------------------------------------------------------------------------
(***************************************************************************)
(* Properties                                                              *)
(***************************************************************************)

PcType ==
  /\ pc \in [Workers -> IniterPC \cup ProducerPC \cup ConsumerPC \cup SwitcherPC]
  /\ pc["initer"] \in IniterPC
  /\ pc["producer"] \in ProducerPC
  /\ pc["consumer"] \in ConsumerPC
  /\ pc["switcher"] \in SwitcherPC

FlagType ==
  /\ {do_csm_mq, pause_do_csm_mq, auth_hint} \subseteq BOOLEAN
  /\ {is_auth, tried_c_tgfchat, td_ready, moved} \subseteq BOOLEAN
  /\ tryshut \in [Workers -> BOOLEAN] /\ succ \in [Workers -> BOOLEAN]

QueueType ==
  /\ mq \in Seq(Msgs) /\ p_msg \in Msgs \cup {NoMsg} /\ it \in Nat \ {0}
  /\ pc["producer"] = "p_insert" => p_msg \in Msgs
  /\ pc["consumer"] = "c_collect" => it <= Len(mq)

ChatType ==
  /\ {tgfid, p_id} \subseteq Nat \cup {NoChat}
  /\ chats \in Nat /\ lost \subseteq Nat
  /\ reset \in {"idle", "open", "over"}
  /\ sends \subseteq Send /\ creates \subseteq Create

CountType ==
  /\ session \in Nat /\ stray \in Nat /\ n_create \in Nat /\ n_fatal \in Nat
  /\ fwd \in [Msgs -> Nat]
  /\ arrived \subseteq Msgs /\ dropped \subseteq Msgs

\* The values the globals, locals and history variables range over; the
\* producer has a message when it inserts one, the consumer's iterator is
\* inside mq when it dereferences it.
TypeOK == PcType /\ FlagType /\ QueueType /\ ChatType /\ CountType

\* A message is handed to collect_msg at most once, over all batches and
\* sessions, and one that was thrown away with the batch was not forwarded:
\* mq is emptied before the turn goes back, by the thread that walked it.
AtMostOnce == \A m \in Msgs : fwd[m] <= 1 /\ (m \in dropped => fwd[m] = 0)

\* The vector the consumer iterates over does not change under its iterator,
\* whatever the producer receives meanwhile (mq_lock).
BatchStable == [][MqLocked /\ mq' # mq => pc["consumer"] = "c_empty"]_vars

\* A queued message is discarded unexamined only when the consumer was told
\* to stop ("give up consuming") or the process exited.
DropOnlyAtShutdown ==
  [][dropped' # dropped => tryshut["consumer"] \/ pc'["initer"] = "exited"]_vars

\* tried_c_tgfchat limits the create-chat queries to one, and one more for
\* each answer that declared the chat gone.
CreatesJustified == n_create <= 1 + n_fatal

\* What is sent goes to a chat that was created, unless the chat id was being
\* rewritten since the consumer took the lock and looked at it: get_tgfid
\* reads it again before every message, and a torn or withdrawn id is not
\* noticed there.
ChatKnown == pc["consumer"] = "c_collect" /\ ~moved => tgfid \in 1..chats

\* The turn is half duplex: while the consumer has it, the producer finishes
\* the response it was waiting for and takes no other.
HalfDuplex == stray <= 1

\* CollIniter reports its end, and a new session starts, only when no thread
\* of the session is left; nothing is received once the consumer is told to
\* stop.
NoOrphans ==
  /\ pc["initer"] \in {"down", "i_auth", "i_check", "i_succ"} =>
       \A t \in Workers \ {"initer"} : pc[t] = "done"
  /\ tryshut["consumer"] => pc["producer"] \in {"done", "exited"}

\* The messages that are still to be dealt with.
Waiting ==
  (IF pc["producer"] = "p_insert" THEN {p_msg} ELSE {})
    \cup (IF pc["consumer"] = "exited" THEN {} ELSE Unexamined)

\* The abstract state: what became of a message, and of the collector.
Fate(m) ==
  IF m \notin arrived THEN "unseen"
  ELSE IF fwd[m] > 0 THEN "forwarded"
  ELSE IF m \in dropped THEN "lost"
  ELSE IF m \in Waiting THEN "queued" ELSE "done"

Fates == [m \in Msgs |-> Fate(m)]

Phase ==
  IF pc["initer"] = "exited" THEN "exited"
  ELSE IF tryshut["consumer"] THEN "stopping" ELSE "running"

Promise == INSTANCE Forwarding WITH st <- Fates, phase <- Phase

\* The four threads, with their flags, queue and lock, implement Forwarding:
\* each step forwards, skips or receives one message, loses all that wait at a
\* stop or an exit, or changes nothing of what became of any message.
KeepsPromise == Promise!Spec

\* A pause has taken effect: no turn is given, none is running, and the
\* switcher has its test of pause_do_csm_mq ahead of it.
PauseInForce ==
  /\ pause_do_csm_mq /\ ~do_csm_mq
  /\ pc["switcher"] \in {"s_while", "s_paused", "done", "exited"}
  /\ pc["consumer"] \in {"c_while", "c_wait", "done", "exited"}

\* "Pause forwarding": a pause that has taken effect lasts, and the consumer
\* forwards nothing, until TGFCMD resume, the end of the process or
\* `focus-stop`, where the switcher wakes the consumer with a full queue.
PauseHolds ==
  [][PauseInForce =>
       /\ fwd' = fwd
       /\ PauseInForce' \/ ~pause_do_csm_mq' \/ tryshut["switcher"]]_vars

\* Forwarding is blocked for good: a chat was asked for and none came, and
\* nobody asks again until the process is restarted.
ChatDenied == tried_c_tgfchat /\ tgfid = NoChat /\ creates = {}

\* A queued message is dealt with, unless forwarding is paused, the collector
\* is being stopped, is down or waits for `auth`, or the chat to forward to was denied: refused by
\* Telegram, its answer lost with the session, or reset behind the daemon.
QueueDrains ==
  \A m \in Msgs : m \in Elems(mq) ~>
    (m \notin Elems(mq) \/ pause_do_csm_mq \/ tryshut["initer"] \/ ~auth_hint
       \/ pc["initer"] = "down" \/ ChatDenied)

\* In the first session, and in a later one when TDLib was ever ready, the
\* producer, once told to, stops: the consumer's turn ends however the
\* switcher left it.
ProducerStops == tryshut["producer"] /\ (session = 1 \/ is_auth) ~> succ["producer"]

\* `focus-stop`: a collector told to stop stops (coll_switcher.cc: "foceably
\* break consumer's workflow").
StopCompletes == tryshut["initer"] ~> succ["initer"]

\* `focus-start` after `focus-stop` starts the collector up: its producer gets
\* to ask TDLib for updates, unless the last session left the consumer its
\* turn before TDLib was ever ready.
RestartFetches ==
  (session = 2 /\ pc["initer"] = "i_run" /\ (is_auth \/ ~do_csm_mq)) ~>
    (pc["producer"] = "p_fetch" \/ tryshut["initer"])

=============================================================================
