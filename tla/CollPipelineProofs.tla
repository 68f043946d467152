------------------------- MODULE CollPipelineProofs -------------------------
(***************************************************************************)
(* The safety properties of CollPipeline, for every set of messages and    *)
(* every bound.  The inductive invariant IInv is the type invariant with   *)
(* six parts, one for each idea: which threads run (ThreadInv), the turn   *)
(* (TurnInv), the chats asked for (CreateInv), the end of a batch          *)
(* (BatchInv), the chat id (ChatInv) and where a message is (OnceInv).     *)
(* The refinement of Forwarding, last, needs a seventh (CollectInv).       *)
(***************************************************************************)
EXTENDS CollPipeline, TLAPS

USE ConstAssumption

\* What the globals of a new process hold.
LEMMA StartValues ==
  /\ NoThreads \in [Workers -> IniterPC \cup ProducerPC \cup ConsumerPC \cup SwitcherPC]
  /\ NoThreads["initer"] = "down"
  /\ \A t \in Workers \ {"initer"} : NoThreads[t] = "done"
  /\ FlagsDown \in [Workers -> BOOLEAN]
  /\ \A t \in Workers : ~FlagsDown[t]
  BY DEF NoThreads, FlagsDown, Workers, IniterPC, ProducerPC, ConsumerPC, SwitcherPC

\* The initial values are well typed.
LEMMA TypeInit == Init => TypeOK
  <1> SUFFICES ASSUME Init PROVE TypeOK
    OBVIOUS
  <1>1. PcType
    BY StartValues DEF Init, PcType, Workers, IniterPC, ProducerPC, ConsumerPC,
       SwitcherPC
  <1>2. FlagType
    BY StartValues DEF Init, FlagType
  <1>3. QueueType
    BY StartValues DEF Init, QueueType, Workers
  <1>4. ChatType
    BY DEF Init, ChatType, NoChat
  <1>5. CountType
    BY DEF Init, CountType
  <1> QED
    BY <1>1, <1>2, <1>3, <1>4, <1>5 DEF TypeOK

\* Every step of every thread keeps the types.
LEMMA TypeStep == TypeOK /\ [Next]_vars => TypeOK'
  <1> SUFFICES ASSUME TypeOK, [Next]_vars PROVE TypeOK'
    OBVIOUS
  <1> USE DEF TypeOK, PcType, FlagType, QueueType, ChatType, CountType,
         Workers, IniterPC, ProducerPC,
         ConsumerPC, SwitcherPC, NoChat, Send, Create, flags, auth, queries, chat, chatid,
         inbound, world, data, Goto, Jump
  <1>1. CASE World
    <2>1. CASE UpColl BY StartValues, <2>1 DEF UpColl
    <2>2. CASE ShutdownColl BY <2>2 DEF ShutdownColl
    <2>3. CASE Authorize BY <2>3 DEF Authorize
    <2>4. CASE LoseChat BY <2>4 DEF LoseChat
    <2>5. CASE Relaunch
      <3>1. PcType' BY StartValues, <2>5 DEF Relaunch
      <3>2. FlagType' BY StartValues, <2>5 DEF Relaunch
      <3>3. QueueType' BY StartValues, <2>5 DEF Relaunch
      <3>4. ChatType' BY StartValues, <2>5 DEF Relaunch
      <3>5. CountType' BY StartValues, <2>5 DEF Relaunch
      <3> QED BY <3>1, <3>2, <3>3, <3>4, <3>5
    <2>6. CASE ResetOpen
      <3>1. PcType' BY <2>6 DEF ResetOpen, OpenTgfid, Torn, MqLocked
      <3>2. FlagType' BY <2>6 DEF ResetOpen, OpenTgfid, Torn, MqLocked
      <3>3. QueueType' BY <2>6 DEF ResetOpen, OpenTgfid, Torn, MqLocked
      <3>4. ChatType' BY <2>6 DEF ResetOpen, OpenTgfid, Torn, MqLocked
      <3>5. CountType' BY <2>6 DEF ResetOpen, OpenTgfid, Torn, MqLocked
      <3> QED BY <3>1, <3>2, <3>3, <3>4, <3>5
    <2>7. CASE ResetChat
      <3>1. PcType' BY <2>7 DEF ResetChat, CloseTgfid, MqLocked
      <3>2. FlagType' BY <2>7 DEF ResetChat, CloseTgfid, MqLocked
      <3>3. QueueType' BY <2>7 DEF ResetChat, CloseTgfid, MqLocked
      <3>4. ChatType' BY <2>7 DEF ResetChat, CloseTgfid, MqLocked
      <3>5. CountType' BY <2>7 DEF ResetChat, CloseTgfid, MqLocked
      <3> QED BY <3>1, <3>2, <3>3, <3>4, <3>5
    <2> QED
      BY <1>1, <2>1, <2>2, <2>3, <2>4, <2>5, <2>6, <2>7 DEF World
  <1>2. CASE Initer
    <2>1. CASE IniterAuth BY <2>1 DEF IniterAuth
    <2>2. CASE IniterGiveUp BY <2>2 DEF IniterGiveUp
    <2>3. CASE IniterSpawn
      <3>1. PcType' BY <2>3 DEF IniterSpawn
      <3>2. FlagType' BY <2>3 DEF IniterSpawn
      <3>3. QueueType' BY <2>3 DEF IniterSpawn
      <3>4. ChatType' BY <2>3 DEF IniterSpawn
      <3>5. CountType' BY <2>3 DEF IniterSpawn
      <3> QED BY <3>1, <3>2, <3>3, <3>4, <3>5
    <2>4. CASE IniterWait BY <2>4 DEF IniterWait
    <2>5. CASE IniterStopSwitcher BY <2>5 DEF IniterStopSwitcher
    <2>6. CASE IniterJoin BY <2>6 DEF IniterJoin
    <2>7. CASE IniterSucc BY <2>7 DEF IniterSucc
    <2> QED
      BY <1>2, <2>1, <2>2, <2>3, <2>4, <2>5, <2>6, <2>7 DEF Initer
  <1>3. CASE Producer
    <2>1. CASE ProducerWhile BY <2>1 DEF ProducerWhile
    <2>2. CASE ProducerExit BY <2>2 DEF ProducerExit
    <2>3. CASE ProducerWait BY <2>3 DEF ProducerWait
    <2>4. CASE FetchNothing BY <2>4 DEF FetchNothing
    <2>5. CASE FetchReady BY <2>5 DEF FetchReady, Fetched
    <2>6. CASE FetchLoginLost BY <2>6 DEF FetchLoginLost, Fetched, Unexamined
    <2>7. ASSUME NEW m \in Msgs, FetchMessage(m)
           PROVE  TypeOK'
      BY <2>7 DEF FetchMessage, Fetched, Arrive
    <2>8. ASSUME NEW m \in Msgs, NEW cmd \in {"pause", "resume", "other"},
                 FetchCommand(m, cmd)
           PROVE  TypeOK'
      <3>1. PcType' BY <2>8 DEF FetchCommand, Fetched, Arrive
      <3>2. FlagType' BY <2>8 DEF FetchCommand, Fetched, Arrive
      <3>3. QueueType' BY <2>8 DEF FetchCommand, Fetched, Arrive
      <3>4. ChatType' BY <2>8 DEF FetchCommand, Fetched, Arrive
      <3>5. CountType' BY <2>8 DEF FetchCommand, Fetched, Arrive
      <3> QED BY <3>1, <3>2, <3>3, <3>4, <3>5
    <2>9. ASSUME NEW q \in creates, FetchCreated(q)
           PROVE  TypeOK'
      BY <2>9 DEF FetchCreated, Fetched
    <2>10. ASSUME NEW q \in creates, FetchCreateError(q)
           PROVE  TypeOK'
      BY <2>10 DEF FetchCreateError, Fetched
    <2>11. ASSUME NEW s \in sends, FetchSendDone(s)
           PROVE  TypeOK'
      BY <2>11 DEF FetchSendDone, Fetched
    <2>12. ASSUME NEW s \in sends, FetchChatGone(s)
           PROVE  TypeOK'
      <3>1. PcType' BY <2>12 DEF FetchChatGone, Fetched
      <3>2. FlagType' BY <2>12 DEF FetchChatGone, Fetched
      <3>3. QueueType' BY <2>12 DEF FetchChatGone, Fetched
      <3>4. ChatType' BY <2>12 DEF FetchChatGone, Fetched
      <3>5. CountType' BY <2>12 DEF FetchChatGone, Fetched
      <3> QED BY <3>1, <3>2, <3>3, <3>4, <3>5
    <2>13. CASE FetchUnmatched BY <2>13 DEF FetchUnmatched, Fetched
    <2>14. CASE ProducerInsert BY <2>14 DEF ProducerInsert
    <2>15. CASE ProducerOpen
      <3>1. PcType' BY <2>15 DEF ProducerOpen, OpenTgfid, Torn, MqLocked
      <3>2. FlagType' BY <2>15 DEF ProducerOpen, OpenTgfid, Torn, MqLocked
      <3>3. QueueType' BY <2>15 DEF ProducerOpen, OpenTgfid, Torn, MqLocked
      <3>4. ChatType' BY <2>15 DEF ProducerOpen, OpenTgfid, Torn, MqLocked
      <3>5. CountType' BY <2>15 DEF ProducerOpen, OpenTgfid, Torn, MqLocked
      <3> QED BY <3>1, <3>2, <3>3, <3>4, <3>5
    <2>16. CASE ProducerStore
      <3>1. PcType' BY <2>16 DEF ProducerStore, CloseTgfid, MqLocked
      <3>2. FlagType' BY <2>16 DEF ProducerStore, CloseTgfid, MqLocked
      <3>3. QueueType' BY <2>16 DEF ProducerStore, CloseTgfid, MqLocked
      <3>4. ChatType' BY <2>16 DEF ProducerStore, CloseTgfid, MqLocked
      <3>5. CountType' BY <2>16 DEF ProducerStore, CloseTgfid, MqLocked
      <3> QED BY <3>1, <3>2, <3>3, <3>4, <3>5
    <2> QED
      BY <1>3, <2>1, <2>2, <2>3, <2>4, <2>5, <2>6, <2>7, <2>8, <2>9, <2>10, <2>11,
         <2>12, <2>13, <2>14, <2>15, <2>16
         DEF Producer, Fetch, Answer
  <1>4. CASE Switcher
    <2>1. CASE SwitcherWhile BY <2>1 DEF SwitcherWhile, switcherRest
    <2>2. CASE SwitcherPaused BY <2>2 DEF SwitcherPaused, switcherRest
    <2>3. CASE SwitcherTurn BY <2>3 DEF SwitcherTurn, switcherRest
    <2>4. CASE SwitcherQueue
      <3>1. PcType' BY <2>4 DEF SwitcherQueue, RaiseTurn, switcherRest
      <3>2. FlagType' BY <2>4 DEF SwitcherQueue, RaiseTurn, switcherRest
      <3>3. QueueType' BY <2>4 DEF SwitcherQueue, RaiseTurn, switcherRest
      <3>4. ChatType' BY <2>4 DEF SwitcherQueue, RaiseTurn, switcherRest
      <3>5. CountType' BY <2>4 DEF SwitcherQueue, RaiseTurn, switcherRest
      <3> QED BY <3>1, <3>2, <3>3, <3>4, <3>5
    <2>5. CASE SwitcherStopProducer BY <2>5 DEF SwitcherStopProducer, switcherRest
    <2>6. CASE SwitcherJoinProducer BY <2>6 DEF SwitcherJoinProducer, switcherRest
    <2>7. CASE SwitcherBreakConsumer
      BY <2>7 DEF SwitcherBreakConsumer, RaiseTurn, switcherRest
    <2>8. CASE SwitcherStopConsumer BY <2>8 DEF SwitcherStopConsumer, switcherRest
    <2>9. CASE SwitcherExit BY <2>9 DEF SwitcherExit, switcherRest
    <2> QED
      BY <1>4, <2>1, <2>2, <2>3, <2>4, <2>5, <2>6, <2>7, <2>8, <2>9 DEF Switcher
  <1>5. CASE Consumer
    <2>1. CASE ConsumerWhile BY <2>1 DEF ConsumerWhile, consumerRest
    <2>2. CASE ConsumerExit BY <2>2 DEF ConsumerExit, consumerRest
    <2>3. CASE ConsumerWait BY <2>3 DEF ConsumerWait, consumerRest
    <2>4. CASE ConsumerValid BY <2>4 DEF ConsumerValid, consumerRest
    <2>5. CASE ConsumerTried BY <2>5 DEF ConsumerTried, consumerRest
    <2>6. CASE ConsumerCreate
      <3>1. PcType' BY <2>6 DEF ConsumerCreate, consumerRest
      <3>2. FlagType' BY <2>6 DEF ConsumerCreate, consumerRest
      <3>3. QueueType' BY <2>6 DEF ConsumerCreate, consumerRest
      <3>4. ChatType' BY <2>6 DEF ConsumerCreate, consumerRest
      <3>5. CountType' BY <2>6 DEF ConsumerCreate, consumerRest
      <3> QED BY <3>1, <3>2, <3>3, <3>4, <3>5
    <2>7. CASE ConsumerLock BY <2>7 DEF ConsumerLock, consumerRest
    <2>8. CASE ConsumerEnds BY <2>8 DEF ConsumerEnds, BatchOver, consumerRest
    <2>9. CASE ConsumerAccepts BY <2>9 DEF ConsumerAccepts, BatchOver, consumerRest
    <2>10. CASE ConsumerSkips BY <2>10 DEF ConsumerSkips, consumerRest, BatchOver
    <2>11. CASE ConsumerCollect BY <2>11 DEF ConsumerCollect, consumerRest
    <2>12. CASE ConsumerEmpty
      <3>1. PcType' BY <2>12 DEF ConsumerEmpty, Unexamined, consumerRest
      <3>2. FlagType' BY <2>12 DEF ConsumerEmpty, Unexamined, consumerRest
      <3>3. QueueType' BY <2>12 DEF ConsumerEmpty, Unexamined, consumerRest
      <3>4. ChatType' BY <2>12 DEF ConsumerEmpty, Unexamined, consumerRest
      <3>5. CountType' BY <2>12 DEF ConsumerEmpty, Unexamined, consumerRest
      <3> QED BY <3>1, <3>2, <3>3, <3>4, <3>5
    <2>13. CASE ConsumerClear BY <2>13 DEF ConsumerClear, consumerRest
    <2> QED
      BY <1>5, <2>1, <2>2, <2>3, <2>4, <2>5, <2>6, <2>7, <2>8, <2>9, <2>10, <2>11,
         <2>12, <2>13 DEF Consumer
  <1>6. CASE UNCHANGED vars BY <1>6 DEF vars
  <1> QED BY <1>1, <1>2, <1>3, <1>4, <1>5, <1>6 DEF Next

\* What any response does to the state other threads look at: the producer
\* moves on, holds a new message, or ends the process.
LEMMA FetchEffect ==
  ASSUME Fetch
  PROVE  /\ pc["producer"] = "p_fetch"
         /\ UNCHANGED <<do_csm_mq, tryshut, succ, mq, it, fwd, n_create>>
         /\ stray' = stray \/ (do_csm_mq /\ stray' = stray + 1)
         /\ \/ UNCHANGED <<tried_c_tgfchat, n_fatal>>
            \/ tried_c_tgfchat' = FALSE /\ n_fatal' = n_fatal + 1
         /\ \/ /\ \/ pc' = [pc EXCEPT !["producer"] = "p_while"]
                  \/ pc' = [pc EXCEPT !["producer"] = "p_open"]
               /\ arrived \subseteq arrived'
               /\ UNCHANGED <<p_msg, dropped>>
            \/ /\ pc' = [pc EXCEPT !["producer"] = "p_insert"]
               /\ p_msg' \in Msgs \ arrived
               /\ arrived' = arrived \cup {p_msg'}
               /\ UNCHANGED dropped
            \/ /\ pc' = [t \in Workers |-> "exited"]
               /\ dropped' = dropped \cup Unexamined
               /\ UNCHANGED <<arrived, p_msg>>
  <1> USE DEF flags, auth, queries, chat, chatid, inbound, world, data, Goto, Jump
  <1>1. CASE FetchNothing
    BY <1>1 DEF FetchNothing
  <1>2. CASE FetchReady \/ FetchLoginLost \/ FetchUnmatched
    BY <1>2 DEF FetchReady, FetchLoginLost, FetchUnmatched, Fetched
  <1>3. ASSUME NEW m \in Msgs, FetchMessage(m)
        PROVE  /\ Fetched /\ Goto("producer", "p_fetch", "p_insert")
               /\ p_msg' \in Msgs \ arrived /\ arrived' = arrived \cup {p_msg'}
               /\ UNCHANGED <<chat, dropped>>
    BY <1>3 DEF FetchMessage, Arrive
  <1>4. ASSUME NEW m \in Msgs, NEW cmd, FetchCommand(m, cmd)
        PROVE  /\ Fetched /\ Goto("producer", "p_fetch", "p_while")
               /\ arrived \subseteq arrived' /\ UNCHANGED <<chat, p_msg, dropped>>
    BY <1>4 DEF FetchCommand, Arrive
  <1>5. CASE Answer
    BY <1>5 DEF Answer, FetchCreated, FetchCreateError, FetchSendDone, FetchChatGone,
       Fetched
  <1> QED
    BY <1>1, <1>2, <1>3, <1>4, <1>5 DEF Fetch, Fetched

\* Which threads run when: exit (2) ends all of them; outside i_run..i_join_s
\* the initer is alone; the producer is gone before the consumer is told.
ThreadInv ==
  /\ (\E t \in Workers : pc[t] = "exited") => \A t \in Workers : pc[t] = "exited"
  /\ pc["initer"] \in {"down", "i_auth", "i_check", "i_succ"} =>
       \A t \in Workers \ {"initer"} : pc[t] = "done"
  /\ pc["initer"] \in {"i_auth", "i_check"} => ~succ["producer"]
  /\ succ["producer"] => pc["producer"] \in {"done", "exited"}
  /\ pc["switcher"] \in {"s_break_c", "s_stop_c"} => succ["producer"]
  /\ tryshut["consumer"] => succ["producer"]

\* In the consumer's turn the one response is still to come, or has been taken.
TurnInv == stray <= 1 /\ (do_csm_mq /\ stray = 1 => pc["producer"] # "p_fetch")

\* A create-chat query is due only while tried_c_tgfchat is FALSE.
CreateInv == n_create + (IF tried_c_tgfchat THEN 0 ELSE 1) <= 1 + n_fatal

\* The batch is over when it is thrown away.
BatchInv == pc["consumer"] = "c_empty" => it > Len(mq) \/ tryshut["consumer"]

\* Where a message can be: not arrived, with the producer, in mq once.  In
\* each of these places it is neither forwarded nor dropped yet, except in mq
\* behind the consumer's iterator.
Fresh(m) == fwd[m] = 0 /\ m \notin dropped

OnceInv ==
  /\ AtMostOnce
  /\ \A m \in Msgs : m \notin arrived => Fresh(m)
  /\ \A i, j \in DOMAIN mq : mq[i] = mq[j] => i = j
  /\ \A i \in DOMAIN mq : mq[i] \in arrived
  /\ pc["producer"] = "p_insert" =>
       p_msg \in arrived /\ Fresh(p_msg) /\ \A i \in DOMAIN mq : mq[i] # p_msg
  /\ pc["consumer"] # "exited" =>
       \A i \in DOMAIN mq : (MqLocked => i >= it) => Fresh(mq[i])

\* The chat id on disk is invalid, torn or one of a chat that was created; it
\* is torn only while someone is in set_tgfid; under the lock it is a chat's
\* unless it moved.
ChatInv ==
  /\ tgfid \in {NoChat, Torn} \cup 1..chats
  /\ pc["producer"] \in {"p_open", "p_store"} => p_id \in {NoChat} \cup 1..chats
  /\ tgfid = Torn => IdInFlux
  /\ MqLocked /\ ~moved => tgfid \in 1..chats

\* Threads start and end in order: UpColl resets the flags while none runs.
LEMMA ThreadInvStep == TypeOK /\ ThreadInv /\ [Next]_vars => ThreadInv'
  <1> SUFFICES ASSUME TypeOK, ThreadInv, [Next]_vars
               PROVE  ThreadInv'
    OBVIOUS
  <1> USE DEF TypeOK, PcType, FlagType, Workers, flags, auth, queries, chat, chatid, inbound,
              world, data, Goto, Jump, ThreadInv
  <1>1. CASE World
    BY StartValues, <1>1 DEF World, UpColl, ShutdownColl, Authorize, LoseChat, ResetOpen,
       ResetChat, OpenTgfid, CloseTgfid, Relaunch
  <1>2. CASE Initer
    BY StartValues, <1>2 DEF Initer, IniterAuth, IniterGiveUp, IniterSpawn,
       IniterWait, IniterStopSwitcher,
       IniterJoin, IniterSucc
  <1>3. CASE Producer
    <2>1. CASE Fetch
      BY <2>1, FetchEffect
    <2>2. CASE \/ ProducerWhile \/ ProducerExit \/ ProducerWait \/ ProducerInsert
               \/ ProducerOpen \/ ProducerStore
      BY <2>2 DEF ProducerWhile, ProducerExit, ProducerWait, ProducerInsert,
         ProducerOpen, ProducerStore, OpenTgfid, CloseTgfid
    <2> QED
      BY <1>3, <2>1, <2>2 DEF Producer
  <1>4. CASE Switcher
    BY StartValues, <1>4 DEF Switcher, SwitcherWhile, SwitcherPaused, SwitcherTurn,
       SwitcherQueue,
       SwitcherStopProducer, SwitcherJoinProducer, SwitcherBreakConsumer,
       SwitcherStopConsumer, SwitcherExit, RaiseTurn, switcherRest
  <1>5. CASE Consumer
    BY StartValues, <1>5 DEF Consumer, ConsumerWhile, ConsumerExit, ConsumerWait,
       ConsumerValid,
       ConsumerTried, ConsumerCreate, ConsumerLock, ConsumerEnds, ConsumerAccepts,
       ConsumerSkips, ConsumerCollect, ConsumerEmpty, ConsumerClear, BatchOver,
       consumerRest
  <1>6. CASE UNCHANGED vars
    BY <1>6 DEF vars
  <1> QED
    BY <1>1, <1>2, <1>3, <1>4, <1>5, <1>6 DEF Next

\* Only the switcher hands the turn over, and it restarts the count.
LEMMA TurnInvStep == TypeOK /\ TurnInv /\ [Next]_vars => TurnInv'
  <1> SUFFICES ASSUME TypeOK, TurnInv, [Next]_vars
               PROVE  TurnInv'
    OBVIOUS
  <1> USE DEF TypeOK, PcType, FlagType, Workers, flags, auth, queries, chat, chatid, inbound,
              world, data, Goto, Jump, CountType, TurnInv
  <1>1. CASE World
    BY StartValues, <1>1 DEF World, UpColl, ShutdownColl, Authorize, LoseChat, ResetOpen,
       ResetChat, OpenTgfid, CloseTgfid, Relaunch
  <1>2. CASE Initer
    BY StartValues, <1>2 DEF Initer, IniterAuth, IniterGiveUp, IniterSpawn,
       IniterWait, IniterStopSwitcher,
       IniterJoin, IniterSucc
  <1>3. CASE Producer
    <2>1. CASE Fetch
      BY <2>1, FetchEffect
    <2>2. CASE \/ ProducerWhile \/ ProducerExit \/ ProducerWait \/ ProducerInsert
               \/ ProducerOpen \/ ProducerStore
      BY <2>2 DEF ProducerWhile, ProducerExit, ProducerWait, ProducerInsert,
         ProducerOpen, ProducerStore, OpenTgfid, CloseTgfid
    <2> QED
      BY <1>3, <2>1, <2>2 DEF Producer
  <1>4. CASE Switcher
    BY StartValues, <1>4 DEF Switcher, SwitcherWhile, SwitcherPaused, SwitcherTurn,
       SwitcherQueue,
       SwitcherStopProducer, SwitcherJoinProducer, SwitcherBreakConsumer,
       SwitcherStopConsumer, SwitcherExit, RaiseTurn, switcherRest
  <1>5. CASE Consumer
    BY StartValues, <1>5 DEF Consumer, ConsumerWhile, ConsumerExit, ConsumerWait,
       ConsumerValid,
       ConsumerTried, ConsumerCreate, ConsumerLock, ConsumerEnds, ConsumerAccepts,
       ConsumerSkips, ConsumerCollect, ConsumerEmpty, ConsumerClear, BatchOver,
       consumerRest
  <1>6. CASE UNCHANGED vars
    BY <1>6 DEF vars
  <1> QED
    BY <1>1, <1>2, <1>3, <1>4, <1>5, <1>6 DEF Next

\* A query uses up the permission tried_c_tgfchat stands for; only a fatal
\* answer renews it.
LEMMA CreateInvStep == TypeOK /\ CreateInv /\ [Next]_vars => CreateInv'
  <1> SUFFICES ASSUME TypeOK, CreateInv, [Next]_vars
               PROVE  CreateInv'
    OBVIOUS
  <1> USE DEF TypeOK, PcType, FlagType, Workers, flags, auth, queries, chat, chatid, inbound,
              world, data, Goto, Jump, CountType, CreateInv
  <1>1. CASE World
    BY <1>1 DEF World, UpColl, ShutdownColl, Authorize, LoseChat, ResetOpen,
       ResetChat, OpenTgfid, CloseTgfid, Relaunch
  <1>2. CASE Initer
    BY <1>2 DEF Initer, IniterAuth, IniterGiveUp, IniterSpawn, IniterWait,
       IniterStopSwitcher,
       IniterJoin, IniterSucc
  <1>3. CASE Producer
    <2>1. CASE Fetch
      <3>1. CASE UNCHANGED <<tried_c_tgfchat, n_fatal>>
        BY <2>1, <3>1, FetchEffect
      <3>2. CASE tried_c_tgfchat' = FALSE /\ n_fatal' = n_fatal + 1
        <4>1. n_create <= 1 + n_fatal /\ n_create' = n_create
          BY <2>1, FetchEffect
        <4> QED
          BY <3>2, <4>1
      <3> QED
        BY <2>1, <3>1, <3>2, FetchEffect
    <2>2. CASE \/ ProducerWhile \/ ProducerExit \/ ProducerWait \/ ProducerInsert
               \/ ProducerOpen \/ ProducerStore
      BY <2>2 DEF ProducerWhile, ProducerExit, ProducerWait, ProducerInsert,
         ProducerOpen, ProducerStore, OpenTgfid, CloseTgfid
    <2> QED
      BY <1>3, <2>1, <2>2 DEF Producer
  <1>4. CASE Switcher
    BY <1>4 DEF Switcher, SwitcherWhile, SwitcherPaused, SwitcherTurn, SwitcherQueue,
       SwitcherStopProducer, SwitcherJoinProducer, SwitcherBreakConsumer,
       SwitcherStopConsumer, SwitcherExit, RaiseTurn, switcherRest
  <1>5. CASE Consumer
    BY <1>5 DEF Consumer, ConsumerWhile, ConsumerExit, ConsumerWait, ConsumerValid,
       ConsumerTried, ConsumerCreate, ConsumerLock, ConsumerEnds, ConsumerAccepts,
       ConsumerSkips, ConsumerCollect, ConsumerEmpty, ConsumerClear, BatchOver,
       consumerRest
  <1>6. CASE UNCHANGED vars
    BY <1>6 DEF vars
  <1> QED
    BY <1>1, <1>2, <1>3, <1>4, <1>5, <1>6 DEF Next

\* Nothing touches mq or the flag between the end of the loop and the move.
LEMMA BatchInvStep == TypeOK /\ ThreadInv /\ BatchInv /\ [Next]_vars => BatchInv'
  <1> SUFFICES ASSUME TypeOK, ThreadInv, BatchInv, [Next]_vars
               PROVE  BatchInv'
    OBVIOUS
  <1> USE DEF TypeOK, PcType, FlagType, Workers, flags, auth, queries, chat, chatid, inbound,
              world, data, Goto, Jump, ThreadInv, QueueType, MqLocked,
              BatchInv
  <1>1. CASE World
    BY StartValues, <1>1 DEF World, UpColl, ShutdownColl, Authorize, LoseChat, ResetOpen,
       ResetChat, OpenTgfid, CloseTgfid, Relaunch
  <1>2. CASE Initer
    BY StartValues, <1>2 DEF Initer, IniterAuth, IniterGiveUp, IniterSpawn,
       IniterWait, IniterStopSwitcher,
       IniterJoin, IniterSucc
  <1>3. CASE Producer
    <2>1. CASE Fetch
      BY <2>1, FetchEffect
    <2>2. CASE \/ ProducerWhile \/ ProducerExit \/ ProducerWait \/ ProducerInsert
               \/ ProducerOpen \/ ProducerStore
      BY <2>2 DEF ProducerWhile, ProducerExit, ProducerWait, ProducerInsert,
         ProducerOpen, ProducerStore, OpenTgfid, CloseTgfid
    <2> QED
      BY <1>3, <2>1, <2>2 DEF Producer
  <1>4. CASE Switcher
    BY StartValues, <1>4 DEF Switcher, SwitcherWhile, SwitcherPaused, SwitcherTurn,
       SwitcherQueue,
       SwitcherStopProducer, SwitcherJoinProducer, SwitcherBreakConsumer,
       SwitcherStopConsumer, SwitcherExit, RaiseTurn, switcherRest
  <1>5. CASE Consumer
    BY StartValues, <1>5 DEF Consumer, ConsumerWhile, ConsumerExit, ConsumerWait,
       ConsumerValid,
       ConsumerTried, ConsumerCreate, ConsumerLock, ConsumerEnds, ConsumerAccepts,
       ConsumerSkips, ConsumerCollect, ConsumerEmpty, ConsumerClear, BatchOver,
       consumerRest
  <1>6. CASE UNCHANGED vars
    BY <1>6 DEF vars
  <1> QED
    BY <1>1, <1>2, <1>3, <1>4, <1>5, <1>6 DEF Next

\* Whoever empties the file fills it again, and the consumer looks at it under
\* the lock.
LEMMA ChatInvStep == TypeOK /\ ThreadInv /\ ChatInv /\ [Next]_vars => ChatInv'
  <1> SUFFICES ASSUME TypeOK, ThreadInv, ChatInv, [Next]_vars
               PROVE  ChatInv'
    OBVIOUS
  <1> USE DEF TypeOK, PcType, ChatType, Workers, flags, auth, queries, chat, chatid,
              inbound, world, data, Goto, Jump, ChatInv, MqLocked, IdInFlux, NoChat,
              Torn
  <1>1. CASE World
    <2>1. CASE ResetOpen \/ ResetChat
      <3>1. /\ \/ tgfid' = Torn /\ reset' = "open"
               \/ tgfid' = NoChat
            /\ UNCHANGED <<pc, p_id, chats>>
        BY <2>1 DEF ResetOpen, ResetChat, OpenTgfid, CloseTgfid
      <3>2. MqLocked => moved'
        BY <2>1, Zenon DEF ResetOpen, ResetChat, OpenTgfid, CloseTgfid
      <3> QED
        BY <3>1, <3>2
    <2>2. CASE Relaunch
      BY <2>2, StartValues DEF Relaunch, ThreadInv
    <2>3. CASE UpColl \/ ShutdownColl \/ Authorize \/ LoseChat
      BY <2>3 DEF UpColl, ShutdownColl, Authorize, LoseChat
    <2> QED
      BY <1>1, <2>1, <2>2, <2>3 DEF World
  <1>2. CASE Initer
    BY <1>2 DEF ThreadInv, Initer, IniterAuth, IniterGiveUp, IniterSpawn, IniterWait,
       IniterStopSwitcher, IniterJoin, IniterSucc
  <1>3. CASE Producer
    <2>1. CASE FetchNothing
      BY <2>1 DEF FetchNothing
    <2>2. CASE FetchReady \/ FetchLoginLost \/ FetchUnmatched
      BY <2>2 DEF FetchReady, FetchLoginLost, FetchUnmatched, Fetched
    <2>3. ASSUME NEW m \in Msgs, FetchMessage(m)
          PROVE  ChatInv'
      BY <2>3 DEF FetchMessage, Fetched
    <2>4. ASSUME NEW m \in Msgs, NEW cmd, FetchCommand(m, cmd)
          PROVE  ChatInv'
      BY <2>4 DEF FetchCommand, Fetched
    <2>5. CASE Answer
      BY <2>5 DEF Answer, FetchCreated, FetchCreateError, FetchSendDone, FetchChatGone,
         Fetched
    <2>6. CASE ProducerOpen \/ ProducerStore
      <3>1. /\ \/ tgfid' = Torn /\ pc' = [pc EXCEPT !["producer"] = "p_store"]
               \/ /\ tgfid' = p_id /\ pc["producer"] = "p_store"
                  /\ pc' = [pc EXCEPT !["producer"] = "p_while"]
            /\ pc["producer"] \in {"p_open", "p_store"}
            /\ UNCHANGED <<p_id, chats, reset>>
        BY <2>6 DEF ProducerOpen, ProducerStore, OpenTgfid, CloseTgfid
      <3>2. MqLocked => moved'
        BY <2>6, Zenon DEF ProducerOpen, ProducerStore, OpenTgfid, CloseTgfid
      <3> QED
        BY <3>1, <3>2
    <2>7. CASE ProducerWhile \/ ProducerExit \/ ProducerWait \/ ProducerInsert
      BY <2>7 DEF ProducerWhile, ProducerExit, ProducerWait, ProducerInsert
    <2> QED
      BY <1>3, <2>1, <2>2, <2>3, <2>4, <2>5, <2>6, <2>7 DEF Producer, Fetch
  <1>4. CASE Switcher
    BY <1>4 DEF Switcher, SwitcherWhile, SwitcherPaused, SwitcherTurn, SwitcherQueue,
       SwitcherStopProducer, SwitcherJoinProducer, SwitcherBreakConsumer,
       SwitcherStopConsumer, SwitcherExit, RaiseTurn, switcherRest
  <1>5. CASE Consumer
    <2>1. CASE ConsumerLock
      BY <2>1 DEF ConsumerLock, consumerRest, TgfidValid, QueueType
    <2>2. CASE Consumer /\ ~ConsumerLock
      BY <2>2 DEF Consumer, ConsumerWhile, ConsumerExit, ConsumerWait, ConsumerValid,
         ConsumerTried, ConsumerCreate, ConsumerEnds, ConsumerAccepts, ConsumerSkips,
         ConsumerCollect, ConsumerEmpty, ConsumerClear, consumerRest
    <2> QED
      BY <1>5, <2>1, <2>2
  <1>6. CASE UNCHANGED vars
    BY <1>6 DEF vars
  <1> QED
    BY <1>1, <1>2, <1>3, <1>4, <1>5, <1>6 DEF Next

\* A message put in front of a queue: one longer, the rest one place up.
LEMMA PrependFacts ==
  ASSUME NEW S, NEW x \in S, NEW q \in Seq(S)
  PROVE  LET r == <<x>> \o q
         IN  /\ r \in Seq(S)
             /\ DOMAIN r = 1..(Len(q) + 1)
             /\ r[1] = x
             /\ \A i \in 2..(Len(q) + 1) : r[i] = q[i - 1]
  OBVIOUS

\* Messages move one way: from Telegram to the producer, to mq, to the past.
LEMMA OnceInvStep == TypeOK /\ ThreadInv /\ OnceInv /\ [Next]_vars => OnceInv'
  <1> SUFFICES ASSUME TypeOK, ThreadInv, OnceInv, [Next]_vars
               PROVE  OnceInv'
    OBVIOUS
  <1> USE DEF TypeOK, PcType, Workers, flags, auth, queries, chat, chatid, inbound, world,
              data, Goto, Jump, OnceInv, AtMostOnce, Fresh, QueueType, CountType,
              MqLocked
  <1>1. CASE World
    BY <1>1, StartValues DEF World, UpColl, ShutdownColl, Authorize, LoseChat, ResetOpen,
       ResetChat, OpenTgfid, CloseTgfid, Relaunch
  <1>2. CASE Initer
    BY <1>2 DEF ThreadInv, Initer, IniterAuth, IniterGiveUp, IniterSpawn, IniterWait,
       IniterStopSwitcher, IniterJoin, IniterSucc
  <1>3. CASE Producer
    <2>1. CASE Fetch
      <3>1. CASE \/ pc' = [pc EXCEPT !["producer"] = "p_while"]
                 \/ pc' = [pc EXCEPT !["producer"] = "p_open"]
        BY <2>1, <3>1, FetchEffect
      <3>2. CASE pc' = [pc EXCEPT !["producer"] = "p_insert"]
        BY <2>1, <3>2, FetchEffect
      <3>3. CASE pc' = [t \in Workers |-> "exited"]
        <4>1. \A m \in Unexamined : m \in Msgs /\ m \in arrived /\ Fresh(m)
          BY <2>1, FetchEffect DEF Unexamined, ThreadInv
        <4>2. /\ dropped' = dropped \cup Unexamined
              /\ UNCHANGED <<arrived, p_msg, mq, fwd>>
          BY <2>1, <3>3, FetchEffect
        <4>3. pc'["producer"] = "exited" /\ pc'["consumer"] = "exited"
          BY <3>3
        <4> QED
          BY <4>1, <4>2, <4>3
      <3> QED
        BY <2>1, <3>1, <3>2, <3>3, FetchEffect
    <2>2. CASE \/ ProducerWhile \/ ProducerExit \/ ProducerWait
               \/ ProducerOpen \/ ProducerStore
      BY <2>2 DEF ProducerWhile, ProducerExit, ProducerWait, ProducerOpen,
         ProducerStore
    <2>3. CASE ProducerInsert
      <3>1. /\ mq' \in Seq(Msgs)
            /\ DOMAIN mq' = 1..(Len(mq) + 1)
            /\ mq'[1] = p_msg
            /\ \A i \in 2..(Len(mq) + 1) : mq'[i] = mq[i - 1]
        BY <2>3, PrependFacts DEF ProducerInsert
      <3>2. /\ pc["producer"] = "p_insert" /\ pc'["producer"] = "p_while"
            /\ pc'["consumer"] = pc["consumer"] /\ ~MqLocked /\ ~MqLocked'
            /\ UNCHANGED <<fwd, dropped, arrived>>
        BY <2>3 DEF ProducerInsert
      <3>3. Len(mq) \in Nat /\ DOMAIN mq = 1..Len(mq)
        OBVIOUS
      <3>4. ASSUME NEW i \in DOMAIN mq', i # 1
            PROVE  i - 1 \in DOMAIN mq /\ mq'[i] = mq[i - 1] /\ mq'[i] # p_msg
        BY <3>1, <3>2, <3>3, <3>4
      <3>5. \A i, j \in DOMAIN mq' : mq'[i] = mq'[j] => i = j
        <4>1. ASSUME NEW i \in DOMAIN mq', NEW j \in DOMAIN mq', mq'[i] = mq'[j]
              PROVE  i = j
          <5>1. CASE i # 1 /\ j # 1
            <6>1. mq[i - 1] = mq[j - 1] /\ i - 1 \in DOMAIN mq /\ j - 1 \in DOMAIN mq
              BY <3>4, <4>1, <5>1
            <6>2. i - 1 = j - 1
              BY <6>1
            <6> QED
              BY <3>1, <3>3, <6>2
          <5>2. CASE i = 1 \/ j = 1
            BY <3>1, <3>4, <4>1, <5>2
          <5> QED
            BY <5>1, <5>2
        <4> QED
          BY <4>1
      <3>6. ASSUME NEW i \in DOMAIN mq'
            PROVE  /\ mq'[i] \in arrived
                   /\ pc["consumer"] # "exited" => Fresh(mq'[i])
        <4>1. CASE i = 1
          BY <3>1, <3>2, <4>1
        <4>2. CASE i # 1
          BY <3>2, <3>4, <4>2
        <4> QED
          BY <4>1, <4>2
      <3> QED
        BY <3>2, <3>5, <3>6
    <2> QED
      BY <1>3, <2>1, <2>2, <2>3 DEF Producer
  <1>4. CASE Switcher
    BY <1>4 DEF Switcher, SwitcherWhile, SwitcherPaused, SwitcherTurn, SwitcherQueue,
       SwitcherStopProducer, SwitcherJoinProducer, SwitcherBreakConsumer,
       SwitcherStopConsumer, SwitcherExit, RaiseTurn, switcherRest
  <1>5. CASE Consumer
    <2>1. CASE \/ ConsumerWhile \/ ConsumerExit \/ ConsumerWait \/ ConsumerValid
               \/ ConsumerTried \/ ConsumerCreate \/ ConsumerLock \/ ConsumerClear
      BY <2>1 DEF ConsumerWhile, ConsumerExit, ConsumerWait, ConsumerValid,
         ConsumerTried, ConsumerCreate, ConsumerLock, ConsumerClear, consumerRest
    <2>2. CASE ConsumerEnds \/ ConsumerAccepts \/ ConsumerSkips
      BY <2>2 DEF ConsumerEnds, ConsumerAccepts, ConsumerSkips, consumerRest
    <2>3. CASE ConsumerCollect
      BY <2>3 DEF ConsumerCollect, consumerRest
    <2>4. CASE ConsumerEmpty
      BY <2>4 DEF ConsumerEmpty, consumerRest, Unexamined
    <2> QED
      BY <1>5, <2>1, <2>2, <2>3, <2>4 DEF Consumer
  <1>6. CASE UNCHANGED vars
    BY <1>6 DEF vars
  <1> QED
    BY <1>1, <1>2, <1>3, <1>4, <1>5, <1>6 DEF Next

\* The inductive invariant: the type invariant and the six parts above.
IInv ==
  TypeOK /\ ThreadInv /\ TurnInv /\ CreateInv /\ BatchInv /\ ChatInv /\ OnceInv

\* The initial state satisfies every part of the inductive invariant.
LEMMA IInvInit == Init => IInv
  <1> SUFFICES ASSUME Init PROVE IInv
    OBVIOUS
  <1>1. TypeOK
    BY TypeInit
  <1>2. ThreadInv
    BY StartValues DEF Init, ThreadInv, Workers
  <1>3. TurnInv /\ CreateInv
    BY DEF Init, TurnInv, CreateInv
  <1>4. BatchInv
    BY StartValues DEF Init, BatchInv, Workers
  <1>5. OnceInv
    BY StartValues DEF Init, OnceInv, AtMostOnce, Fresh, Workers
  <1>6. ChatInv
    BY StartValues DEF Init, ChatInv, MqLocked, NoChat, Torn, Workers
  <1> QED
    BY <1>1, <1>2, <1>3, <1>4, <1>5, <1>6 DEF IInv

\* IInv holds in every state of every behaviour.
LEMMA Inductive == Spec => []IInv
  <1>1. IInv /\ [Next]_vars => IInv'
    BY TypeStep, ThreadInvStep, TurnInvStep, CreateInvStep, BatchInvStep,
       ChatInvStep, OnceInvStep
       DEF IInv
  <1> QED
    BY IInvInit, <1>1, PTL DEF Spec

----------------------------------------------------------------------------
\* Every variable keeps its type; in particular the producer inserts a real
\* message and the consumer never dereferences an iterator past mq.end ().
THEOREM TypeCorrect == Spec => []TypeOK
  <1>1. IInv => TypeOK
    BY DEF IInv
  <1> QED
    BY Inductive, <1>1, PTL

\* collect_msg gets a message at most once, for any number of messages and
\* sessions, and never one that was dropped.
THEOREM ForwardedAtMostOnce == Spec => []AtMostOnce
  <1>1. IInv => AtMostOnce
    BY DEF IInv, OnceInv
  <1> QED
    BY Inductive, <1>1, PTL

\* The number of create-chat queries is bounded by the fatal answers.
THEOREM CreatesAreJustified == Spec => []CreatesJustified
  <1>1. IInv => CreatesJustified
    BY DEF IInv, CreateInv, CreatesJustified, TypeOK, CountType
  <1> QED
    BY Inductive, <1>1, PTL

\* A message goes to a chat that exists unless the id moved during the batch.
THEOREM SentToAChat == Spec => []ChatKnown
  <1>1. IInv => ChatKnown
    BY DEF IInv, ChatInv, ChatKnown, MqLocked
  <1> QED
    BY Inductive, <1>1, PTL

\* At most one response is handled in a turn of the consumer.
THEOREM TurnIsHalfDuplex == Spec => []HalfDuplex
  <1>1. IInv => HalfDuplex
    BY DEF IInv, TurnInv, HalfDuplex
  <1> QED
    BY Inductive, <1>1, PTL

\* No thread outlives its session, and the producer is gone before the
\* consumer is told to stop.
THEOREM NoThreadOutlives == Spec => []NoOrphans
  <1>1. IInv => NoOrphans
    BY DEF IInv, ThreadInv, NoOrphans
  <1> QED
    BY Inductive, <1>1, PTL

\* mq does not change under the consumer's iterator.
THEOREM BatchNeverMoves == Spec => BatchStable
  <1>1. IInv /\ [Next]_vars => [MqLocked /\ mq' # mq => pc["consumer"] = "c_empty"]_vars
    <2> SUFFICES ASSUME IInv, Next, MqLocked, mq' # mq
                 PROVE  pc["consumer"] = "c_empty"
      OBVIOUS
    <2> USE DEF flags, auth, queries, chat, chatid, inbound, world, data, Goto, Jump
    <2>1. CASE World
      BY <2>1 DEF World, UpColl, ShutdownColl, Authorize, LoseChat, ResetOpen,
       ResetChat, OpenTgfid, CloseTgfid, Relaunch, MqLocked,
         IInv, ThreadInv, Workers
    <2>2. CASE Initer
      BY <2>2 DEF Initer, IniterAuth, IniterGiveUp, IniterSpawn, IniterWait,
         IniterStopSwitcher, IniterJoin, IniterSucc
    <2>3. CASE Producer
      BY <2>3, FetchEffect DEF Producer, ProducerWhile, ProducerExit, ProducerWait,
         ProducerOpen, ProducerStore, ProducerInsert
    <2>4. CASE Switcher
      BY <2>4 DEF Switcher, SwitcherWhile, SwitcherPaused, SwitcherTurn, SwitcherQueue,
         SwitcherStopProducer, SwitcherJoinProducer, SwitcherBreakConsumer,
         SwitcherStopConsumer, SwitcherExit, switcherRest
    <2>5. CASE Consumer
      BY <2>5 DEF Consumer, ConsumerWhile, ConsumerExit, ConsumerWait, ConsumerValid,
         ConsumerTried, ConsumerCreate, ConsumerLock, ConsumerEnds, ConsumerAccepts,
         ConsumerSkips, ConsumerCollect, ConsumerEmpty, ConsumerClear
    <2> QED
      BY <2>1, <2>2, <2>3, <2>4, <2>5 DEF Next
  <1> QED
    BY Inductive, <1>1, PTL DEF Spec, BatchStable

\* Messages are thrown away unexamined only at a shutdown or an exit.
THEOREM DropsOnlyAtShutdown == Spec => DropOnlyAtShutdown
  <1>1. IInv /\ [Next]_vars =>
          [dropped' # dropped => tryshut["consumer"] \/ pc'["initer"] = "exited"]_vars
    <2> SUFFICES ASSUME IInv, Next, dropped' # dropped
                 PROVE  tryshut["consumer"] \/ pc'["initer"] = "exited"
      OBVIOUS
    <2> USE DEF flags, auth, queries, chat, chatid, inbound, world, data, Goto, Jump
    <2>1. CASE World
      BY <2>1 DEF World, UpColl, ShutdownColl, Authorize, LoseChat, ResetOpen,
       ResetChat, OpenTgfid, CloseTgfid, Relaunch
    <2>2. CASE Initer
      BY <2>2 DEF Initer, IniterAuth, IniterGiveUp, IniterSpawn, IniterWait,
         IniterStopSwitcher, IniterJoin, IniterSucc
    <2>3. CASE Producer
      BY <2>3, FetchEffect DEF Producer, ProducerWhile, ProducerExit, ProducerWait,
         ProducerOpen, ProducerStore, ProducerInsert, Workers
    <2>4. CASE Switcher
      BY <2>4 DEF Switcher, SwitcherWhile, SwitcherPaused, SwitcherTurn, SwitcherQueue,
         SwitcherStopProducer, SwitcherJoinProducer, SwitcherBreakConsumer,
         SwitcherStopConsumer, SwitcherExit, switcherRest
    <2>5. CASE ConsumerEmpty
      <3>1. pc["consumer"] = "c_empty" /\ dropped' = dropped \cup Unexamined
        BY <2>5 DEF ConsumerEmpty
      <3>2. it > Len(mq) => Unexamined = {}
        BY <3>1 DEF Unexamined, MqLocked, IInv, TypeOK, QueueType
      <3> QED
        BY <3>1, <3>2 DEF IInv, BatchInv
    <2>6. CASE Consumer /\ ~ConsumerEmpty
      BY <2>6 DEF Consumer, ConsumerWhile, ConsumerExit, ConsumerWait, ConsumerValid,
         ConsumerTried, ConsumerCreate, ConsumerLock, ConsumerEnds, ConsumerAccepts,
         ConsumerSkips, ConsumerCollect, ConsumerClear
    <2> QED
      BY <2>1, <2>2, <2>3, <2>4, <2>5, <2>6 DEF Next
  <1> QED
    BY Inductive, <1>1, PTL DEF Spec, DropOnlyAtShutdown

\* A pause that has taken effect lasts until it is lifted or the collector is
\* stopped: only the switcher gives the turn, and it looks at pause_do_csm_mq
\* between two turns.
THEOREM PauseLasts == Spec => PauseHolds
  <1>1. IInv /\ [Next]_vars =>
          [PauseInForce =>
             /\ fwd' = fwd
             /\ PauseInForce' \/ ~pause_do_csm_mq' \/ tryshut["switcher"]]_vars
    <2> SUFFICES ASSUME IInv, Next, PauseInForce
                 PROVE  /\ fwd' = fwd
                        /\ PauseInForce' \/ ~pause_do_csm_mq' \/ tryshut["switcher"]
      OBVIOUS
    <2> DEFINE S == {"s_while", "s_paused", "done", "exited"}
               C == {"c_while", "c_wait", "done", "exited"}
    <2>0. PcType /\ pc["switcher"] \in S /\ pc["consumer"] \in C
      BY DEF PauseInForce, IInv, TypeOK
    <2> USE DEF flags, auth, queries, chat, chatid, inbound, world, data, Goto, Jump
    <2>1. CASE World
      <3>1. /\ fwd' = fwd
            /\ pc'["switcher"] \in S /\ pc'["consumer"] \in C
            /\ do_csm_mq' = do_csm_mq \/ do_csm_mq' = FALSE
        BY <2>0, <2>1 DEF World, UpColl, ShutdownColl, Authorize, LoseChat, ResetOpen,
       ResetChat, OpenTgfid, CloseTgfid, Relaunch,
           PcType, Workers, NoThreads
      <3> QED
        BY <3>1 DEF PauseInForce
    <2>2. CASE Initer
      <3>1. /\ UNCHANGED <<fwd, do_csm_mq, pause_do_csm_mq>>
            /\ pc'["switcher"] \in S /\ pc'["consumer"] \in C
        BY <2>0, <2>2 DEF Initer, IniterAuth, IniterGiveUp, IniterSpawn, IniterWait,
           IniterStopSwitcher, IniterJoin, IniterSucc, PcType, Workers
      <3> QED
        BY <3>1 DEF PauseInForce
    <2>3. CASE Producer
      <3>1. /\ UNCHANGED <<fwd, do_csm_mq>>
            /\ pc'["switcher"] \in S /\ pc'["consumer"] \in C
        BY <2>0, <2>3, FetchEffect DEF Producer, ProducerWhile, ProducerExit,
           ProducerWait, ProducerInsert, ProducerOpen, ProducerStore, PcType, Workers
      <3> QED
        BY <3>1 DEF PauseInForce
    <2>4. CASE Switcher
      <3>1. CASE tryshut["switcher"]
        BY <2>0, <2>4, <3>1 DEF Switcher, SwitcherWhile, SwitcherPaused, SwitcherTurn,
           SwitcherQueue, SwitcherStopProducer, SwitcherJoinProducer,
           SwitcherBreakConsumer, SwitcherStopConsumer, SwitcherExit, switcherRest
      <3>2. CASE ~tryshut["switcher"]
        <4>1. SwitcherWhile \/ SwitcherPaused
          BY <2>0, <2>4 DEF Switcher, SwitcherWhile, SwitcherPaused, SwitcherTurn,
             SwitcherQueue, SwitcherStopProducer, SwitcherJoinProducer,
             SwitcherBreakConsumer, SwitcherStopConsumer, SwitcherExit
        <4>2. /\ UNCHANGED <<fwd, do_csm_mq, pause_do_csm_mq>>
              /\ pc'["switcher"] \in S /\ pc'["consumer"] \in C
          BY <2>0, <3>2, <4>1 DEF SwitcherWhile, SwitcherPaused, PauseInForce, PcType,
             Workers
        <4> QED
          BY <4>2 DEF PauseInForce
      <3> QED
        BY <3>1, <3>2
    <2>5. CASE Consumer
      <3>1. ConsumerWhile \/ ConsumerExit
        BY <2>0, <2>5 DEF Consumer, ConsumerWhile, ConsumerExit, ConsumerWait,
           ConsumerValid, ConsumerTried, ConsumerCreate, ConsumerLock, ConsumerEnds,
           ConsumerAccepts, ConsumerSkips, ConsumerCollect, ConsumerEmpty,
           ConsumerClear, PauseInForce
      <3>2. /\ UNCHANGED <<fwd, do_csm_mq, pause_do_csm_mq>>
            /\ pc'["switcher"] \in S /\ pc'["consumer"] \in C
        BY <2>0, <3>1 DEF ConsumerWhile, ConsumerExit, consumerRest, PcType, Workers
      <3> QED
        BY <3>2 DEF PauseInForce
    <2> QED
      BY <2>1, <2>2, <2>3, <2>4, <2>5 DEF Next
  <1> QED
    BY Inductive, <1>1, PTL DEF Spec, PauseHolds

----------------------------------------------------------------------------
(***************************************************************************)
(* CollPipeline implements Forwarding: for every set of messages and every *)
(* bound, each step of the four threads is a step of the abstract          *)
(* collector or leaves what became of every message as it was.             *)
(***************************************************************************)

\* The message that is about to be sent was accepted by the filters.
CollectInv == pc["consumer"] = "c_collect" => Collects(mq[it])

\* Nobody changes mq or the iterator between the filters and collect_msg.
LEMMA CollectInvStep == TypeOK /\ ThreadInv /\ CollectInv /\ [Next]_vars => CollectInv'
  <1> SUFFICES ASSUME TypeOK, ThreadInv, CollectInv, [Next]_vars
               PROVE  CollectInv'
    OBVIOUS
  <1> USE DEF TypeOK, PcType, Workers, flags, auth, queries, chat, chatid, inbound,
              world, data, Goto, Jump, CollectInv, MqLocked, Collects
  <1>1. CASE World
    BY StartValues, <1>1 DEF World, UpColl, ShutdownColl, Authorize, LoseChat, ResetOpen,
       ResetChat, Relaunch
  <1>2. CASE Initer
    BY <1>2 DEF Initer, IniterAuth, IniterGiveUp, IniterSpawn, IniterWait,
       IniterStopSwitcher, IniterJoin, IniterSucc
  <1>3. CASE Producer
    BY <1>3, FetchEffect DEF Producer, ProducerWhile, ProducerExit, ProducerWait,
       ProducerInsert, ProducerOpen, ProducerStore
  <1>4. CASE Switcher
    BY <1>4 DEF Switcher, SwitcherWhile, SwitcherPaused, SwitcherTurn, SwitcherQueue,
       SwitcherStopProducer, SwitcherJoinProducer, SwitcherBreakConsumer,
       SwitcherStopConsumer, SwitcherExit, RaiseTurn, switcherRest
  <1>5. CASE Consumer
    BY <1>5 DEF Consumer, ConsumerWhile, ConsumerExit, ConsumerWait, ConsumerValid,
       ConsumerTried, ConsumerCreate, ConsumerLock, ConsumerEnds, ConsumerAccepts,
       ConsumerSkips, ConsumerCollect, ConsumerEmpty, ConsumerClear, consumerRest
  <1>6. CASE UNCHANGED vars
    BY <1>6 DEF vars
  <1> QED
    BY <1>1, <1>2, <1>3, <1>4, <1>5, <1>6 DEF Next

\* What became of a message depends on four things.
LEMMA SameFates ==
  ASSUME UNCHANGED <<arrived, fwd, dropped>>,
         \A m \in Msgs : m \in Waiting' <=> m \in Waiting
  PROVE  Fates' = Fates
  BY DEF Fates, Fate

\* A message moves from one abstract state to another, the others stay.
LEMMA OneTurns ==
  ASSUME NEW m \in Msgs, NEW from, NEW to, Fate(m) = from, Fate(m)' = to,
         \A n \in Msgs \ {m} : Fate(n)' = Fate(n), Phase' = Phase
  PROVE  Promise!Turn(m, from, to)
  BY DEF Promise!Turn, Fates

\* A step that keeps the messages, the place of the producer's and the
\* iterator changes no fate.
LEMMA QuietStep ==
  ASSUME UNCHANGED <<arrived, fwd, dropped, mq, p_msg, it>>,
         pc["producer"] = "p_insert" <=> pc'["producer"] = "p_insert",
         pc["consumer"] = "exited" <=> pc'["consumer"] = "exited",
         MqLocked <=> MqLocked'
  PROVE  Fates' = Fates
  <1>1. Unexamined' = Unexamined
    BY DEF Unexamined
  <1> QED
    BY <1>1, SameFates DEF Waiting

\* The user's and other processes' steps: at most a restart.
LEMMA WorldStep ==
  ASSUME IInv, World
  PROVE  Promise!Next \/ UNCHANGED Promise!vars
  <1> USE DEF flags, auth, queries, chat, chatid, inbound, world, data, Goto, Jump
  <1>1. CASE Relaunch
    <2>1. pc["initer"] = "exited" /\ \A t \in Workers : pc[t] = "exited"
      BY <1>1 DEF Relaunch, IInv, ThreadInv, Workers
    <2>2. Waiting = {}
      BY <2>1 DEF Waiting, Workers
    <2>3. Waiting' = {}
      BY <1>1, StartValues DEF Waiting, Unexamined, Relaunch, Workers
    <2>4. Fates' = Fates
      BY <1>1, <2>2, <2>3, SameFates DEF Relaunch
    <2>5. Phase = "exited" /\ Phase' = "running"
      BY <1>1, StartValues DEF Phase, Relaunch, Workers
    <2> QED
      BY <2>4, <2>5 DEF Promise!Next, Promise!Restart
  <1>2. CASE UpColl
    <2>1. PcType /\ pc["initer"] = "down" /\ pc' = [pc EXCEPT !["initer"] = "i_auth"]
      BY <1>2 DEF UpColl, IInv, TypeOK
    <2>2. Fates' = Fates
      BY <1>2, <2>1, QuietStep DEF UpColl, PcType, Workers, MqLocked
    <2>3. Phase # "exited" /\ Phase' = "running"
      BY <1>2, <2>1, StartValues DEF Phase, UpColl, PcType, Workers
    <2>4. CASE Phase = "running"
      BY <2>2, <2>3, <2>4 DEF Promise!vars
    <2>5. CASE Phase # "running"
      BY <2>2, <2>3, <2>5 DEF Promise!Next, Promise!Restart
    <2> QED
      BY <2>4, <2>5
  <1>3. CASE ShutdownColl \/ Authorize \/ LoseChat \/ ResetOpen \/ ResetChat
    <2>1. /\ UNCHANGED <<pc, arrived, fwd, dropped, mq, p_msg, it>>
          /\ tryshut'["consumer"] = tryshut["consumer"]
      BY <1>3 DEF ShutdownColl, Authorize, LoseChat, ResetOpen, ResetChat, IInv,
         TypeOK, FlagType, Workers
    <2>2. Fates' = Fates
      BY <2>1, QuietStep DEF MqLocked
    <2> QED
      BY <2>1, <2>2 DEF Promise!vars, Phase
  <1> QED
    BY <1>1, <1>2, <1>3 DEF World

\* CollIniter changes no fate: mq outlives a session.
LEMMA IniterStep ==
  ASSUME IInv, Initer
  PROVE  UNCHANGED Promise!vars
  <1> USE DEF flags, auth, queries, chat, chatid, inbound, world, data, Goto, Jump
  <1>1. /\ UNCHANGED <<arrived, fwd, dropped, mq, p_msg, it>>
        /\ tryshut'["consumer"] = tryshut["consumer"]
    BY DEF Initer, IniterAuth, IniterGiveUp, IniterSpawn, IniterWait,
       IniterStopSwitcher, IniterJoin, IniterSucc, IInv, TypeOK, FlagType, Workers
  <1>2. /\ pc["producer"] = "p_insert" <=> pc'["producer"] = "p_insert"
        /\ pc["consumer"] = "exited" <=> pc'["consumer"] = "exited"
        /\ pc["initer"] # "exited" /\ pc'["initer"] # "exited"
        /\ MqLocked <=> MqLocked'
    BY DEF Initer, IniterAuth, IniterGiveUp, IniterSpawn, IniterWait,
       IniterStopSwitcher, IniterJoin, IniterSucc, IInv, ThreadInv, TypeOK, PcType,
       Workers, MqLocked
  <1> QED
    BY <1>1, <1>2, QuietStep DEF Promise!vars, Phase

\* The switcher tells the consumer to stop, nothing else.
LEMMA SwitcherStep ==
  ASSUME IInv, Switcher
  PROVE  Promise!Next \/ UNCHANGED Promise!vars
  <1> USE DEF flags, auth, queries, chat, chatid, inbound, world, data, Goto, Jump
  <1>1. /\ UNCHANGED <<arrived, fwd, dropped, mq, p_msg, it>>
        /\ tryshut'["consumer"] = tryshut["consumer"] \/ tryshut'["consumer"] = TRUE
    BY DEF Switcher, SwitcherWhile, SwitcherPaused, SwitcherTurn, SwitcherQueue,
       SwitcherStopProducer, SwitcherJoinProducer, SwitcherBreakConsumer,
       SwitcherStopConsumer, SwitcherExit, RaiseTurn, switcherRest, IInv, TypeOK,
       FlagType, Workers
  <1>2. /\ \A t \in Workers \ {"switcher"} : pc'[t] = pc[t]
        /\ pc["switcher"] # "exited"
    BY DEF Switcher, SwitcherWhile, SwitcherPaused, SwitcherTurn, SwitcherQueue,
       SwitcherStopProducer, SwitcherJoinProducer, SwitcherBreakConsumer,
       SwitcherStopConsumer, SwitcherExit, RaiseTurn, switcherRest, IInv, TypeOK,
       PcType, Workers
  <1>3. Fates' = Fates
    BY <1>1, <1>2, QuietStep DEF MqLocked, Workers
  <1>4. pc["initer"] # "exited" /\ pc'["initer"] = pc["initer"]
    BY <1>2 DEF IInv, ThreadInv, Workers
  <1>5. CASE tryshut'["consumer"] = tryshut["consumer"]
    BY <1>3, <1>4, <1>5 DEF Promise!vars, Phase
  <1>6. CASE tryshut'["consumer"] # tryshut["consumer"]
    <2>1. ~tryshut["consumer"] /\ tryshut'["consumer"]
      BY <1>1, <1>6 DEF IInv, TypeOK, FlagType, Workers
    <2>2. Phase = "running" /\ Phase' = "stopping"
      BY <1>4, <2>1 DEF Phase
    <2> QED
      BY <1>3, <2>2 DEF Promise!Next, Promise!Stop
  <1> QED
    BY <1>5, <1>6

\* While the producer runs, the abstract collector does.
LEMMA ProducerRunning ==
  ASSUME IInv, pc["producer"] \notin {"done", "exited"}
  PROVE  Phase = "running" /\ pc["initer"] # "exited" /\ pc["consumer"] # "exited"
  BY DEF IInv, ThreadInv, Phase, Workers

\* Where the messages of mq and the producer's are before they are dealt with.
LEMMA WaitingFate ==
  ASSUME IInv
  PROVE  /\ \A m \in Waiting : m \in Msgs /\ m \in arrived /\ Fresh(m)
         /\ \A m \in Msgs : Fate(m) = "queued" <=> m \in Waiting
  <1>1. \A m \in Waiting : m \in Msgs /\ m \in arrived /\ Fresh(m)
    BY DEF Waiting, Unexamined, IInv, OnceInv, TypeOK, QueueType
  <1> QED
    BY <1>1 DEF Fate, Fresh

\* A response of TDLib is a message that comes in, a command, an exit, or
\* changes no fate.
LEMMA FetchStep ==
  ASSUME IInv, Fetch
  PROVE  Promise!Next \/ UNCHANGED Promise!vars
  <1> USE DEF flags, auth, queries, chat, chatid, inbound, world, data, Goto, Jump
  <1>0. PcType /\ pc["producer"] = "p_fetch"
    BY FetchEffect DEF IInv, TypeOK
  <1>1. Phase = "running" /\ pc["initer"] # "exited" /\ pc["consumer"] # "exited"
    BY <1>0, ProducerRunning
  <1>2. Waiting = Unexamined
    BY <1>0, <1>1 DEF Waiting
  <1>3. CASE FetchNothing \/ FetchReady \/ FetchUnmatched \/ Answer
    <2>1. /\ UNCHANGED <<arrived, fwd, dropped, mq, p_msg, it, tryshut>>
          /\ \E l \in {"p_while", "p_open"} : pc' = [pc EXCEPT !["producer"] = l]
      BY <1>3 DEF FetchNothing, FetchReady, FetchUnmatched, Answer, FetchCreated,
         FetchCreateError, FetchSendDone, FetchChatGone, Fetched
    <2>2. Fates' = Fates
      BY <1>0, <2>1, QuietStep DEF PcType, Workers, MqLocked
    <2> QED
      BY <1>0, <2>1, <2>2 DEF Promise!vars, Phase, PcType, Workers
  <1>4. CASE FetchLoginLost
    <2>1. /\ UNCHANGED <<arrived, fwd>>
          /\ dropped' = dropped \cup Waiting
          /\ \A t \in Workers : pc'[t] = "exited"
      BY <1>2, <1>4 DEF FetchLoginLost, Fetched
    <2>2. Waiting' = {}
      BY <2>1 DEF Waiting, Workers
    <2>3. \A m \in Msgs : Fate(m)' = IF Fate(m) = "queued" THEN "lost" ELSE Fate(m)
      BY <2>1, <2>2, WaitingFate DEF Fate, Fresh, IInv, OnceInv, AtMostOnce
    <2>4. Phase' = "exited"
      BY <2>1 DEF Phase, Workers
    <2> QED
      BY <1>1, <2>3, <2>4 DEF Promise!Next, Promise!Exit, Promise!LoseQueued, Fates
  <1>5. ASSUME NEW m \in Msgs, FetchMessage(m)
        PROVE  Promise!Next
    <2>1. /\ m \notin arrived /\ arrived' = arrived \cup {m} /\ p_msg' = m
          /\ pc' = [pc EXCEPT !["producer"] = "p_insert"]
          /\ UNCHANGED <<fwd, dropped, mq, it, tryshut>>
      BY <1>5 DEF FetchMessage, Fetched, Arrive
    <2>2. MqLocked' <=> MqLocked
      BY <1>0, <2>1 DEF MqLocked, PcType, Workers
    <2>3. Unexamined' = Unexamined
      BY <2>1, <2>2 DEF Unexamined
    <2>4. Waiting' = Waiting \cup {m}
      BY <1>0, <1>1, <1>2, <2>1, <2>3 DEF Waiting, PcType, Workers
    <2>5. Fresh(m)
      BY <2>1 DEF IInv, OnceInv
    <2>6. Fate(m) = "unseen" /\ Fate(m)' = "queued"
      BY <2>1, <2>4, <2>5 DEF Fate, Fresh
    <2>7. \A n \in Msgs \ {m} : Fate(n)' = Fate(n)
      BY <2>1, <2>4 DEF Fate
    <2>8. Phase' = Phase
      BY <1>0, <2>1 DEF Phase, PcType, Workers
    <2>9. Promise!Turn(m, "unseen", "queued")
      BY <2>6, <2>7, <2>8, OneTurns
    <2> QED
      BY <1>1, <2>9 DEF Promise!Next, Promise!Receive
  <1>6. ASSUME NEW m \in Msgs, NEW cmd \in {"pause", "resume", "other"},
               FetchCommand(m, cmd)
        PROVE  Promise!Next
    <2>1. /\ m \in TgfMsgs
          /\ m \notin arrived /\ arrived' = arrived \cup {m}
          /\ pc' = [pc EXCEPT !["producer"] = "p_while"]
          /\ UNCHANGED <<fwd, dropped, mq, it, tryshut>>
      BY <1>6 DEF FetchCommand, Fetched, Arrive
    <2>2. MqLocked' <=> MqLocked
      BY <1>0, <2>1 DEF MqLocked, PcType, Workers
    <2>3. Unexamined' = Unexamined
      BY <2>1, <2>2 DEF Unexamined
    <2>4. Waiting' = Waiting
      BY <1>0, <1>1, <1>2, <2>1, <2>3 DEF Waiting, PcType, Workers
    <2>5. Fresh(m) /\ m \notin Waiting
      BY <2>1, WaitingFate DEF IInv, OnceInv
    <2>6. Fate(m) = "unseen" /\ Fate(m)' = "done"
      BY <2>1, <2>4, <2>5 DEF Fate, Fresh
    <2>7. \A n \in Msgs \ {m} : Fate(n)' = Fate(n)
      BY <2>1, <2>4 DEF Fate
    <2>8. Phase' = Phase
      BY <1>0, <2>1 DEF Phase, PcType, Workers
    <2>9. Promise!Turn(m, "unseen", "done")
      BY <2>6, <2>7, <2>8, OneTurns
    <2> QED
      BY <1>1, <2>1, <2>9 DEF Promise!Next, Promise!Handle
  <1> QED
    BY <1>3, <1>4, <1>5, <1>6 DEF Fetch

\* The rest of the producer's loop: the message in its hand goes to mq.
LEMMA ProducerStep ==
  ASSUME IInv, Producer
  PROVE  Promise!Next \/ UNCHANGED Promise!vars
  <1> USE DEF flags, auth, queries, chat, chatid, inbound, world, data, Goto, Jump
  <1>1. CASE Fetch
    BY <1>1, FetchStep
  <1>2. CASE \/ ProducerWhile \/ ProducerExit \/ ProducerWait
             \/ ProducerOpen \/ ProducerStore
    <2>1. /\ UNCHANGED <<arrived, fwd, dropped, mq, p_msg, it, tryshut>>
          /\ pc["producer"] # "p_insert"
          /\ \E l \in ProducerPC \ {"p_insert"} : pc' = [pc EXCEPT !["producer"] = l]
      BY <1>2 DEF ProducerWhile, ProducerExit, ProducerWait, ProducerOpen,
         ProducerStore, ProducerPC
    <2>2. Fates' = Fates
      BY <2>1, QuietStep DEF PcType, Workers, MqLocked, IInv, TypeOK
    <2> QED
      BY <2>1, <2>2 DEF Promise!vars, Phase, PcType, Workers, IInv, TypeOK
  <1>3. CASE ProducerInsert
    <2>1. /\ UNCHANGED <<arrived, fwd, dropped, tryshut>>
          /\ PcType /\ p_msg \in Msgs /\ mq \in Seq(Msgs)
          /\ ~MqLocked /\ mq' = <<p_msg>> \o mq
          /\ pc["producer"] = "p_insert"
          /\ pc' = [pc EXCEPT !["producer"] = "p_while"]
      BY <1>3 DEF ProducerInsert, IInv, TypeOK, QueueType
    <2>2. ~MqLocked' /\ pc["consumer"] # "exited" /\ pc'["consumer"] # "exited"
      BY <2>1, ProducerRunning DEF MqLocked, PcType, Workers
    <2>3. /\ DOMAIN mq = 1..Len(mq) /\ Len(mq) \in Nat
          /\ DOMAIN mq' = 1..(Len(mq) + 1)
          /\ mq'[1] = p_msg
          /\ \A i \in 2..(Len(mq) + 1) : mq'[i] = mq[i - 1]
      BY <2>1, PrependFacts
    <2>4. Unexamined = {mq[i] : i \in DOMAIN mq} /\ Unexamined' = {mq'[i] : i \in DOMAIN mq'}
      BY <2>1, <2>2 DEF Unexamined
    <2>5. ASSUME NEW i \in DOMAIN mq
          PROVE  \E j \in DOMAIN mq' : mq'[j] = mq[i]
      <3>1. i + 1 \in 2..(Len(mq) + 1) /\ (i + 1) - 1 = i
        BY <2>3
      <3>2. i + 1 \in DOMAIN mq' /\ mq'[i + 1] = mq[i]
        BY <2>3, <3>1
      <3> QED
        BY <3>2
    <2>6. ASSUME NEW i \in DOMAIN mq', i # 1
          PROVE  \E j \in DOMAIN mq : mq[j] = mq'[i]
      <3>1. i \in 2..(Len(mq) + 1) /\ i - 1 \in DOMAIN mq
        BY <2>3, <2>6
      <3> QED
        BY <2>3, <3>1
    <2>7. 1 \in DOMAIN mq'
      BY <2>3
    <2>8. Unexamined' = Unexamined \cup {p_msg}
      <3>1. Unexamined' \subseteq Unexamined \cup {p_msg}
        BY <2>3, <2>4, <2>6
      <3>2. Unexamined \cup {p_msg} \subseteq Unexamined'
        BY <2>3, <2>4, <2>5, <2>7
      <3> QED
        BY <3>1, <3>2
    <2>9. Waiting' = Waiting
      BY <2>1, <2>2, <2>8 DEF Waiting, PcType, Workers
    <2> QED
      BY <2>1, <2>9, SameFates DEF Promise!vars, Phase, PcType, Workers
  <1> QED
    BY <1>1, <1>2, <1>3 DEF Producer

\* What is left behind the iterator.
LEMMA Advance ==
  ASSUME IInv, pc["consumer"] \in {"c_next", "c_collect"}, it \in DOMAIN mq,
         pc' = [pc EXCEPT !["consumer"] = "c_next"], it' = it + 1,
         UNCHANGED <<mq, p_msg>>
  PROVE  /\ mq[it] \in Waiting
         /\ Waiting' = Waiting \ {mq[it]}
  <1>1. /\ PcType /\ it \in Nat \ {0} /\ mq \in Seq(Msgs) /\ DOMAIN mq \subseteq Nat
        /\ \A i, j \in DOMAIN mq : mq[i] = mq[j] => i = j
    BY DEF IInv, TypeOK, QueueType, OnceInv
  <1>2. MqLocked /\ MqLocked' /\ pc["consumer"] # "exited" /\ pc'["consumer"] # "exited"
    BY <1>1 DEF MqLocked, PcType, Workers
  <1>3. /\ Unexamined = {mq[i] : i \in {j \in DOMAIN mq : j >= it}}
        /\ Unexamined' = {mq[i] : i \in {j \in DOMAIN mq : j >= it + 1}}
    BY <1>2 DEF Unexamined
  <1>4. mq[it] \in Unexamined /\ mq[it] \notin Unexamined'
    BY <1>1, <1>3
  <1>5. ASSUME NEW m
        PROVE  m \in Unexamined' <=> m \in Unexamined /\ m # mq[it]
    BY <1>1, <1>3, <1>4
  <1>6. pc["producer"] = "p_insert" => p_msg # mq[it]
    BY DEF IInv, OnceInv
  <1> QED
    BY <1>1, <1>2, <1>4, <1>5, <1>6 DEF Waiting, PcType, Workers

\* The consumer forwards or skips the message at its iterator, or gives all
\* the rest up.
LEMMA ConsumerStep ==
  ASSUME IInv, CollectInv, Consumer
  PROVE  Promise!Next \/ UNCHANGED Promise!vars
  <1> USE DEF flags, auth, queries, chat, chatid, inbound, world, data, Goto, Jump
  <1>0. PcType /\ tryshut' = tryshut /\ UNCHANGED <<arrived, p_msg>>
    BY DEF Consumer, ConsumerWhile, ConsumerExit, ConsumerWait, ConsumerValid,
       ConsumerTried, ConsumerCreate, ConsumerLock, ConsumerEnds, ConsumerAccepts,
       ConsumerSkips, ConsumerCollect, ConsumerEmpty, ConsumerClear, consumerRest,
       IInv, TypeOK
  <1>1. /\ pc["consumer"] # "exited" /\ pc'["consumer"] # "exited"
        /\ pc'["producer"] = pc["producer"] /\ pc'["initer"] = pc["initer"]
    BY <1>0 DEF Consumer, ConsumerWhile, ConsumerExit, ConsumerWait, ConsumerValid,
       ConsumerTried, ConsumerCreate, ConsumerLock, ConsumerEnds, ConsumerAccepts,
       ConsumerSkips, ConsumerCollect, ConsumerEmpty, ConsumerClear, PcType, Workers
  <1>2. Phase' = Phase /\ Phase # "exited"
    BY <1>0, <1>1 DEF Phase, IInv, ThreadInv, Workers
  <1>3. CASE \/ ConsumerWhile \/ ConsumerExit \/ ConsumerWait \/ ConsumerValid
             \/ ConsumerTried \/ ConsumerCreate \/ ConsumerClear \/ ConsumerEnds
             \/ ConsumerAccepts
    <2>1. /\ UNCHANGED <<fwd, dropped, mq, it>>
          /\ MqLocked <=> MqLocked'
      BY <1>0, <1>3 DEF ConsumerWhile, ConsumerExit, ConsumerWait, ConsumerValid,
         ConsumerTried, ConsumerCreate, ConsumerEnds, ConsumerAccepts, ConsumerClear,
         consumerRest, PcType, Workers, MqLocked
    <2> QED
      BY <1>0, <1>1, <1>2, <2>1, QuietStep DEF Promise!vars
  <1>4. CASE ConsumerLock
    <2>1. UNCHANGED <<fwd, dropped, mq>> /\ it' = 1 /\ ~MqLocked
      BY <1>4 DEF ConsumerLock, consumerRest, MqLocked
    <2>2. DOMAIN mq \subseteq Nat \ {0}
      BY DEF IInv, TypeOK, QueueType
    <2>3. Unexamined' = Unexamined
      BY <2>1, <2>2 DEF Unexamined
    <2> QED
      BY <1>0, <1>1, <1>2, <2>1, <2>3, SameFates DEF Promise!vars, Waiting
  <1>5. CASE ConsumerSkips
    <2>1. /\ pc["consumer"] = "c_next" /\ pc' = [pc EXCEPT !["consumer"] = "c_next"]
          /\ it' = it + 1 /\ UNCHANGED <<mq, fwd, dropped>>
          /\ ~tryshut["consumer"] /\ ~(it > Len(mq)) /\ ~Collects(mq[it])
      BY <1>5 DEF ConsumerSkips, consumerRest, BatchOver
    <2>2. it \in DOMAIN mq
      BY <2>1 DEF IInv, TypeOK, QueueType
    <2>3. mq[it] \in Waiting /\ Waiting' = Waiting \ {mq[it]}
      BY <1>0, <2>1, <2>2, Advance
    <2>4. PICK m \in Msgs : m = mq[it]
      BY <2>3, WaitingFate
    <2>5. m \in arrived /\ Fresh(m) /\ Fate(m) = "queued"
      BY <2>3, <2>4, WaitingFate
    <2>6. Fate(m)' = "done"
      BY <1>0, <2>1, <2>3, <2>4, <2>5 DEF Fate, Fresh
    <2>7. \A n \in Msgs \ {m} : Fate(n)' = Fate(n)
      BY <1>0, <2>1, <2>3, <2>4 DEF Fate
    <2>8. Promise!Turn(m, "queued", "done")
      BY <1>2, <2>5, <2>6, <2>7, OneTurns
    <2>9. Phase = "running" /\ ~Promise!ToForward(m)
      BY <1>2, <2>1, <2>4 DEF Phase, Collects, Promise!ToForward
    <2> QED
      BY <2>8, <2>9 DEF Promise!Next, Promise!Skip
  <1>6. CASE ConsumerCollect
    <2>1. /\ pc["consumer"] = "c_collect" /\ pc' = [pc EXCEPT !["consumer"] = "c_next"]
          /\ it' = it + 1 /\ UNCHANGED <<mq, dropped>>
          /\ fwd' = [fwd EXCEPT ![mq[it]] = @ + 1]
      BY <1>6 DEF ConsumerCollect, consumerRest
    <2>2. it \in DOMAIN mq /\ fwd \in [Msgs -> Nat]
      BY <2>1 DEF IInv, TypeOK, QueueType, CountType
    <2>3. mq[it] \in Waiting /\ Waiting' = Waiting \ {mq[it]}
      BY <1>0, <2>1, <2>2, Advance
    <2>4. PICK m \in Msgs : m = mq[it]
      BY <2>3, WaitingFate
    <2>5. m \in arrived /\ Fresh(m) /\ Fate(m) = "queued"
      BY <2>3, <2>4, WaitingFate
    <2>6. fwd'[m] = 1 /\ \A n \in Msgs \ {m} : fwd'[n] = fwd[n]
      BY <2>1, <2>2, <2>4, <2>5 DEF Fresh
    <2>7. Fate(m)' = "forwarded"
      BY <1>0, <2>5, <2>6 DEF Fate
    <2>8. \A n \in Msgs \ {m} : Fate(n)' = Fate(n)
      BY <1>0, <2>1, <2>3, <2>4, <2>6 DEF Fate
    <2>9. Promise!Turn(m, "queued", "forwarded")
      BY <1>2, <2>5, <2>7, <2>8, OneTurns
    <2>10. Promise!ToForward(m)
      BY <2>1, <2>4 DEF CollectInv, Collects, Promise!ToForward
    <2> QED
      BY <1>2, <2>9, <2>10 DEF Promise!Next, Promise!Forward
  <1>7. CASE ConsumerEmpty
    <2>1. /\ pc["consumer"] = "c_empty" /\ pc' = [pc EXCEPT !["consumer"] = "c_clear"]
          /\ mq' = << >> /\ dropped' = dropped \cup Unexamined /\ UNCHANGED fwd
      BY <1>7 DEF ConsumerEmpty, consumerRest
    <2>2. Unexamined' = {}
      BY <2>1 DEF Unexamined
    <2>3. CASE tryshut["consumer"]
      <3>1. pc["producer"] \in {"done", "exited"}
        BY <2>3 DEF IInv, ThreadInv
      <3>2. Waiting = Unexamined /\ Waiting' = {}
        BY <1>1, <2>2, <3>1 DEF Waiting
      <3>3. \A m \in Msgs : Fate(m)' = IF Fate(m) = "queued" THEN "lost" ELSE Fate(m)
        BY <1>0, <2>1, <3>2, WaitingFate DEF Fate, Fresh, IInv, OnceInv, AtMostOnce
      <3>4. Phase = "stopping"
        BY <1>2, <2>3 DEF Phase
      <3> QED
        BY <1>2, <3>3, <3>4 DEF Promise!Next, Promise!GiveUp, Promise!LoseQueued, Fates
    <2>4. CASE ~tryshut["consumer"]
      <3>1. it > Len(mq)
        BY <2>1, <2>4 DEF IInv, BatchInv
      <3>2. Unexamined = {}
        BY <2>1, <3>1 DEF Unexamined, MqLocked, IInv, TypeOK, QueueType
      <3>3. Waiting' = Waiting /\ dropped' = dropped
        BY <1>0, <1>1, <2>1, <2>2, <3>2 DEF Waiting
      <3> QED
        BY <1>0, <1>2, <2>1, <3>3, SameFates DEF Promise!vars
    <2> QED
      BY <2>3, <2>4
  <1> QED
    BY <1>3, <1>4, <1>5, <1>6, <1>7 DEF Consumer

----------------------------------------------------------------------------
\* CollPipeline implements Forwarding: no interleaving of the four threads,
\* the user, Telegram and other processes does to a message what the abstract
\* collector does not allow.
THEOREM PromiseKept == Spec => KeepsPromise
  <1>1. Init => Promise!Init
    <2> SUFFICES ASSUME Init PROVE Promise!Init
      OBVIOUS
    <2>1. \A m \in Msgs : Fate(m) = "unseen"
      BY DEF Init, Fate
    <2>2. Phase = "running"
      BY StartValues DEF Init, Phase, Workers
    <2> QED
      BY <2>1, <2>2 DEF Promise!Init, Fates
  <1>2. Init => CollectInv
    BY StartValues DEF Init, CollectInv, Workers
  <1>3. IInv /\ CollectInv /\ [Next]_vars => CollectInv'
    BY CollectInvStep DEF IInv
  <1>4. IInv /\ CollectInv /\ [Next]_vars => [Promise!Next]_(Promise!vars)
    <2> SUFFICES ASSUME IInv, CollectInv, [Next]_vars
                 PROVE  Promise!Next \/ UNCHANGED Promise!vars
      OBVIOUS
    <2>1. CASE UNCHANGED vars
      <3>1. UNCHANGED <<pc, tryshut, arrived, fwd, dropped, mq, p_msg, it>>
        BY <2>1 DEF vars, data, flags, inbound
      <3> QED
        BY <3>1, QuietStep DEF Promise!vars, Phase, MqLocked
    <2> QED
      BY <2>1, WorldStep, IniterStep, ProducerStep, SwitcherStep, ConsumerStep DEF Next
  <1> QED
    BY Inductive, <1>1, <1>2, <1>3, <1>4, PTL DEF Spec, KeepsPromise, Promise!Spec

=============================================================================
