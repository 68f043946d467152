---------------------------- MODULE DaemonProofs ----------------------------
(***************************************************************************)
(* The safety properties of Daemon, for every set of clients, requests and *)
(* collectors.  The inductive invariant IInv is the type invariant and,    *)
(* unless a request was handled before the first store of a CollIniter     *)
(* (rushed), four parts: what coll_initer_up says of the collectors        *)
(* (UpInv), that there is one at a time (OneBusy), what the flags of the   *)
(* collector mean (FlagInv), and what the handler knows at each point      *)
(* (HandlerInv).                                                           *)
(***************************************************************************)
EXTENDS Daemon, FiniteSetTheorems, TLAPS

USE DaemonAssumption

\* A CollIniter thread that was started and has not stored FALSE in
\* coll_initer_up yet.
Busy(i) == initer[i] \in {"start", "run", "closing", "gap"}
Runs(i) == initer[i] \in {"start", "run", "closing"}

\* coll_initer_up is TRUE from the first store of a CollIniter to its last.
UpInv == coll_initer_up <=> \E i \in Initers : initer[i] \in {"run", "closing", "gap"}

OneBusy == \A i, j \in Initers : Busy(i) /\ Busy(j) => i = j

\* coll_initer_succ says that no collector runs; a collector closes when it
\* was told to, and one that was told to is waited for.
FlagInv ==
  /\ succ["coll_initer"] => \A i \in Initers : ~ Runs(i)
  /\ \A i \in Initers : initer[i] = "closing" => tryshut["coll_initer"]
  /\ tryshut["coll_initer"] => listener = "wait" \/ \A i \in Initers : ~ Runs(i)

\* What the handler has found out about the collectors.
HandlerInv ==
  /\ listener \in {"spawn", "pretend"} => \A i \in Initers : ~ Busy(i)
  /\ listener = "spawn" => req[cur] = "UpColl"
  /\ listener = "pretend" => req[cur] = "ShutdownIpcSrv"
  /\ listener \in {"stop", "wait"} => req[cur] \in {"ShutdownColl", "ShutdownIpcSrv"}
  /\ listener = "reply" =>
       /\ req[cur] # None
       /\ req[cur] = "ShutdownColl" => (\A i \in Initers : ~ Runs(i)) \/ "start" \in window
       /\ req[cur] = "ShutdownIpcSrv" => \A i \in Initers : ~ Runs(i)
       /\ req[cur] = "UpColl" => (\E i \in Initers : Runs(i)) \/ "gap" \in window
  /\ listener = "finish" => \A i \in Initers : ~ Runs(i)

CollInv == UpInv /\ OneBusy /\ FlagInv /\ HandlerInv
IInv == TypeOK /\ (rushed \/ CollInv)

----------------------------------------------------------------------------
(***************************************************************************)
(* Types.                                                                  *)
(***************************************************************************)

LEMMA TypeInit == Init => TypeOK
  <1> SUFFICES ASSUME Init PROVE TypeOK
    OBVIOUS
  <1>1. initer \in [Initers -> {"none", "start", "run", "closing", "gap"}]
    BY DEF Init
  <1>2. tryshut \in [Flags -> BOOLEAN] /\ succ \in [Flags -> BOOLEAN]
    BY DEF Init
  <1>3. q_ipcmsg \in Seq(LazyMsgs)
    BY DEF Init
  <1>6. has_upd \in BOOLEAN
    BY DEF Init
  <1>4. req \in [Clients -> Requests \cup {None}] /\ cur = None
    BY DEF Init
  <1>5. main \in 1 .. Len(WaitOrder) + 1
    BY DEF Init, WaitOrder
  <1>7. window \subseteq {"start", "gap"} /\ rushed \in BOOLEAN
    BY DEF Init
  <1> QED
    BY <1>1, <1>2, <1>3, <1>4, <1>5, <1>6, <1>7 DEF Init, TypeOK

\* One element taken off the end of a sequence.
LEMMA FrontType ==
  ASSUME NEW S, NEW s \in Seq(S), s # << >>
  PROVE  SubSeq(s, 1, Len(s) - 1) \in Seq(S)
  OBVIOUS

LEMMA TypeStep == TypeOK /\ [Next]_vars => TypeOK'
  <1> SUFFICES ASSUME TypeOK, [Next]_vars PROVE TypeOK'
    OBVIOUS
  <1> USE DEF TypeOK, queue, clients, coll, history, Flags, Raise
  <1>1. ASSUME NEW c \in Clients, Reset(c) PROVE TypeOK'
    BY <1>1 DEF Reset, None
  <1>2. ASSUME NEW c \in Clients, NEW r \in Requests, Send(c, r) PROVE TypeOK'
    BY <1>2 DEF Send
  <1>3. ASSUME NEW m \in LazyMsgs, Enqueue(m) PROVE TypeOK'
    BY <1>3 DEF Enqueue
  <1>4. CASE Listener
    <2>1. ASSUME NEW c \in Clients, Accept(c) PROVE TypeOK'
      <3>1. listener' \in {"spawn", "stop", "pretend", "reply"} /\ cur' # None
        BY <2>1 DEF Accept, None
      <3>2. window' \subseteq {"start", "gap"} /\ rushed' \in BOOLEAN
        BY <2>1 DEF Accept, Window
      <3> QED BY <2>1, <3>1, <3>2 DEF Accept
    <2>2. CASE Spawn
      <3>1. initer' \in [Initers -> {"none", "start", "run", "closing", "gap"}]
        BY <2>2 DEF Spawn, Detach
      <3> QED BY <2>2, <3>1 DEF Spawn
    <2>3. CASE Stop BY <2>3 DEF Stop
    <2>4. CASE Pretend BY <2>4 DEF Pretend
    <2>5. CASE WaitStopped BY <2>5 DEF WaitStopped
    <2>6. CASE Reply
      <3>1. req' \in [Clients -> Requests \cup {None}] BY <2>6 DEF Reply
      <3>2. succ' \in [Flags -> BOOLEAN]
        <4>1. succ' = succ \/ succ' = [succ EXCEPT !["ipcconn_handler"] = TRUE]
          BY <2>6 DEF Reply
        <4>2. succ \in [Flags -> BOOLEAN] OBVIOUS
        <4> HIDE DEF TypeOK
        <4> QED BY <4>1, <4>2
      <3>3. /\ listener' \in {"finish", "while"}
            /\ cur' \in Clients \cup {None}
            /\ cur' # None <=> listener' \notin {"while", "done"}
        BY <2>6 DEF Reply
      <3>4. window' \subseteq {"start", "gap"} BY <2>6 DEF Reply
      <3> QED BY <2>6, <3>1, <3>2, <3>3, <3>4 DEF Reply
    <2>7. CASE Finish BY <2>7 DEF Finish
    <2>8. CASE HandlerEnd BY <2>8 DEF HandlerEnd
    <2>9. CASE ListenerEnd BY <2>9 DEF ListenerEnd
    <2> QED
      BY <1>4, <2>1, <2>2, <2>3, <2>4, <2>5, <2>6, <2>7, <2>8, <2>9 DEF Listener
  <1>5. ASSUME NEW i \in Initers, Initer(i) PROVE TypeOK'
    <2> USE DEF IniterGoto, IniterRest
    <2>1. CASE IniterUp(i) BY <2>1 DEF IniterUp
    <2>2. CASE IniterClose(i) BY <2>2 DEF IniterClose
    <2>3. CASE IniterSucc(i) BY <2>3 DEF IniterSucc
    <2>4. CASE IniterDown(i) BY <2>4 DEF IniterDown
    <2> QED BY <1>5, <2>1, <2>2, <2>3, <2>4 DEF Initer
  <1>6. CASE Dequer
    <2>1. CASE DequerWhile BY <2>1 DEF DequerWhile, DequerRest
    <2>2. CASE DequerWake BY <2>2 DEF DequerWake, DequerRest
    <2>3. CASE DequerClear BY <2>3 DEF DequerClear, DequerRest
    <2>4. CASE DequerPop
      <3>1. q_ipcmsg' \in Seq(LazyMsgs)
        <4>1. CASE q_ipcmsg = << >> BY <2>4, <4>1 DEF DequerPop
        <4>2. CASE q_ipcmsg # << >>
          <5>1. q_ipcmsg' = SubSeq(q_ipcmsg, 1, Len(q_ipcmsg) - 1)
            BY <2>4, <4>2 DEF DequerPop
          <5> QED BY <4>2, <5>1, FrontType
        <4> QED BY <4>1, <4>2
      <3>2. tryshut' \in [Flags -> BOOLEAN]
        <4>1. tryshut' = tryshut \/ tryshut' = [tryshut EXCEPT !["ipcsrv_initer"] = TRUE]
          BY <2>4 DEF DequerPop
        <4> QED BY <4>1
      <3> QED BY <2>4, <3>1, <3>2 DEF DequerPop, DequerRest
    <2>5. CASE DequerEnd BY <2>5 DEF DequerEnd, DequerRest
    <2> QED BY <1>6, <2>1, <2>2, <2>3, <2>4, <2>5 DEF Dequer
  <1>7. CASE Srv
    <2> USE DEF SrvGoto, SrvRest
    <2>1. CASE SrvWait BY <2>1 DEF SrvWait
    <2>2. CASE SrvStopDequer BY <2>2 DEF SrvStopDequer
    <2>3. CASE SrvWakeDequer BY <2>3 DEF SrvWakeDequer
    <2>4. CASE SrvStopListener BY <2>4 DEF SrvStopListener
    <2>5. CASE SrvSucc BY <2>5 DEF SrvSucc
    <2> QED BY <1>7, <2>1, <2>2, <2>3, <2>4, <2>5 DEF Srv
  <1>8. CASE Main
    BY <1>8 DEF Main, WaitOrder
  <1>9. CASE UNCHANGED vars
    BY <1>9 DEF vars
  <1> QED
    BY <1>1, <1>2, <1>3, <1>4, <1>5, <1>6, <1>7, <1>8, <1>9 DEF Next

\* The flags and the places of the daemon's threads stay in their ranges, and
\* a connection is the handler's exactly while the handler runs.
THEOREM TypeCorrect == Spec => []TypeOK
  <1>1. Init => TypeOK
    BY TypeInit
  <1>2. TypeOK /\ [Next]_vars => TypeOK'
    BY TypeStep
  <1> QED
    BY <1>1, <1>2, PTL DEF Spec

----------------------------------------------------------------------------
(***************************************************************************)
(* One collector at a time.                                                *)
(***************************************************************************)

LEMMA CollInit == Init => CollInv
  <1> SUFFICES ASSUME Init PROVE CollInv
    OBVIOUS
  <1>1. PICK first \in Initers \cup {None} :
          /\ (first # None) = Started
          /\ initer = [i \in Initers |-> IF i = first THEN "run" ELSE "none"]
    BY DEF Init
  <1>2. \A i \in Initers : initer[i] = "run" <=> i = first
    BY <1>1
  <1>3. \A i \in Initers : initer[i] \in {"run", "none"}
    BY <1>1
  <1>4. coll_initer_up <=> first \in Initers
    BY <1>1 DEF Init, None
  <1>5. UpInv
    BY <1>2, <1>3, <1>4 DEF UpInv
  <1>6. OneBusy
    BY <1>2, <1>3 DEF OneBusy, Busy
  <1>7. FlagInv
    BY <1>3 DEF FlagInv, Init, Flags
  <1>8. HandlerInv
    BY DEF HandlerInv, Init
  <1> QED BY <1>5, <1>6, <1>7, <1>8 DEF CollInv

\* A step that touches neither the collectors, their flags nor the handler.
LEMMA QuietStep ==
  ASSUME CollInv,
         UNCHANGED <<initer, coll_initer_up, listener, cur, window>>,
         tryshut'["coll_initer"] = tryshut["coll_initer"],
         succ'["coll_initer"] = succ["coll_initer"],
         cur # None => req'[cur] = req[cur],
         cur = None => listener \in {"while", "done"}
  PROVE  CollInv'
  <1>1. UpInv'
    BY DEF CollInv, UpInv
  <1>2. OneBusy'
    BY DEF CollInv, OneBusy, Busy
  <1>3. FlagInv'
    BY DEF CollInv, FlagInv, Runs
  <1>4. HandlerInv'
    BY DEF CollInv, HandlerInv, Busy, Runs
  <1> QED BY <1>1, <1>2, <1>3, <1>4 DEF CollInv

\* The listener and its handler.
LEMMA ListenerKeeps ==
  ASSUME TypeOK, CollInv, Listener
  PROVE  rushed' \/ CollInv'
  <1> SUFFICES ASSUME ~ rushed' PROVE CollInv'
    OBVIOUS
  <1> USE DEF TypeOK, CollInv, queue, clients, coll, history, Flags, Raise
  <1>1. ASSUME NEW c \in Clients, Accept(c) PROVE CollInv'
    <2>1. /\ UNCHANGED <<initer, coll_initer_up, tryshut, succ, req>>
          /\ listener = "while" /\ cur' = c /\ req[c] # None
      BY <1>1 DEF Accept
    <2>2. UpInv' /\ OneBusy'
      BY <2>1 DEF UpInv, OneBusy, Busy
    <2>3. FlagInv'
      BY <2>1 DEF FlagInv, Runs
    <2>4. \A i \in Initers : initer[i] \in {"start", "gap"} => initer[i] \in window'
      BY <1>1 DEF Accept, Window
    <2>5. req[c] \in {"UpColl", "ShutdownIpcSrv"} => "start" \notin window'
      BY <1>1 DEF Accept, Window
    <2>6. CASE coll_initer_up
      <3>1. (\E i \in Initers : Runs(i)) \/ "gap" \in window'
        BY <2>6, <2>4 DEF UpInv, Runs
      <3>2. \/ listener' = "stop" /\ req[c] \in {"ShutdownColl", "ShutdownIpcSrv"}
            \/ listener' = "reply" /\ req[c] \notin {"ShutdownColl", "ShutdownIpcSrv"}
        BY <1>1, <2>6 DEF Accept
      <3>3. HandlerInv'
        BY <2>1, <3>1, <3>2 DEF HandlerInv, Runs
      <3> QED BY <2>2, <2>3, <3>3
    <2>7. CASE ~ coll_initer_up
      <3>1. \A i \in Initers : Busy(i) => initer[i] = "start" /\ "start" \in window'
        BY <2>7, <2>4 DEF UpInv, Busy
      <3>2. \/ listener' = "spawn" /\ req[c] = "UpColl"
            \/ listener' = "pretend" /\ req[c] = "ShutdownIpcSrv"
            \/ listener' = "reply" /\ req[c] \notin {"UpColl", "ShutdownIpcSrv"}
        BY <1>1, <2>7 DEF Accept
      <3>3. listener' \in {"spawn", "pretend"} => \A i \in Initers : ~ Busy(i)
        BY <2>5, <3>1, <3>2
      <3>4. (\A i \in Initers : ~ Runs(i)) \/ "start" \in window'
        BY <3>1 DEF Busy, Runs
      <3>5. HandlerInv'
        BY <2>1, <3>2, <3>3, <3>4 DEF HandlerInv, Busy, Runs
      <3> QED BY <2>2, <2>3, <3>5
    <2> QED BY <2>6, <2>7
  <1>2. CASE Spawn
    <2>1. PICK i \in Initers : /\ initer[i] = "none"
                               /\ initer' = [initer EXCEPT ![i] = "start"]
      BY <1>2 DEF Spawn, Detach
    <2>2. /\ UNCHANGED <<coll_initer_up, req, cur>>
          /\ listener = "spawn" /\ listener' = "reply"
          /\ ~ tryshut'["coll_initer"] /\ ~ succ'["coll_initer"]
      BY <1>2 DEF Spawn
    <2>3. \A j \in Initers : ~ Busy(j)
      BY <2>2 DEF HandlerInv
    <2>4. \A j \in Initers : initer'[j] = IF j = i THEN "start" ELSE initer[j]
      BY <2>1
    <2>5. UpInv'
      BY <2>1, <2>2, <2>4 DEF UpInv
    <2>6. OneBusy'
      BY <2>3, <2>4 DEF OneBusy, Busy
    <2>7. FlagInv'
      BY <2>2, <2>3, <2>4 DEF FlagInv, Busy
    <2>8. HandlerInv'
      BY <2>2, <2>4 DEF HandlerInv, Runs, None
    <2> QED BY <2>5, <2>6, <2>7, <2>8
  <1>3. CASE Stop
    <2>1. UNCHANGED <<initer, coll_initer_up, succ, req, cur>> /\ listener = "stop"
            /\ listener' = "wait"
      BY <1>3 DEF Stop
    <2>2. tryshut'["coll_initer"]
      BY <1>3 DEF Stop
    <2> QED BY <2>1, <2>2 DEF UpInv, OneBusy, FlagInv, HandlerInv, Busy, Runs
  <1>4. CASE Pretend
    <2>1. UNCHANGED <<initer, coll_initer_up, tryshut, req, cur>> /\ listener = "pretend"
            /\ listener' = "wait"
      BY <1>4 DEF Pretend
    <2>2. \A i \in Initers : ~ Runs(i)
      BY <2>1 DEF HandlerInv, Busy, Runs
    <2> QED BY <2>1, <2>2 DEF UpInv, OneBusy, FlagInv, HandlerInv, Busy, Runs
  <1>5. CASE WaitStopped
    <2>1. UNCHANGED <<initer, coll_initer_up, tryshut, succ, req, cur>> /\ listener = "wait"
            /\ listener' = "reply" /\ succ["coll_initer"]
      BY <1>5 DEF WaitStopped
    <2> QED BY <2>1 DEF UpInv, OneBusy, FlagInv, HandlerInv, Busy, Runs, None
  <1>6. CASE Reply
    <2>1. /\ UNCHANGED <<initer, coll_initer_up, tryshut>>
          /\ succ'["coll_initer"] = succ["coll_initer"]
          /\ listener = "reply"
          /\ \/ listener' = "while"
             \/ listener' = "finish" /\ req[cur] = "ShutdownIpcSrv"
      BY <1>6 DEF Reply
    <2> QED BY <2>1 DEF UpInv, OneBusy, FlagInv, HandlerInv, Busy, Runs
  <1>7. CASE Finish
    <2>1. /\ UNCHANGED <<initer, coll_initer_up, succ, req, cur>>
          /\ tryshut'["coll_initer"] = tryshut["coll_initer"]
          /\ listener = "finish" /\ listener' = "end"
      BY <1>7 DEF Finish
    <2> QED BY <2>1 DEF UpInv, OneBusy, FlagInv, HandlerInv, Busy, Runs
  <1>8. CASE HandlerEnd \/ ListenerEnd
    <2>1. /\ UNCHANGED <<initer, coll_initer_up, tryshut>>
          /\ succ'["coll_initer"] = succ["coll_initer"]
          /\ listener # "wait" /\ listener' \in {"while", "done"}
      BY <1>8 DEF HandlerEnd, ListenerEnd
    <2> QED BY <2>1 DEF UpInv, OneBusy, FlagInv, HandlerInv, Busy, Runs
  <1> QED
    BY <1>1, <1>2, <1>3, <1>4, <1>5, <1>6, <1>7, <1>8 DEF Listener

\* A CollIniter.
LEMMA IniterKeeps ==
  ASSUME TypeOK, CollInv, NEW i \in Initers, Initer(i)
  PROVE  CollInv'
  <1> USE DEF TypeOK, CollInv, queue, clients, history, Flags, Raise, IniterGoto, IniterRest
  <1>1. \A j \in Initers : j # i => initer'[j] = initer[j]
    BY DEF Initer, IniterUp, IniterClose, IniterSucc, IniterDown
  <1>2. UNCHANGED <<listener, req, cur, tryshut, window>>
    BY DEF Initer, IniterUp, IniterClose, IniterSucc, IniterDown
  <1>3. Busy(i)
    BY DEF Initer, IniterUp, IniterClose, IniterSucc, IniterDown, Busy
  <1>4. \A j \in Initers : Busy(j) => j = i
    BY <1>3 DEF OneBusy
  <1>5. OneBusy'
    BY <1>1, <1>4 DEF OneBusy, Busy
  <1>6. CASE IniterUp(i)
    <2>1. initer[i] = "start" /\ initer'[i] = "run" /\ coll_initer_up' /\ UNCHANGED succ
      BY <1>6 DEF IniterUp
    <2>2. UpInv' BY <2>1 DEF UpInv
    <2>3. FlagInv' BY <1>1, <1>2, <2>1 DEF FlagInv, Runs
    <2>4. HandlerInv' BY <1>1, <1>2, <2>1 DEF HandlerInv, Busy, Runs
    <2> QED BY <1>5, <2>2, <2>3, <2>4
  <1>7. CASE IniterClose(i)
    <2>1. /\ initer[i] = "run" /\ initer'[i] = "closing"
          /\ tryshut["coll_initer"] /\ UNCHANGED <<coll_initer_up, succ>>
      BY <1>7 DEF IniterClose
    <2>2. UpInv' BY <1>1, <2>1 DEF UpInv
    <2>3. FlagInv' BY <1>1, <1>2, <2>1 DEF FlagInv, Runs
    <2>4. HandlerInv' BY <1>1, <1>2, <2>1 DEF HandlerInv, Busy, Runs
    <2> QED BY <1>5, <2>2, <2>3, <2>4
  <1>8. CASE IniterSucc(i)
    <2>1. /\ initer[i] = "closing" /\ initer'[i] = "gap" /\ UNCHANGED coll_initer_up
      BY <1>8 DEF IniterSucc
    <2>2. UpInv' BY <1>1, <2>1 DEF UpInv
    <2>3. \A j \in Initers : ~ Runs(j)'
      BY <1>1, <1>4, <2>1 DEF Busy, Runs
    <2>4. FlagInv' BY <1>1, <1>2, <2>1, <2>3 DEF FlagInv, Runs
    <2>5. listener = "wait"
      BY <2>1 DEF FlagInv, Runs
    <2>6. HandlerInv' BY <1>2, <2>5 DEF HandlerInv
    <2> QED BY <1>5, <2>2, <2>4, <2>6
  <1>9. CASE IniterDown(i)
    <2>1. /\ initer[i] = "gap" /\ initer'[i] = "none" /\ ~ coll_initer_up' /\ UNCHANGED succ
      BY <1>9 DEF IniterDown
    <2>2. UpInv'
      BY <1>1, <1>4, <2>1 DEF UpInv, Busy
    <2>3. FlagInv' BY <1>1, <1>2, <2>1 DEF FlagInv, Runs
    <2>4. HandlerInv' BY <1>1, <1>2, <2>1 DEF HandlerInv, Busy, Runs
    <2> QED BY <1>5, <2>2, <2>3, <2>4
  <1> QED BY <1>6, <1>7, <1>8, <1>9 DEF Initer

LEMMA CollStep == TypeOK /\ CollInv /\ [Next]_vars => rushed' \/ CollInv'
  <1> SUFFICES ASSUME TypeOK, CollInv, [Next]_vars PROVE rushed' \/ CollInv'
    OBVIOUS
  <1> USE DEF TypeOK, queue, clients, coll, history, Flags, Raise
  <1>1. ASSUME NEW c \in Clients, Reset(c) PROVE CollInv'
    BY <1>1, QuietStep DEF Reset
  <1>2. ASSUME NEW c \in Clients, NEW r \in Requests, Send(c, r) PROVE CollInv'
    <2>1. CASE c # cur
      BY <1>2, <2>1, QuietStep DEF Send
    <2>2. CASE c = cur
      <3>1. listener \in {"finish", "end"}
        BY <1>2, <2>2 DEF Send, CollInv, HandlerInv, None
      <3> QED
        BY <1>2, <3>1 DEF Send, CollInv, UpInv, OneBusy, FlagInv, HandlerInv, Busy, Runs
    <2> QED BY <2>1, <2>2
  <1>3. ASSUME NEW m \in LazyMsgs, Enqueue(m) PROVE CollInv'
    BY <1>3, QuietStep DEF Enqueue
  <1>4. CASE Listener
    BY <1>4, ListenerKeeps
  <1>5. ASSUME NEW i \in Initers, Initer(i) PROVE CollInv'
    BY <1>5, IniterKeeps
  <1>6. CASE Dequer
    BY <1>6, QuietStep DEF Dequer, DequerWhile, DequerWake, DequerClear, DequerPop,
       DequerEnd, DequerRest
  <1>7. CASE Srv
    BY <1>7, QuietStep DEF Srv, SrvWait, SrvStopDequer, SrvWakeDequer, SrvStopListener,
       SrvSucc, SrvGoto, SrvRest
  <1>8. CASE Main
    BY <1>8, QuietStep DEF Main
  <1>9. CASE UNCHANGED vars
    BY <1>9, QuietStep DEF vars
  <1> QED
    BY <1>1, <1>2, <1>3, <1>4, <1>5, <1>6, <1>7, <1>8, <1>9 DEF Next

\* Once a request was rushed the history says so for ever.
LEMMA RushedStays == TypeOK /\ rushed /\ [Next]_vars => rushed'
  <1> SUFFICES ASSUME TypeOK, rushed, [Next]_vars PROVE rushed'
    OBVIOUS
  <1> USE DEF history
  <1>1. CASE Listener
    BY <1>1 DEF Listener, Accept, Window, Spawn, Stop, Pretend, WaitStopped, Reply, Finish,
       HandlerEnd, ListenerEnd
  <1>2. CASE Dequer
    BY <1>2 DEF Dequer, DequerWhile, DequerWake, DequerClear, DequerPop, DequerEnd, DequerRest
  <1>3. CASE Srv
    BY <1>3 DEF Srv, SrvWait, SrvStopDequer, SrvWakeDequer, SrvStopListener, SrvSucc, SrvRest
  <1>4. CASE Main
    BY <1>4 DEF Main
  <1>5. ASSUME NEW i \in Initers, Initer(i) PROVE rushed'
    BY <1>5 DEF Initer, IniterUp, IniterClose, IniterSucc, IniterDown, IniterRest
  <1>6. ASSUME NEW m \in LazyMsgs, Enqueue(m) PROVE rushed'
    BY <1>6 DEF Enqueue
  <1>7. ASSUME NEW c \in Clients, Reset(c) \/ \E r \in Requests : Send(c, r) PROVE rushed'
    BY <1>7 DEF Reset, Send
  <1>8. CASE UNCHANGED vars
    BY <1>8 DEF vars
  <1> QED
    BY <1>1, <1>2, <1>3, <1>4, <1>5, <1>6, <1>7, <1>8 DEF Next

LEMMA Inductive == Spec => []IInv
  <1>1. Init => IInv
    BY TypeInit, CollInit DEF IInv
  <1>2. IInv /\ [Next]_vars => IInv'
    <2> SUFFICES ASSUME IInv, [Next]_vars PROVE IInv'
      OBVIOUS
    <2>1. TypeOK'
      BY TypeStep DEF IInv
    <2>2. rushed' \/ CollInv'
      BY RushedStays, CollStep DEF IInv
    <2> QED BY <2>1, <2>2 DEF IInv
  <1> QED
    BY <1>1, <1>2, PTL DEF Spec

\* At most one collector runs, unless a focus-start or a shutdown was handled
\* before the CollIniter of the last focus-start had made its first store (the
\* guard of UpColl reads coll_initer_up and nothing else).
THEOREM AtMostOne == Spec => []OneCollector
  <1>1. IInv => OneCollector
    <2> SUFFICES ASSUME IInv, ~ rushed PROVE Cardinality(Alive) <= 1
      BY DEF OneCollector
    <2>1. \A i, j \in Alive : i = j
      BY DEF IInv, CollInv, OneBusy, Busy, Alive
    <2>2. CASE Alive = {}
      BY <2>2, FS_EmptySet
    <2>3. CASE Alive # {}
      <3>1. PICK x : x \in Alive
        BY <2>3
      <3>2. Alive = {x}
        BY <2>1, <3>1
      <3>3. Cardinality({x}) = 1
        BY FS_Singleton
      <3> QED BY <3>2, <3>3
    <2> QED BY <2>2, <2>3
  <1> QED
    BY <1>1, Inductive, PTL

\* What the handler answers is true when it answers: after focus-stop no
\* collector runs, except when the request came before the first store of the
\* collector it should stop.
THEOREM StopAnswerTrue == Spec => StopIsStop
  <1>1. IInv => (listener = "reply" /\ listener' # "reply" /\ req[cur] = "ShutdownColl"
                   => Alive = {} \/ "start" \in window \/ rushed)
    BY DEF IInv, CollInv, HandlerInv, Runs, Alive
  <1> QED
    BY <1>1, Inductive, PTL DEF StopIsStop

\* After focus-start a collector runs, and its stop flag is down, except when
\* the request came between the report and the last store of the one before.
THEOREM StartAnswerTrue == Spec => StartIsStart
  <1>1. IInv => (listener = "reply" /\ listener' # "reply" /\ req[cur] = "UpColl"
                   => \/ Alive # {} /\ ~ tryshut["coll_initer"]
                      \/ "gap" \in window \/ rushed)
    BY DEF IInv, CollInv, HandlerInv, FlagInv, Runs, Alive
  <1> QED
    BY <1>1, Inductive, PTL DEF StartIsStart

\* The handler of ShutdownIpcSrv raises the daemon's stop flag only after the
\* collector ended.  The dequer, which serves the lazy socket, is the only
\* other thread that raises it.
THEOREM CollectorFirst == Spec => ShutdownStopsFirst
  <1>1. ASSUME IInv, [Next]_vars,
               ~ tryshut["ipcsrv_initer"], tryshut'["ipcsrv_initer"]
        PROVE  Alive = {} \/ rushed \/ (dequer = "pop" /\ dequer' # "pop")
    <2> USE DEF IInv, TypeOK, queue, clients, coll, Flags, Raise
    <2>1. \/ Finish
          \/ DequerPop
          \/ tryshut'["ipcsrv_initer"] = tryshut["ipcsrv_initer"]
      <3>1. CASE Listener
        <4>1. CASE \E c \in Clients : Accept(c) BY <4>1 DEF Accept
        <4>2. CASE Spawn BY <4>2 DEF Spawn
        <4>3. CASE Stop BY <4>3 DEF Stop
        <4>4. CASE Pretend \/ WaitStopped \/ Reply
          BY <4>4 DEF Pretend, WaitStopped, Reply
        <4>5. CASE HandlerEnd \/ ListenerEnd BY <4>5 DEF HandlerEnd, ListenerEnd
        <4> QED BY <3>1, <4>1, <4>2, <4>3, <4>4, <4>5 DEF Listener
      <3>2. CASE Dequer
        BY <3>2 DEF Dequer, DequerWhile, DequerWake, DequerClear, DequerEnd
      <3>3. CASE Srv
        BY <3>3, <1>1 DEF Srv, SrvWait, SrvStopDequer, SrvWakeDequer, SrvStopListener, SrvSucc
      <3>4. CASE Main BY <3>4 DEF Main
      <3>5. ASSUME NEW i \in Initers, Initer(i) PROVE UNCHANGED tryshut
        BY <3>5 DEF Initer, IniterUp, IniterClose, IniterSucc, IniterDown
      <3>6. ASSUME NEW m \in LazyMsgs, Enqueue(m) PROVE UNCHANGED tryshut
        BY <3>6 DEF Enqueue
      <3>7. ASSUME NEW c \in Clients, Reset(c) \/ \E r \in Requests : Send(c, r)
            PROVE  UNCHANGED tryshut
        BY <3>7 DEF Reset, Send
      <3>8. CASE UNCHANGED vars BY <3>8 DEF vars
      <3> QED
        BY <1>1, <3>1, <3>2, <3>3, <3>4, <3>5, <3>6, <3>7, <3>8 DEF Next
    <2>2. CASE Finish
      BY <1>1, <2>2 DEF Finish, CollInv, HandlerInv, Runs, Alive
    <2>3. CASE DequerPop
      BY <2>3 DEF DequerPop
    <2> QED
      BY <1>1, <2>1, <2>2, <2>3
  <1> QED
    BY <1>1, Inductive, PTL DEF Spec, ShutdownStopsFirst

=============================================================================
