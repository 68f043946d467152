------------------------------- MODULE Daemon -------------------------------
(***************************************************************************)
(* The control plane of the daemon: how it answers the command line and    *)
(* how it shuts down.  Five kinds of threads share the flags of stat.cc.   *)
(*                                                                         *)
(*   main     handle_startup_FORK's child: waits for the other threads to  *)
(*            report that they ended, one after the other, and exits       *)
(*   srv      IpcServerInitializer: owns the sockets, tells the listener   *)
(*            and the dequer to stop                                       *)
(*   listener ConnListener, which runs the IpcConnHandler of a connection  *)
(*            to its end before it accepts another                         *)
(*   dequer   IpcMsgDequer: takes messages of the lazy socket off a queue  *)
(*   initers  CollIniter, one thread per collector that is started; what   *)
(*            it does between start and end is module CollPipeline         *)
(*                                                                         *)
(* A client is a run of the program that sends one request and waits.      *)
(***************************************************************************)
EXTENDS Integers, Sequences, FiniteSets

CONSTANTS
  Clients,      \* clients that may be connected at a time
  Requests,     \* the requests they send
  LazyMsgs,     \* messages that may arrive on the lazy socket
  Initers,      \* bound: CollIniter threads at a time
  MaxRequests,  \* bound: requests of all clients
  MaxLazy,      \* bound: lazy messages
  Started       \* TRUE when a collector was started before

Kinds == {"EOF", "Ignore", "ReportStatus", "UpColl", "ShutdownColl", "ShutdownIpcSrv"}

ASSUME DaemonAssumption ==
  /\ Requests \subseteq Kinds
  /\ LazyMsgs \subseteq {"Ignore", "ShutdownIpcSrv"}
  /\ MaxRequests \in Nat /\ MaxLazy \in Nat
  /\ Started \in BOOLEAN
  /\ Started => Initers # {}
  /\ "none" \notin Initers \cup Clients

VARIABLES
  main, srv, listener, dequer,  \* where the threads are
  initer,          \* where each CollIniter is
  coll_initer_up,  \* stat.cc
  tryshut,         \* stat.cc: tryshutwk::*, the flags somebody reads
  succ,            \* stat.cc: tryshutwk::*_succ
  q_ipcmsg,        \* the queue of lazy messages
  has_upd,         \* q_ipcmsg_has_upd
  req,             \* what each client waits for
  cur,             \* the client whose connection is handled
  n_req, n_lazy,   \* how many requests and lazy messages there were
  window,          \* history: where coll_initer_up was wrong about a collector
                   \* when the current request read it
  rushed           \* history: a focus-start or a shutdown read it before the
                   \* last CollIniter had made its first store

vars == <<main, srv, listener, dequer, initer, coll_initer_up, tryshut, succ,
          q_ipcmsg, has_upd, req, cur, n_req, n_lazy, window, rushed>>

None == "none"
Flags == {"coll_initer", "ipcsrv_initer", "ipcconn_handler", "ipcmsg_dequer", "conn_listener"}

\* main waits for these, in this order.
WaitOrder == <<"coll_initer", "ipcsrv_initer", "ipcconn_handler", "ipcmsg_dequer",
               "conn_listener">>

\* A collector runs from the start of its CollIniter thread until its threads
\* are joined.
Alive == {i \in Initers : initer[i] \in {"start", "run", "closing"}}

queue == <<q_ipcmsg, has_upd, n_lazy>>
clients == <<req, cur, n_req>>
coll == <<initer, coll_initer_up>>
history == <<window, rushed>>

Init ==
  /\ main = 1 /\ srv = "wait" /\ listener = "while" /\ dequer = "while"
  /\ \E first \in Initers \cup {None} :
       /\ (first # None) = Started
       /\ initer = [i \in Initers |-> IF i = first THEN "run" ELSE "none"]
  /\ coll_initer_up = Started
  /\ tryshut = [f \in Flags |-> FALSE]
  /\ succ = [f \in Flags |-> FALSE]
  /\ q_ipcmsg = << >> /\ has_upd = FALSE
  /\ req = [c \in Clients |-> None] /\ cur = None
  /\ n_req = 0 /\ n_lazy = 0
  /\ window = {} /\ rushed = FALSE

Raise(flags, f) == [flags EXCEPT ![f] = TRUE]

----------------------------------------------------------------------------
(***************************************************************************)
(* Clients.                                                                *)
(***************************************************************************)

\* A client connects and sends; the connection waits in the backlog.  A probe
\* (IpcClient::active) closes without sending.
Send(c, r) ==
  /\ req[c] = None /\ srv # "done" /\ n_req < MaxRequests
  /\ req' = [req EXCEPT ![c] = r]
  /\ n_req' = n_req + 1
  /\ UNCHANGED <<main, srv, listener, dequer, coll, tryshut, succ, queue, cur, history>>

\* The sockets are closed: a connection nobody accepted is reset.
Reset(c) ==
  /\ req[c] # None /\ cur # c /\ srv = "done"
  /\ req' = [req EXCEPT ![c] = None]
  /\ UNCHANGED <<main, srv, listener, dequer, coll, tryshut, succ, queue, cur, n_req, history>>

\* A message on the lazy socket: the detached thread of its connection, which
\* may outlive the sockets, enqueues it.
Enqueue(m) ==
  /\ n_lazy < MaxLazy
  /\ q_ipcmsg' = Append(q_ipcmsg, m)
  /\ has_upd' = TRUE
  /\ succ' = Raise(succ, "ipcconn_handler")
  /\ n_lazy' = n_lazy + 1
  /\ UNCHANGED <<main, srv, listener, dequer, coll, tryshut, clients, history>>

----------------------------------------------------------------------------
(***************************************************************************)
(* The listener and the handler it calls.                                  *)
(***************************************************************************)

\* coll_initer_up is FALSE until a CollIniter that was detached has made its
\* first store ("start"), and TRUE after it has reported its end until its
\* last store ("gap").
Window(c) ==
  /\ window' = {initer[i] : i \in Initers} \cap {"start", "gap"}
  /\ rushed' = (rushed \/ (req[c] \in {"UpColl", "ShutdownIpcSrv"} /\ "start" \in window'))

\* A mutant: a collector is started beside one that runs.
AcceptUnguarded(c) ==
  /\ listener = "while" /\ ~ tryshut["conn_listener"] /\ srv # "done"
  /\ req[c] # None
  /\ cur' = c
  /\ Window(c)
  /\ listener' =
       CASE req[c] = "UpColl" -> "spawn"
         [] req[c] \in {"ShutdownColl", "ShutdownIpcSrv"} /\ coll_initer_up -> "stop"
         [] req[c] = "ShutdownIpcSrv" /\ ~ coll_initer_up -> "pretend"
         [] OTHER -> "reply"
  /\ UNCHANGED <<main, srv, dequer, coll, tryshut, succ, queue, req, n_req>>

\* The next connection is accepted, its request read, coll_initer_up read.
Accept(c) ==
  /\ listener = "while" /\ ~ tryshut["conn_listener"] /\ srv # "done"
  /\ req[c] # None
  /\ cur' = c
  /\ Window(c)
  /\ listener' =
       CASE req[c] = "UpColl" /\ ~ coll_initer_up -> "spawn"
         [] req[c] \in {"ShutdownColl", "ShutdownIpcSrv"} /\ coll_initer_up -> "stop"
         [] req[c] = "ShutdownIpcSrv" /\ ~ coll_initer_up -> "pretend"
         [] OTHER -> "reply"
  /\ UNCHANGED <<main, srv, dequer, coll, tryshut, succ, queue, req, n_req>>

\* A thread begins; which of the threads not in use makes no difference.
Detach ==
  /\ \E i \in Initers : initer[i] = "none"
  /\ initer' = [initer EXCEPT ![CHOOSE i \in Initers : initer[i] = "none"] = "start"]

\* A mutant: the stop flag of the last collector is not reset.
SpawnUnreset ==
  /\ listener = "spawn"
  /\ Detach
  /\ succ' = [succ EXCEPT !["coll_initer"] = FALSE]
  /\ listener' = "reply"
  /\ UNCHANGED <<main, srv, dequer, coll_initer_up, tryshut, queue, clients, history>>

\* UpColl: the flags are reset and a CollIniter thread is detached.
Spawn ==
  /\ listener = "spawn"
  /\ Detach
  /\ tryshut' = [tryshut EXCEPT !["coll_initer"] = FALSE]
  /\ succ' = [succ EXCEPT !["coll_initer"] = FALSE]
  /\ listener' = "reply"
  /\ UNCHANGED <<main, srv, dequer, coll_initer_up, queue, clients, history>>

\* A mutant: the daemon is told to stop before the collector ended.
StopAll ==
  /\ listener = "stop"
  /\ tryshut' = IF req[cur] = "ShutdownIpcSrv"
                THEN Raise(Raise(tryshut, "coll_initer"), "ipcsrv_initer")
                ELSE Raise(tryshut, "coll_initer")
  /\ listener' = "wait"
  /\ UNCHANGED <<main, srv, dequer, coll, succ, queue, clients, history>>

\* ShutdownColl and ShutdownIpcSrv with a collector: tell it to stop.
Stop ==
  /\ listener = "stop"
  /\ tryshut' = Raise(tryshut, "coll_initer")
  /\ listener' = "wait"
  /\ UNCHANGED <<main, srv, dequer, coll, succ, queue, clients, history>>

\* ShutdownIpcSrv without one: main must not wait for it.
Pretend ==
  /\ listener = "pretend"
  /\ succ' = Raise(succ, "coll_initer")
  /\ listener' = "wait"
  /\ UNCHANGED <<main, srv, dequer, coll, tryshut, queue, clients, history>>

WaitStopped ==
  /\ listener = "wait" /\ succ["coll_initer"]
  /\ listener' = "reply"
  /\ UNCHANGED <<main, srv, dequer, coll, tryshut, succ, queue, clients, history>>

\* The answer; it is Error for a connection that ended early.
Reply ==
  /\ listener = "reply"
  /\ req' = [req EXCEPT ![cur] = None]
  /\ IF req[cur] = "ShutdownIpcSrv"
     THEN listener' = "finish" /\ UNCHANGED <<succ, cur, window>>
     ELSE /\ listener' = "while" /\ cur' = None /\ window' = {}
          /\ succ' = Raise(succ, "ipcconn_handler")
  /\ UNCHANGED <<main, srv, dequer, coll, tryshut, queue, n_req, rushed>>

\* ShutdownIpcSrv, after the answer: the whole daemon is to stop.
Finish ==
  /\ listener = "finish"
  /\ tryshut' = Raise(tryshut, "ipcsrv_initer")
  /\ listener' = "end"
  /\ UNCHANGED <<main, srv, dequer, coll, succ, queue, clients, history>>

\* A mutant: the connection stays the handler's.
HandlerEndKept ==
  /\ listener = "end"
  /\ succ' = Raise(succ, "ipcconn_handler")
  /\ listener' = "while"
  /\ UNCHANGED <<main, srv, dequer, coll, tryshut, queue, clients, history>>

HandlerEnd ==
  /\ listener = "end"
  /\ succ' = Raise(succ, "ipcconn_handler")
  /\ listener' = "while" /\ cur' = None /\ window' = {}
  /\ UNCHANGED <<main, srv, dequer, coll, tryshut, queue, req, n_req, rushed>>

ListenerEnd ==
  /\ listener = "while" /\ tryshut["conn_listener"]
  /\ succ' = Raise(succ, "conn_listener")
  /\ listener' = "done"
  /\ UNCHANGED <<main, srv, dequer, coll, tryshut, queue, clients, history>>

Listener == \/ \E c \in Clients : Accept(c)
            \/ Spawn \/ Stop \/ Pretend \/ WaitStopped \/ Reply \/ Finish
            \/ HandlerEnd \/ ListenerEnd

----------------------------------------------------------------------------
(***************************************************************************)
(* CollIniter, the dequer, the server initializer and main.                *)
(***************************************************************************)

IniterGoto(i, from, to) == initer[i] = from /\ initer' = [initer EXCEPT ![i] = to]
IniterRest == UNCHANGED <<main, srv, listener, dequer, queue, clients, history>>

IniterUp(i) ==
  /\ IniterGoto(i, "start", "run")
  /\ coll_initer_up' = TRUE
  /\ IniterRest /\ UNCHANGED <<tryshut, succ>>

\* A mutant: success is reported before the threads are joined.
IniterCloseEarly(i) ==
  /\ tryshut["coll_initer"]
  /\ IniterGoto(i, "run", "closing")
  /\ succ' = Raise(succ, "coll_initer")
  /\ IniterRest /\ UNCHANGED <<coll_initer_up, tryshut>>

\* It was waiting for an authorization, or for its stop flag.
IniterClose(i) ==
  /\ tryshut["coll_initer"]
  /\ IniterGoto(i, "run", "closing")
  /\ IniterRest /\ UNCHANGED <<coll_initer_up, tryshut, succ>>

\* A mutant: a collector ends without a report.
IniterSuccDropped(i) ==
  /\ IniterGoto(i, "closing", "gap")
  /\ IniterRest /\ UNCHANGED <<coll_initer_up, tryshut, succ>>

\* The switcher has answered, and the threads are joined.  It need not answer:
\* see CollPipeline's StopCompletes.
IniterSucc(i) ==
  /\ IniterGoto(i, "closing", "gap")
  /\ succ' = Raise(succ, "coll_initer")
  /\ IniterRest /\ UNCHANGED <<coll_initer_up, tryshut>>

IniterDown(i) ==
  /\ IniterGoto(i, "gap", "none")
  /\ coll_initer_up' = FALSE
  /\ IniterRest /\ UNCHANGED <<tryshut, succ>>

Initer(i) == IniterUp(i) \/ IniterClose(i) \/ IniterSucc(i) \/ IniterDown(i)

DequerRest == UNCHANGED <<main, srv, listener, coll, n_lazy, clients, history>>

\* A mutant: has_upd is cleared before the wait for it.
DequerWhileClears ==
  /\ dequer = "while" /\ ~ tryshut["ipcmsg_dequer"]
  /\ has_upd' = FALSE
  /\ dequer' = "wait"
  /\ DequerRest /\ UNCHANGED <<tryshut, succ, q_ipcmsg>>

DequerWhile ==
  /\ dequer = "while" /\ ~ tryshut["ipcmsg_dequer"]
  /\ dequer' = "wait"
  /\ DequerRest /\ UNCHANGED <<tryshut, succ, q_ipcmsg, has_upd>>

DequerWake ==
  /\ dequer = "wait" /\ has_upd
  /\ dequer' = "clear"
  /\ DequerRest /\ UNCHANGED <<tryshut, succ, q_ipcmsg, has_upd>>

DequerClear ==
  /\ dequer = "clear"
  /\ has_upd' = FALSE
  /\ dequer' = "pop"
  /\ DequerRest /\ UNCHANGED <<tryshut, succ, q_ipcmsg>>

\* One message per wake-up, the newest first.
DequerPop ==
  /\ dequer = "pop"
  /\ dequer' = "while"
  /\ IF q_ipcmsg = << >> THEN UNCHANGED <<q_ipcmsg, tryshut>>
     ELSE /\ q_ipcmsg' = SubSeq(q_ipcmsg, 1, Len(q_ipcmsg) - 1)
          /\ tryshut' = IF q_ipcmsg[Len(q_ipcmsg)] = "ShutdownIpcSrv"
                        THEN Raise(tryshut, "ipcsrv_initer") ELSE tryshut
  /\ DequerRest /\ UNCHANGED <<succ, has_upd>>

DequerEnd ==
  /\ dequer = "while" /\ tryshut["ipcmsg_dequer"]
  /\ succ' = Raise(succ, "ipcmsg_dequer")
  /\ dequer' = "done"
  /\ DequerRest /\ UNCHANGED <<tryshut, q_ipcmsg, has_upd>>

Dequer == DequerWhile \/ DequerWake \/ DequerClear \/ DequerPop \/ DequerEnd

SrvGoto(from, to) == srv = from /\ srv' = to
SrvRest == UNCHANGED <<main, listener, dequer, coll, q_ipcmsg, n_lazy, clients, history>>

SrvWait ==
  /\ tryshut["ipcsrv_initer"]
  /\ SrvGoto("wait", "dequer")
  /\ SrvRest /\ UNCHANGED <<tryshut, succ, has_upd>>

\* The dequer's flag is up before the dequer is woken.
SrvStopDequer ==
  /\ SrvGoto("dequer", "wake")
  /\ tryshut' = Raise(tryshut, "ipcmsg_dequer")
  /\ SrvRest /\ UNCHANGED <<succ, has_upd>>

\* A mutant: the dequer is not woken.
SrvWakeDequerDropped ==
  /\ SrvGoto("wake", "listener")
  /\ SrvRest /\ UNCHANGED <<tryshut, succ, has_upd>>

SrvWakeDequer ==
  /\ SrvGoto("wake", "listener")
  /\ has_upd' = TRUE
  /\ SrvRest /\ UNCHANGED <<tryshut, succ>>

SrvStopListener ==
  /\ SrvGoto("listener", "succ")
  /\ tryshut' = [tryshut EXCEPT !["ipcconn_handler"] = TRUE, !["conn_listener"] = TRUE]
  /\ SrvRest /\ UNCHANGED <<succ, has_upd>>

\* The sockets are closed when the thread ends.
SrvSucc ==
  /\ SrvGoto("succ", "done")
  /\ succ' = Raise(succ, "ipcsrv_initer")
  /\ SrvRest /\ UNCHANGED <<tryshut, has_upd>>

Srv == SrvWait \/ SrvStopDequer \/ SrvWakeDequer \/ SrvStopListener \/ SrvSucc

\* main waits for the flags in order; past the last one the process exits.
Main ==
  /\ main <= Len(WaitOrder)
  /\ succ[WaitOrder[main]]
  /\ main' = main + 1
  /\ UNCHANGED <<srv, listener, dequer, coll, tryshut, succ, queue, clients, history>>

Exited == main > Len(WaitOrder)

Next ==
  \/ /\ ~ Exited
     /\ \/ Listener \/ Dequer \/ Srv \/ Main
        \/ \E i \in Initers : Initer(i)
        \/ \E m \in LazyMsgs : Enqueue(m)
  \/ \E c \in Clients : \/ Reset(c)
                        \/ \E r \in Requests : Send(c, r)

Spec == Init /\ [][Next]_vars

\* Every thread of the process runs.  A collector that was told to stop may
\* stay in "closing" for ever: nothing is assumed of IniterSucc.
Fairness ==
  /\ WF_vars(~ Exited /\ Listener) /\ WF_vars(~ Exited /\ Dequer)
  /\ WF_vars(~ Exited /\ Srv) /\ WF_vars(~ Exited /\ Main)
  /\ \A i \in Initers : WF_vars(~ Exited /\ (IniterUp(i) \/ IniterClose(i) \/ IniterDown(i)))
  /\ \A c \in Clients : WF_vars(Reset(c))

FairSpec == Spec /\ Fairness

----------------------------------------------------------------------------
(***************************************************************************)
(* Properties.                                                             *)
(***************************************************************************)

\* The values the flags and the threads' places range over; a connection is
\* being handled exactly while the listener is inside the handler.
TypeOK ==
  /\ main \in 1 .. Len(WaitOrder) + 1
  /\ srv \in {"wait", "dequer", "wake", "listener", "succ", "done"}
  /\ listener \in {"while", "spawn", "stop", "pretend", "wait", "reply", "finish", "end", "done"}
  /\ dequer \in {"while", "wait", "clear", "pop", "done"}
  /\ initer \in [Initers -> {"none", "start", "run", "closing", "gap"}]
  /\ coll_initer_up \in BOOLEAN
  /\ tryshut \in [Flags -> BOOLEAN] /\ succ \in [Flags -> BOOLEAN]
  /\ q_ipcmsg \in Seq(LazyMsgs) /\ has_upd \in BOOLEAN
  /\ req \in [Clients -> Requests \cup {None}]
  /\ cur \in Clients \cup {None}
  /\ cur # None <=> listener \notin {"while", "done"}
  /\ n_req \in 0 .. MaxRequests /\ n_lazy \in 0 .. MaxLazy
  /\ window \subseteq {"start", "gap"} /\ rushed \in BOOLEAN

\* At most one collector runs: its threads share mq, do_csm_mq and the
\* TDLib client (the guard of UpColl).  The exception is a focus-start, or a
\* shutdown, that was handled before the last CollIniter had made its first
\* store: that one is not seen.  No other interleaving makes two.
OneCollector == rushed \/ Cardinality(Alive) <= 1

\* The answer to focus-stop means that no collector runs any more; except when
\* the request itself came before the first store of the collector.
StopIsStop ==
  [][listener = "reply" /\ listener' # "reply" /\ req[cur] = "ShutdownColl"
       => Alive = {} \/ "start" \in window \/ rushed]_vars

\* The answer to focus-start means that a collector runs which nobody has told
\* to stop; except when the request came between the report and the last store
\* of the one before.
StartIsStart ==
  [][listener = "reply" /\ listener' # "reply" /\ req[cur] = "UpColl"
       => \/ Alive # {} /\ ~ tryshut["coll_initer"]
          \/ "gap" \in window \/ rushed]_vars

\* The daemon as a whole is told to stop only when no collector runs: the
\* handler of ShutdownIpcSrv waits for the collector first.  The dequer, for a
\* shutdown that came through the lazy socket, does not.
ShutdownStopsFirst ==
  [][~ tryshut["ipcsrv_initer"] /\ tryshut'["ipcsrv_initer"]
       => Alive = {} \/ rushed \/ (dequer = "pop" /\ dequer' # "pop")]_vars

\* Once the daemon is told to shut down the process exits, or main waits for
\* coll_initer_succ for ever: a `focus-start` of the backlog was handled behind
\* the shutdown, or the shutdown was a lazy one, which tells no collector.
ShutdownEnds == tryshut["ipcsrv_initer"] ~> Exited \/ [](~ succ["coll_initer"])

\* A lazy message that comes alone is taken off the queue: the dequer clears
\* has_upd before it looks, so that no wake-up is lost.  (Of two that come
\* together the older one stays until the next wake-up.)
LoneLazyTaken ==
  n_lazy = 1 /\ q_ipcmsg # << >> ~>
    q_ipcmsg = << >> \/ n_lazy > 1 \/ tryshut["ipcsrv_initer"]

\* A client that sent a request gets an answer or a reset connection, unless a
\* collector that was told to stop never ends: then the handler waits for it,
\* and every other client for the handler.  Nothing else keeps them waiting.
ClientsReturn ==
  \A c \in Clients :
    req[c] # None ~> req[c] = None \/ [](\E i \in Initers : initer[i] = "closing")

=============================================================================
