------------------------------ MODULE Startup ------------------------------
(***************************************************************************)
(* tgfocus startup, and the sockets through which every other command      *)
(* talks to the daemon.                                                    *)
(*                                                                         *)
(* `startup` connects to the port of immediate requests: if somebody       *)
(* listens there it says "already started", otherwise it forks and says    *)
(* "done".  The child listens on the port of lazy requests, then on that   *)
(* of immediate ones, and serves if it got both.  Nothing is atomic: two   *)
(* commands may start at once, a daemon may be closing its sockets, and    *)
(* any process may be killed, in which case the kernel closes its sockets  *)
(* in the order they were opened.                                          *)
(*                                                                         *)
(* The listener thread handles immediate requests one after the other, the *)
(* probe of `startup` included, which is a connection without a request.   *)
(* What the requests do to the collector is in module Daemon.              *)
(***************************************************************************)
EXTENDS IpcMsg, Functions

CONSTANTS
  Procs,     \* runs of `startup`, each with the child it forks
  Clients,   \* runs of the other commands
  Asked,     \* bound: the requests they send
  MayCut     \* TRUE when the stream may cut a message

Nobody == "nobody"

ASSUME StartupAssumption ==
  /\ Procs \cap Clients = {}
  /\ Nobody \notin Procs \cup Clients
  /\ Asked \subseteq Requests
  /\ MayCut \in BOOLEAN

Conns == Procs \cup Clients
Ports == {"lazy", "immd"}

VARIABLES
  pc,       \* where each `startup` or its child is
  got,      \* the ports on which the child listens
  overlap,  \* history: another start was under way, stuck, or killed half way
  backlog,  \* connections to a daemon that it has not accepted
  stage,    \* where the listener thread of a daemon is
  cur,      \* the connection it handles
  rd,       \* its buffer, and the number of cells read
  todo,     \* the request it answers
  link,     \* the connections: to whom, what is under way in each direction,
            \* and whether an end has closed
  cl,       \* where each client is
  req,      \* what it asked
  told,     \* what it printed
  ran,      \* history: the daemon did what it asked
  cut       \* history: its request or the answer was cut

daemon == <<pc, got, overlap>>
listener == <<backlog, stage, cur, rd, todo>>
client == <<cl, req, told>>
history == <<ran, cut>>
vars == <<daemon, listener, link, client, history>>

NoLink == [to |-> Nobody, up |-> << >>, gone |-> FALSE, down |-> << >>, fin |-> FALSE]
NoRead == [buf |-> [i \in 1 .. NCells |-> Garbage], n |-> 0]

Listens(p, port) == port \in got[p]
Taken(port) == \E p \in Procs : Listens(p, port)

Starting == {"fork", "bind_lazy", "listen_lazy", "bind_immd", "listen_immd", "check"}
Listening == {"serve", "shut", "shut_more"}

Init ==
  /\ pc = [p \in Procs |-> "idle"]
  /\ got = [p \in Procs |-> {}]
  /\ overlap = [p \in Procs |-> FALSE]
  /\ backlog = [p \in Procs |-> << >>]
  /\ stage = [p \in Procs |-> "accept"]
  /\ cur = [p \in Procs |-> Nobody]
  /\ rd = [p \in Procs |-> NoRead]
  /\ todo = [p \in Procs |-> "none"]
  /\ link = [x \in Conns |-> NoLink]
  /\ cl = [c \in Clients |-> "idle"]
  /\ req = [c \in Clients |-> "none"]
  /\ told = [c \in Clients |-> "none"]
  /\ ran = [c \in Clients |-> FALSE]
  /\ cut = [c \in Clients |-> FALSE]

Goto(p, from, to) == pc[p] = from /\ pc' = [pc EXCEPT ![p] = to]

----------------------------------------------------------------------------
(***************************************************************************)
(* startup.                                                                *)
(***************************************************************************)

\* Somebody listens: "already started".  The connection is closed at once.
ProbeUp(p) ==
  /\ pc[p] = "idle" /\ link[p] = NoLink
  /\ \E d \in Procs : /\ Listens(d, "immd")
                      /\ backlog' = [backlog EXCEPT ![d] = Append(@, p)]
                      /\ link' = [link EXCEPT ![p] = [NoLink EXCEPT !.to = d, !.gone = TRUE]]
  /\ UNCHANGED <<daemon, stage, cur, rd, todo, client, history>>

\* Killed while it had only the first port, which is not closed yet.
HalfKilled(q) == pc[q] = "shut" /\ got[q] = {"lazy"}

\* Nobody listens: the process goes on to fork.
ProbeDown(p) ==
  /\ Goto(p, "idle", "fork") /\ link[p] = NoLink
  /\ ~ Taken("immd")
  /\ LET others == {q \in Procs \ {p} : pc[q] \in Starting \cup {"stuck"} \/ HalfKilled(q)}
     IN overlap' = [q \in Procs |-> IF q = p THEN others # {} ELSE overlap[q] \/ q \in others]
  /\ UNCHANGED <<got, listener, link, client, history>>

\* fork: the parent says "done" and is gone, or says "failed".
Fork(p) ==
  /\ pc[p] = "fork"
  /\ \E to \in {"bind_lazy", "idle"} : pc' = [pc EXCEPT ![p] = to]
  /\ UNCHANGED <<got, overlap, listener, link, client, history>>

\* socket, SO_REUSEADDR and bind: that fails when somebody listens there, and
\* only then.  The constructor goes on with the other port in any case.
Bind(p, port, from, to, next) ==
  /\ Goto(p, from, IF Taken(port) THEN next ELSE to)
  /\ UNCHANGED <<got, overlap, listener, link, client, history>>

\* listen: two that have both bound the port are told apart here.
Listen(p, port, from, next) ==
  /\ Goto(p, from, next)
  /\ got' = [got EXCEPT ![p] = IF Taken(port) THEN @ ELSE @ \cup {port}]
  /\ UNCHANGED <<overlap, listener, link, client, history>>

BindLazy(p) == Bind(p, "lazy", "bind_lazy", "listen_lazy", "bind_immd")
ListenLazy(p) == Listen(p, "lazy", "listen_lazy", "bind_immd")
BindImmd(p) == Bind(p, "immd", "bind_immd", "listen_immd", "check")
ListenImmd(p) == Listen(p, "immd", "listen_immd", "check")

\* A mutant: the port of lazy requests is not needed.
ServerOkImmd(p) == "immd" \in got[p]

\* IpcServer::ok.
ServerOk(p) == got[p] = Ports

\* IpcServerInitializer: it starts the listener, or returns, with the main
\* thread waiting and the socket it did get still open.
Check(p) ==
  /\ Goto(p, "check", IF ServerOk(p) THEN "serve" ELSE "stuck")
  /\ UNCHANGED <<got, overlap, listener, link, client, history>>

\* A mutant: the sockets are closed in the other order.
CloseOrderReversed == <<"immd", "lazy">>

\* ~IpcServer closes the sockets in the order they were opened, and so does
\* the kernel.
CloseOrder == <<"lazy", "immd">>

\* The server's end of a connection is closed.
Closed(l) == IF l.gone THEN NoLink ELSE [l EXCEPT !.fin = TRUE]

\* A listening socket is closed; connections waiting on it are reset.
Close(p, port) ==
  /\ got' = [got EXCEPT ![p] = @ \ {port}]
  /\ IF port = "lazy" THEN UNCHANGED <<backlog, link>>
     ELSE /\ backlog' = [backlog EXCEPT ![p] = << >>]
          /\ link' = [x \in Conns |-> IF x \in Range(backlog[p]) THEN Closed(link[x]) ELSE link[x]]
  /\ UNCHANGED <<overlap, stage, cur, rd, todo, client, history>>

CloseFirst(p) == Goto(p, "shut", "shut_more") /\ Close(p, CloseOrder[1])
CloseSecond(p) == Goto(p, "shut_more", "shut_exit") /\ Close(p, CloseOrder[2])

\* The main thread waits for the listener to end, and returns.
Exit(p) ==
  /\ Goto(p, "shut_exit", "idle")
  /\ cur[p] = Nobody
  /\ overlap' = [overlap EXCEPT ![p] = FALSE]
  /\ UNCHANGED <<got, listener, link, client, history>>

\* The process ends at once: its threads are gone, the kernel closes its
\* sockets.
Die(p) ==
  /\ pc' = [pc EXCEPT ![p] = "shut"]
  /\ link' = [x \in Conns |-> IF cur[p] = x THEN Closed(link[x]) ELSE link[x]]
  /\ cur' = [cur EXCEPT ![p] = Nobody]
  /\ stage' = [stage EXCEPT ![p] = "accept"]
  /\ rd' = [rd EXCEPT ![p] = NoRead]
  /\ todo' = [todo EXCEPT ![p] = "none"]
  /\ UNCHANGED <<got, overlap, backlog, client, history>>

Kill(p) == pc[p] \in (Starting \ {"fork"}) \cup {"serve", "stuck"} /\ Die(p)

----------------------------------------------------------------------------
(***************************************************************************)
(* ConnListener and IpcConnHandler, for immediate requests.                *)
(***************************************************************************)

Stage(p, from, to) == stage[p] = from /\ stage' = [stage EXCEPT ![p] = to]

\* handle_immd takes a connection and runs its handler to the end.
Accept(p) ==
  /\ pc[p] \in Listening /\ backlog[p] # << >>
  /\ Stage(p, "accept", "read")
  /\ cur' = [cur EXCEPT ![p] = Head(backlog[p])]
  /\ backlog' = [backlog EXCEPT ![p] = Tail(@)]
  /\ UNCHANGED <<daemon, rd, todo, link, client, history>>

\* Data: every read writes to the start of the buffer.
Read(p) ==
  LET x == cur[p]
  IN /\ stage[p] = "read" /\ rd[p].n < NCells
     /\ link[x].up # << >>
     /\ rd' = [rd EXCEPT ![p] = [buf |-> ReadInto(@.buf, Head(link[x].up)),
                                 n |-> @.n + Len(Head(link[x].up))]]
     /\ link' = [link EXCEPT ![x].up = Tail(@)]
     /\ UNCHANGED <<daemon, backlog, stage, cur, todo, client, history>>

\* The handler returns and its destructor closes the connection.
Finish(p, l) ==
  /\ stage' = [stage EXCEPT ![p] = "accept"]
  /\ cur' = [cur EXCEPT ![p] = Nobody]
  /\ rd' = [rd EXCEPT ![p] = NoRead]
  /\ todo' = [todo EXCEPT ![p] = "none"]
  /\ link' = [link EXCEPT ![cur[p]] = Closed(l)]

\* A mutant: the end of the stream is not noticed.
GiveUpNever(p) == FALSE /\ UNCHANGED vars

\* The end of the stream before the request is complete: the answer, an
\* Error, reaches nobody.
GiveUp(p) ==
  LET x == cur[p]
  IN /\ stage[p] = "read" /\ rd[p].n < NCells
     /\ link[x].up = << >> /\ link[x].gone
     /\ Finish(p, link[x])
     /\ UNCHANGED <<daemon, backlog, client, history>>

\* A mutant: the request is put off, as a lazy one is.
RunLater(p) ==
  LET typ == Parse(rd[p].buf).typ
  IN /\ rd[p].n = NCells
     /\ Stage(p, "read", "answer")
     /\ todo' = [todo EXCEPT ![p] = typ]
     /\ UNCHANGED <<daemon, backlog, cur, rd, link, client, history>>

\* The request in the buffer is done.
Done(p) == [c \in Clients |-> ran[c] \/ (c = cur[p] /\ Parse(rd[p].buf).typ = req[c])]

\* The request is complete: it is parsed, and done before it is answered.  A
\* buffer without the magic is an Ignore.  For a collector that runs,
\* ShutdownIpcSrv and ShutdownColl wait until it has stopped.
Run(p) ==
  LET typ == Parse(rd[p].buf).typ
  IN /\ rd[p].n = NCells
     /\ \/ Stage(p, "read", "answer") /\ ran' = Done(p)
        \/ /\ typ \in {"ShutdownIpcSrv", "ShutdownColl"}
           /\ Stage(p, "read", "wait") /\ UNCHANGED ran
     /\ todo' = [todo EXCEPT ![p] = typ]
     /\ UNCHANGED <<daemon, backlog, cur, rd, link, client, cut>>

\* coll_initer_succ: the collector has stopped.  It may never do so (see
\* CollPipeline's StopCompletes).
Stopped(p) ==
  /\ Stage(p, "wait", "answer")
  /\ ran' = Done(p)
  /\ UNCHANGED <<daemon, backlog, cur, rd, todo, link, client, cut>>

\* What goes out may be cut as well; nothing reaches a client that has gone.
Out(l, m) ==
  IF l.gone THEN {l}
  ELSE {[l EXCEPT !.down = @ \o <<m>>]}
         \cup IF MayCut THEN {[l EXCEPT !.down = @ \o w] : w \in Cuts(m)} ELSE {}

\* Success; after that answer a shutdown request takes its course.
Answer(p) ==
  /\ stage[p] = "answer" /\ todo[p] # "ReportStatus"
  /\ \E l \in Out(link[cur[p]], Success) :
       /\ Finish(p, l)
       /\ cut' = [c \in Clients |-> cut[c] \/ (c = cur[p] /\ Len(l.down) > 1)]
  /\ pc' = [pc EXCEPT ![p] = IF todo[p] = "ShutdownIpcSrv" /\ @ = "serve" THEN "shut" ELSE @]
  /\ UNCHANGED <<got, overlap, backlog, client, ran>>

\* rhandle_rstatus sends the answer and then the text.
AnswerStatus(p) ==
  /\ todo[p] = "ReportStatus"
  /\ Stage(p, "answer", "text")
  /\ \E l \in Out(link[cur[p]], SuccessReadable) :
       /\ link' = [link EXCEPT ![cur[p]] = l]
       /\ cut' = [c \in Clients |-> cut[c] \/ (c = cur[p] /\ Len(l.down) > 1)]
  /\ UNCHANGED <<daemon, backlog, cur, rd, todo, client, ran>>

AnswerText(p) ==
  /\ stage[p] = "text"
  /\ \E l \in Out(link[cur[p]], <<"text">>) : Finish(p, l)
  /\ UNCHANGED <<daemon, backlog, client, history>>

\* A second write to a client that has gone raises SIGPIPE, which nobody
\* handles.
BrokenPipe(p) == stage[p] = "text" /\ link[cur[p]].gone /\ Die(p)

Handle(p) ==
  \/ Accept(p) \/ Read(p) \/ GiveUp(p) \/ Run(p)
  \/ Answer(p) \/ AnswerStatus(p) \/ AnswerText(p)

----------------------------------------------------------------------------
(***************************************************************************)
(* The other commands: IpcClient and its callers.                          *)
(***************************************************************************)

Leave(c, what) ==
  /\ cl' = [cl EXCEPT ![c] = "idle"]
  /\ told' = [told EXCEPT ![c] = what]
  /\ UNCHANGED req

\* Nobody listens: "initialization failed".
ConnectFails(c) ==
  /\ cl[c] = "idle" /\ link[c] = NoLink /\ ~ Taken("immd")
  /\ Leave(c, "error")
  /\ ran' = [ran EXCEPT ![c] = FALSE]
  /\ cut' = [cut EXCEPT ![c] = FALSE]
  /\ UNCHANGED <<daemon, listener, link>>

\* connect, and send of the request.
Connect(c, r) ==
  /\ cl[c] = "idle" /\ link[c] = NoLink
  /\ cl' = [cl EXCEPT ![c] = "recv"]
  /\ req' = [req EXCEPT ![c] = r]
  /\ told' = [told EXCEPT ![c] = "none"]
  /\ ran' = [ran EXCEPT ![c] = FALSE]
  /\ \E d \in Procs, l \in Out(NoLink, new_ipcmsg(r, Zero)) :
       /\ Listens(d, "immd")
       /\ backlog' = [backlog EXCEPT ![d] = Append(@, c)]
       /\ link' = [link EXCEPT ![c] = [NoLink EXCEPT !.to = d, !.up = l.down]]
       /\ cut' = [cut EXCEPT ![c] = Len(l.down) > 1]
  /\ UNCHANGED <<daemon, stage, cur, rd, todo>>

\* The client closes its end; data it has not read, or not sent, is lost.
Hangup(c) == link' = [link EXCEPT ![c] = IF @.fin THEN NoLink
                                         ELSE [@ EXCEPT !.gone = TRUE, !.down = << >>]]

\* What the handlers of tgfocus.cc want to see.
Wanted(r) == IF r = "ReportStatus" THEN "SuccessReadable" ELSE "Success"

\* recv is called once: whatever it returns is taken for the answer.  A status
\* answer that announces no text fails an assertion.
Recv(c) ==
  LET buf == ReadInto([i \in 1 .. NCells |-> Zero], Head(link[c].down))
      msg == Parse(buf)
      good == msg.ok /\ msg.typ = Wanted(req[c])
  IN /\ cl[c] = "recv" /\ link[c].down # << >>
     /\ \/ /\ msg.ok /\ msg.ext # Zero
           /\ cl' = [cl EXCEPT ![c] = "text"]
           /\ link' = [link EXCEPT ![c].down = Tail(@)]
           /\ UNCHANGED <<req, told>>
        \/ /\ ~ (msg.ok /\ msg.ext # Zero)
           /\ Hangup(c)
           /\ Leave(c, IF ~ good THEN "failed"
                       ELSE IF req[c] = "ReportStatus" THEN "abort" ELSE "done")
     /\ UNCHANGED <<daemon, listener, history>>

\* recv returns 0 or an error: "failed".
RecvEnd(c) ==
  /\ cl[c] = "recv" /\ link[c].down = << >> /\ link[c].fin
  /\ Hangup(c)
  /\ Leave(c, "failed")
  /\ UNCHANGED <<daemon, listener, history>>

\* The text of a status answer.  The loop counts what it reads: when the
\* stream has ended it runs for ever.
RecvText(c) ==
  /\ cl[c] = "text" /\ link[c].down # << >>
  /\ Hangup(c)
  /\ Leave(c, "done")
  /\ UNCHANGED <<daemon, listener, history>>

\* The user interrupts the command.
Quit(c) ==
  /\ cl[c] # "idle"
  /\ Hangup(c)
  /\ Leave(c, "quit")
  /\ UNCHANGED <<daemon, listener, history>>

----------------------------------------------------------------------------
Launch(p) ==
  \/ Fork(p) \/ BindLazy(p) \/ ListenLazy(p) \/ BindImmd(p) \/ ListenImmd(p)
  \/ Check(p) \/ CloseFirst(p) \/ CloseSecond(p) \/ Exit(p)

Receive(c) == Recv(c) \/ RecvEnd(c) \/ RecvText(c)

\* What users do, and what the system does to them.
User == \/ \E p \in Procs : ProbeUp(p) \/ ProbeDown(p) \/ Kill(p) \/ BrokenPipe(p)
        \/ \E c \in Clients : ConnectFails(c) \/ Quit(c) \/ \E r \in Asked : Connect(c, r)

Next == \/ User
        \/ \E p \in Procs : Launch(p) \/ Handle(p) \/ Stopped(p)
        \/ \E c \in Clients : Receive(c)

Spec == Init /\ [][Next]_vars

\* Threads and processes that can run do so.  Nothing is assumed of Stopped: a
\* collector that was told to stop may run for ever.
FairSpec == /\ Spec
            /\ \A p \in Procs : WF_vars(Launch(p)) /\ WF_vars(Handle(p))
            /\ \A c \in Clients : WF_vars(Receive(c))

----------------------------------------------------------------------------
\* At most one daemon serves, with both ports its own, however the commands
\* that start and stop daemons interleave (IpcServer's constructor and the
\* check of IpcServerInitializer).
OneServes ==
  \A p \in Procs : pc[p] = "serve" =>
    \A q \in Procs \ {p} : got[q] = {} /\ pc[q] # "serve"

\* A command prints "done" only if the daemon did what it asked, even if the
\* daemon was killed meanwhile.  The exception is a message that the stream
\* cut in two: the handler then takes the request for an Ignore and answers
\* Success (ipc_conn_handler.cc:131, :156).
DoneMeansRun == \A c \in Clients : told[c] = "done" => ran[c] \/ cut[c]

\* A start that is alone ends with a daemon that serves: sockets that another
\* one is still closing never stop it half way, because they are closed and
\* opened in the same order and the probe looks at the last of them.
StartupServes ==
  \A p \in Procs :
    pc[p] = "bind_lazy" ~> \/ pc[p] \in {"serve", "shut", "shut_more", "shut_exit"}
                           \/ overlap[p]

\* The daemon to which a command is connected waits for its collector.
HeldUp(c) == link[c].to # Nobody /\ stage[link[c].to] = "wait"

\* Every command comes to an end, except one that has reached a process that
\* is stuck, one whose daemon died in the middle of a status answer, and those
\* whose daemon waits for ever for a collector that does not stop: the handler
\* of one connection holds up all others.
CommandsEnd ==
  \A c \in Clients :
    cl[c] # "idle" ~> \/ cl[c] = "idle"
                      \/ link[c].to # Nobody /\ pc[link[c].to] = "stuck"
                      \/ cl[c] = "text" /\ link[c].down = << >> /\ link[c].fin
                      \/ []HeldUp(c)

=============================================================================
