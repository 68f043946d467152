--------------------------- MODULE StartupProofs ----------------------------
(***************************************************************************)
(* The safety properties of Startup, for any number of processes and       *)
(* commands.  That one daemon serves follows from the ports alone          *)
(* (PortInv).  That "done" means done needs the whole way of a request:    *)
(* the listener's buffer (StageInv), who holds a connection (HeldInv), and *)
(* what a request that was not cut looks like at each point (RequestInv).  *)
(***************************************************************************)
EXTENDS Startup, SequenceTheorems, TLAPS

USE StartupAssumption

----------------------------------------------------------------------------
(***************************************************************************)
(* The invariants.                                                         *)
(***************************************************************************)

Places == Starting \cup Listening \cup {"idle", "stuck", "shut_exit"}
Cells == Requests \cup {Magic, Zero, Garbage, "n", "text", "Success", "SuccessReadable"}
Chunk == Seq(Cells)
Link == [to : Procs \cup {Nobody}, up : Seq(Chunk), gone : BOOLEAN,
         down : Seq(Chunk), fin : BOOLEAN]
Buffer == [buf : [1 .. NCells -> Cells], n : Nat]

DaemonType == pc \in [Procs -> Places] /\ got \in [Procs -> SUBSET Ports]

ListenerType ==
  /\ backlog \in [Procs -> Seq(Conns)]
  /\ stage \in [Procs -> {"accept", "read", "wait", "answer", "text"}]
  /\ cur \in [Procs -> Conns \cup {Nobody}]
  /\ rd \in [Procs -> Buffer]

LinkType == link \in [Conns -> Link]

ClientType ==
  /\ cl \in [Clients -> {"idle", "recv", "text"}]
  /\ req \in [Clients -> Requests \cup {"none"}]
  /\ told \in [Clients -> {"none", "error", "failed", "abort", "done", "quit"}]
  /\ ran \in [Clients -> BOOLEAN] /\ cut \in [Clients -> BOOLEAN]

\* A port is one process's, and a process that serves has both.
PortInv ==
  /\ \A p, q \in Procs : \A port \in Ports : Listens(p, port) /\ Listens(q, port) => p = q
  /\ \A p \in Procs : pc[p] = "serve" => got[p] = Ports

\* The listener has a connection and its buffer only inside the handler.
StageInv ==
  \A p \in Procs :
    /\ stage[p] = "accept" => cur[p] = Nobody /\ rd[p].n = 0
    /\ stage[p] # "accept" => cur[p] \in Conns

\* A connection is held by the process it was made to, in one place.
HeldInv ==
  \A p \in Procs :
    /\ cur[p] \in Conns => link[cur[p]].to = p /\ ~ link[cur[p]].fin
    /\ \A i \in 1 .. Len(backlog[p]) :
         /\ link[backlog[p][i]].to = p /\ ~ link[backlog[p][i]].fin
         /\ backlog[p][i] # cur[p]
    /\ \A i, j \in 1 .. Len(backlog[p]) : backlog[p][i] = backlog[p][j] => i = j

\* The request of a client whose request was neither done nor cut: on its way
\* in one piece, or in the buffer; and there is no answer.
Waits(c) ==
  /\ told[c] # "done" /\ cl[c] # "text"
  /\ cl[c] = "recv" => link[c].down = << >>
  /\ \A p \in Procs : \A i \in 1 .. Len(backlog[p]) :
       backlog[p][i] = c => link[c].up = <<new_ipcmsg(req[c], Zero)>>
  /\ \A p \in Procs : cur[p] = c =>
       \/ stage[p] = "read" /\ rd[p].n = 0 /\ link[c].up = <<new_ipcmsg(req[c], Zero)>>
       \/ /\ stage[p] \in {"read", "wait"} /\ rd[p].n = NCells
          /\ rd[p].buf[1] = Magic /\ rd[p].buf[2] = req[c]

RequestInv == \A c \in Clients : ran[c] \/ cut[c] \/ Waits(c)

----------------------------------------------------------------------------
(***************************************************************************)
(* One daemon serves.                                                      *)
(***************************************************************************)

DaemonInv == DaemonType /\ PortInv

\* The processes take and close ports; the rest of the program does not.
LEMMA DaemonStep == DaemonInv /\ [Next]_vars => DaemonInv'
  <1> SUFFICES ASSUME DaemonInv, [Next]_vars PROVE DaemonInv'
    OBVIOUS
  <1> USE DEF DaemonInv, DaemonType, PortInv, Listens, Ports, Places, Starting, Listening,
              daemon, Goto
  <1>1. CASE UNCHANGED <<pc, got>>
    BY <1>1
  <1>2. ASSUME NEW p \in Procs, NEW to \in Places \ {"serve"},
               UNCHANGED got, pc' = [pc EXCEPT ![p] = to]
        PROVE  DaemonInv'
    BY <1>2
  <1>3. ASSUME NEW p \in Procs, Launch(p) PROVE DaemonInv'
    <2>1. CASE Fork(p) BY <2>1, <1>2 DEF Fork
    <2>2. ASSUME NEW port \in Ports, NEW from, NEW to \in Places \ {"serve"},
                 NEW next \in Places \ {"serve"}, Bind(p, port, from, to, next)
          PROVE  DaemonInv'
      BY <2>2, <1>2 DEF Bind
    <2>3. ASSUME NEW port \in Ports, NEW from \in Places \ {"serve"},
                 NEW next \in Places \ {"serve"}, Listen(p, port, from, next)
          PROVE  DaemonInv'
      <3>1. DaemonType'
        BY <2>3 DEF Listen
      <3>2. CASE Taken(port)
        <4>1. \A q \in Procs : got'[q] = got[q]
          BY <2>3, <3>2 DEF Listen
        <4> QED BY <2>3, <3>1, <4>1 DEF Listen
      <3>3. CASE ~ Taken(port)
        <4>1. \A q \in Procs : got'[q] = IF q = p THEN got[p] \cup {port} ELSE got[q]
          BY <2>3, <3>3 DEF Listen
        <4>2. \A q \in Procs : port \notin got[q]
          BY <3>3 DEF Taken
        <4>3. \A q, r \in Procs : \A y \in Ports : y \in got'[q] /\ y \in got'[r] => q = r
          BY <4>1, <4>2
        <4>4. \A q \in Procs : pc'[q] = "serve" => q # p /\ pc[q] = "serve"
          BY <2>3 DEF Listen
        <4> QED BY <3>1, <4>1, <4>3, <4>4
      <3> QED BY <3>2, <3>3
    <2>4. CASE Check(p)
      <3>1. pc' = [pc EXCEPT ![p] = IF got[p] = Ports THEN "serve" ELSE "stuck"] /\ got' = got
        BY <2>4 DEF Check, ServerOk
      <3> QED BY <3>1
    <2>5. ASSUME NEW port \in Ports, NEW to \in Places \ {"serve"}, NEW from \in {"shut", "shut_more"},
                 Goto(p, from, to), Close(p, port)
          PROVE  DaemonInv'
      <3>1. pc' = [pc EXCEPT ![p] = to] /\ got' = [got EXCEPT ![p] = @ \ {port}]
        BY <2>5 DEF Close
      <3>2. \A q \in Procs : got'[q] \subseteq got[q] /\ (q # p => got'[q] = got[q])
        BY <3>1
      <3>3. \A q \in Procs : pc'[q] = "serve" => q # p /\ pc[q] = "serve"
        BY <3>1
      <3>4. DaemonType'
        BY <3>1
      <3> QED BY <3>2, <3>3, <3>4
    <2>6. CASE CloseFirst(p)
      BY <2>5, <2>6 DEF CloseFirst, CloseOrder
    <2>7. CASE CloseSecond(p)
      BY <2>5, <2>7 DEF CloseSecond, CloseOrder
    <2>8. CASE Exit(p) BY <2>8, <1>2 DEF Exit
    <2>9. CASE BindLazy(p) BY <2>2, <2>9 DEF BindLazy
    <2>10. CASE BindImmd(p) BY <2>2, <2>10 DEF BindImmd
    <2>11. CASE ListenLazy(p) BY <2>3, <2>11 DEF ListenLazy
    <2>12. CASE ListenImmd(p) BY <2>3, <2>12 DEF ListenImmd
    <2> QED
      BY <1>3, <2>1, <2>4, <2>6, <2>7, <2>8, <2>9, <2>10, <2>11, <2>12 DEF Launch
  <1>4. ASSUME NEW p \in Procs, Handle(p) PROVE DaemonInv'
    <2>1. CASE Answer(p)
      <3>1. /\ got' = got
            /\ pc' = pc \/ pc' = [pc EXCEPT ![p] = "shut"]
        BY <2>1 DEF Answer
      <3> QED BY <3>1, <1>1, <1>2
    <2>2. CASE ~ Answer(p)
      BY <1>4, <2>2, <1>1 DEF Handle, Accept, Read, GiveUp, Run, AnswerStatus, AnswerText
    <2> QED BY <2>1, <2>2
  <1>5. ASSUME NEW p \in Procs, Stopped(p) PROVE DaemonInv'
    BY <1>5, <1>1 DEF Stopped
  <1>6. CASE User
    <2>1. ASSUME NEW p \in Procs, ProbeUp(p) PROVE DaemonInv' BY <2>1, <1>1 DEF ProbeUp
    <2>2. ASSUME NEW p \in Procs, ProbeDown(p) PROVE DaemonInv' BY <2>2, <1>2 DEF ProbeDown
    <2>3. ASSUME NEW p \in Procs, Kill(p) \/ BrokenPipe(p) PROVE DaemonInv'
      BY <2>3, <1>2 DEF Kill, BrokenPipe, Die
    <2>4. ASSUME NEW c \in Clients,
                 ConnectFails(c) \/ Quit(c) \/ \E r \in Asked : Connect(c, r)
          PROVE  DaemonInv'
      BY <2>4, <1>1 DEF ConnectFails, Quit, Connect
    <2> QED BY <1>6, <2>1, <2>2, <2>3, <2>4 DEF User
  <1>7. ASSUME NEW c \in Clients, Receive(c) PROVE DaemonInv'
    BY <1>7, <1>1 DEF Receive, Recv, RecvEnd, RecvText
  <1>8. CASE UNCHANGED vars
    BY <1>8, <1>1 DEF vars
  <1> QED
    BY <1>3, <1>4, <1>5, <1>6, <1>7, <1>8 DEF Next

\* Of any number of `startup` commands that run at once, and of daemons that
\* are killed or shut down meanwhile, at most one serves, with both ports.
THEOREM OneDaemonServes == Spec => []OneServes
  <1>1. Init => DaemonInv
    BY DEF Init, DaemonInv, DaemonType, PortInv, Listens, Ports, Places
  <1>2. DaemonInv /\ [Next]_vars => DaemonInv'
    BY DaemonStep
  <1>3. DaemonInv => OneServes
    BY DEF DaemonInv, DaemonType, PortInv, OneServes, Listens, Ports
  <1> QED
    BY <1>1, <1>2, <1>3, PTL DEF Spec

----------------------------------------------------------------------------
(***************************************************************************)
(* Connections and messages.                                               *)
(***************************************************************************)

LEMMA NoLinkType == NoLink \in Link
  <1>1. << >> \in Seq(Chunk)
    OBVIOUS
  <1> QED BY <1>1 DEF NoLink, Link

\* The server closes its end.
LEMMA ClosedType ==
  ASSUME NEW l \in Link
  PROVE  /\ Closed(l) \in Link
         /\ Closed(l).down = l.down \/ Closed(l).down = << >>
  BY NoLinkType DEF Closed, Link, NoLink

LEMMA MessageType ==
  ASSUME NEW r \in Cells, NEW e \in Cells
  PROVE  new_ipcmsg(r, e) \in Chunk /\ Len(new_ipcmsg(r, e)) = 4
  <1>1. Magic \in Cells /\ Zero \in Cells
    BY DEF Cells
  <1>2. ASSUME NEW S, NEW a \in S, NEW b \in S, NEW c \in S, NEW d \in S
        PROVE  <<a, b, c, d>> \in Seq(S) /\ Len(<<a, b, c, d>>) = 4
    OBVIOUS
  <1> QED BY <1>1, <1>2 DEF new_ipcmsg, Chunk

LEMMA CutsType ==
  ASSUME NEW m \in Chunk, NEW w \in Cuts(m)
  PROVE  w \in Seq(Chunk) /\ Len(w) = 2
  <1>1. PICK k \in 1 .. Len(m) - 1 : w = <<SubSeq(m, 1, k), SubSeq(m, k + 1, Len(m))>>
    BY DEF Cuts
  <1>2. SubSeq(m, 1, k) \in Chunk /\ SubSeq(m, k + 1, Len(m)) \in Chunk
    BY SubSeqProperties DEF Chunk
  <1> QED BY <1>1, <1>2

\* What is sent goes behind what is under way; nothing else changes.
LEMMA OutEffect ==
  ASSUME NEW l \in Link, NEW m \in Chunk, NEW k \in Out(l, m)
  PROVE  /\ k \in Link
         /\ k.to = l.to /\ k.up = l.up /\ k.gone = l.gone /\ k.fin = l.fin
  <1>1. PICK w \in Seq(Chunk) : k = l \/ k = [l EXCEPT !.down = @ \o w]
    <2>1. <<m>> \in Seq(Chunk)
      OBVIOUS
    <2>2. CASE l.gone
      BY <2>1, <2>2 DEF Out
    <2>3. CASE ~ l.gone
      BY <2>1, <2>3, CutsType DEF Out
    <2> QED BY <2>2, <2>3
  <1>2. l.down \o w \in Seq(Chunk)
    BY ConcatProperties DEF Link
  <1> QED BY <1>1, <1>2 DEF Link

\* A request that was not cut arrives in one piece.
LEMMA SentWhole ==
  ASSUME NEW m \in Chunk, NEW k \in Out(NoLink, m)
  PROVE  /\ k.down \in Seq(Chunk)
         /\ Len(k.down) > 1 \/ k.down = <<m>>
  <1>1. k \in Link
    BY OutEffect, NoLinkType
  <1>2. PICK w \in Cuts(m) \cup {<<m>>} : k = [NoLink EXCEPT !.down = @ \o w]
    BY DEF Out, NoLink
  <1>3. w \in Seq(Chunk) /\ (Len(w) = 2 \/ w = <<m>>)
    <2>1. <<m>> \in Seq(Chunk)
      OBVIOUS
    <2> QED BY <1>2, <2>1, CutsType
  <1>4. k.down = w
    <2>1. k.down = << >> \o w
      BY <1>2 DEF NoLink
    <2> QED BY <1>3, <2>1, ConcatEmptySeq
  <1>5. CASE Len(w) = 2 BY <1>3, <1>4, <1>5
  <1>6. CASE w = <<m>> BY <1>3, <1>4, <1>6
  <1> QED BY <1>3, <1>5, <1>6

\* What a read leaves in the buffer.
LEMMA ReadIntoType ==
  ASSUME NEW b \in [1 .. NCells -> Cells], NEW ch \in Chunk
  PROVE  ReadInto(b, ch) \in [1 .. NCells -> Cells]
  BY DEF ReadInto, Chunk

----------------------------------------------------------------------------
(***************************************************************************)
(* The way of a request.                                                   *)
(***************************************************************************)

FlowType == ListenerType /\ LinkType /\ ClientType
FlowInv == FlowType /\ StageInv /\ HeldInv /\ RequestInv

\* A connection is held once: by the process it was made to, in its backlog
\* or by its handler.
LEMMA HeldOnce ==
  ASSUME FlowInv, NEW p \in Procs, NEW q \in Procs
  PROVE  /\ cur[p] \in Conns /\ cur[q] = cur[p] => q = p
         /\ \A i \in 1 .. Len(backlog[q]) :
              /\ backlog[q][i] \in Conns
              /\ cur[p] \in Conns => backlog[q][i] # cur[p]
              /\ \A j \in 1 .. Len(backlog[p]) : backlog[p][j] = backlog[q][i] => q = p
  <1>1. cur[p] \in Conns /\ cur[q] = cur[p] => q = p
    BY DEF FlowInv, HeldInv
  <1>2. ASSUME NEW i \in 1 .. Len(backlog[q])
        PROVE  /\ backlog[q][i] \in Conns
               /\ cur[p] \in Conns => backlog[q][i] # cur[p]
               /\ \A j \in 1 .. Len(backlog[p]) : backlog[p][j] = backlog[q][i] => q = p
    <2>1. backlog[q] \in Seq(Conns)
      BY DEF FlowInv, FlowType, ListenerType
    <2>2. backlog[q][i] \in Conns
      BY <2>1
    <2> QED BY <2>2 DEF FlowInv, HeldInv
  <1> QED BY <1>1, <1>2

\* A connection that does not exist is held by nobody.
LEMMA HeldExists ==
  ASSUME FlowInv, NEW x \in Conns, link[x] = NoLink, NEW q \in Procs
  PROVE  cur[q] # x /\ \A i \in 1 .. Len(backlog[q]) : backlog[q][i] # x
  BY DEF FlowInv, HeldInv, NoLink

\* The end of a handler.
LEMMA FinishKeeps ==
  ASSUME FlowInv, NEW p \in Procs, stage[p] # "accept", NEW l \in Link, Finish(p, l),
         UNCHANGED <<backlog, cl, req, told, ran>>,
         cut' \in [Clients -> BOOLEAN], \A c \in Clients : cut[c] => cut'[c],
         \A c \in Clients : cur[p] = c =>
           ran[c] \/ cut[c] \/ l.down = link[c].down
  PROVE  FlowInv'
  <1> USE DEF FlowInv, FlowType
  <1>1. cur[p] \in Conns
    BY DEF StageInv
  <1>2. /\ \A q \in Procs : /\ cur'[q] = IF q = p THEN Nobody ELSE cur[q]
                            /\ stage'[q] = IF q = p THEN "accept" ELSE stage[q]
                            /\ rd'[q] = IF q = p THEN NoRead ELSE rd[q]
        /\ \A x \in Conns : link'[x] = IF x = cur[p] THEN Closed(l) ELSE link[x]
    BY <1>1 DEF Finish, ListenerType, LinkType
  <1>3. FlowType'
    <2>1. NoRead \in Buffer
      BY DEF NoRead, Buffer, Cells
    <2>2. ListenerType'
      BY <2>1 DEF Finish, ListenerType
    <2>3. LinkType'
      BY <1>1, ClosedType DEF Finish, LinkType
    <2>4. ClientType'
      BY DEF ClientType
    <2> QED BY <2>2, <2>3, <2>4
  <1>4. StageInv'
    BY <1>2 DEF StageInv, NoRead
  <1>5. HeldInv'
    <2>1. ASSUME NEW q \in Procs, cur'[q] \in Conns
          PROVE  cur'[q] = cur[q] /\ link'[cur[q]] = link[cur[q]]
      BY <1>1, <1>2, <2>1, HeldOnce DEF Conns
    <2>2. ASSUME NEW q \in Procs, NEW i \in 1 .. Len(backlog[q])
          PROVE  link'[backlog[q][i]] = link[backlog[q][i]] /\ backlog[q][i] # cur'[q]
      <3>1. backlog[q][i] \in Conns /\ backlog[q][i] # cur[p] /\ backlog[q][i] # cur[q]
        BY <1>1, HeldOnce DEF HeldInv
      <3> QED BY <1>2, <3>1 DEF Conns
    <2> QED BY <2>1, <2>2 DEF HeldInv
  <1>6. RequestInv'
    <2> SUFFICES ASSUME NEW c \in Clients, ~ ran'[c], ~ cut'[c] PROVE Waits(c)'
      BY DEF RequestInv
    <2>1. Waits(c) /\ ~ cut[c] /\ ~ ran[c]
      BY DEF RequestInv
    <2>2. c \in Conns
      BY DEF Conns
    <2>3. cl[c] = "recv" => link'[c].down = << >>
      BY <1>2, <2>1, <2>2, ClosedType DEF Waits
    <2>4. ASSUME NEW q \in Procs, cur'[q] = c
          PROVE  link'[c] = link[c] /\ cur[q] = c /\ stage'[q] = stage[q] /\ rd'[q] = rd[q]
      BY <1>1, <1>2, <2>2, <2>4, HeldOnce DEF Conns
    <2>5. ASSUME NEW q \in Procs, NEW i \in 1 .. Len(backlog[q]), backlog[q][i] = c
          PROVE  link'[c] = link[c]
      BY <1>1, <1>2, <2>2, <2>5, HeldOnce
    <2> QED BY <2>1, <2>3, <2>4, <2>5 DEF Waits
  <1> QED BY <1>3, <1>4, <1>5, <1>6

\* The end of a command.
LEMMA HangupKeeps ==
  ASSUME FlowInv, NEW c \in Clients,
         NEW what \in {"failed", "abort", "done", "quit"},
         Hangup(c), Leave(c, what), UNCHANGED <<listener, ran, cut>>,
         what = "done" => ran[c] \/ cut[c]
  PROVE  FlowInv'
  <1> USE DEF FlowInv, FlowType, listener
  <1>1. c \in Conns
    BY DEF Conns
  <1>2. link[c] \in Link
    BY <1>1 DEF LinkType
  <1>3. \A x \in Conns : x # c => link'[x] = link[x]
    BY <1>1 DEF Hangup, LinkType
  <1>4. ~ link[c].fin =>
          /\ link'[c].to = link[c].to /\ ~ link'[c].fin /\ link'[c].up = link[c].up
    BY <1>1, <1>2 DEF Hangup, LinkType, Link
  <1>5. link'[c] \in Link
    <2>1. << >> \in Seq(Chunk)
      OBVIOUS
    <2> QED BY <1>1, <1>2, <2>1, NoLinkType DEF Hangup, LinkType, Link
  <1>6. FlowType'
    <2>1. LinkType'
      BY <1>1, <1>5 DEF Hangup, LinkType
    <2>2. ClientType'
      BY DEF ClientType, Leave
    <2>3. ListenerType'
      BY DEF ListenerType
    <2> QED BY <2>1, <2>2, <2>3
  <1>7. StageInv'
    BY DEF StageInv
  <1>8. HeldInv'
    <2>1. ASSUME NEW q \in Procs, cur[q] \in Conns
          PROVE  link'[cur[q]].to = q /\ ~ link'[cur[q]].fin
      BY <1>3, <1>4, <2>1 DEF HeldInv
    <2>2. ASSUME NEW q \in Procs, NEW i \in 1 .. Len(backlog[q])
          PROVE  link'[backlog[q][i]].to = q /\ ~ link'[backlog[q][i]].fin
      <3>1. backlog[q][i] \in Conns
        BY HeldOnce
      <3> QED BY <1>3, <1>4, <3>1 DEF HeldInv
    <2> QED BY <2>1, <2>2 DEF HeldInv
  <1>9. RequestInv'
    <2> SUFFICES ASSUME NEW d \in Clients, ~ ran[d], ~ cut[d] PROVE Waits(d)'
      BY DEF RequestInv
    <2>1. Waits(d) /\ d \in Conns
      BY DEF RequestInv, Conns
    <2>2. CASE d # c
      <3>1. link'[d] = link[d] /\ told'[d] = told[d] /\ cl'[d] = cl[d] /\ req'[d] = req[d]
        BY <1>3, <2>1, <2>2 DEF Leave, ClientType
      <3> QED BY <2>1, <3>1 DEF Waits
    <2>3. CASE d = c
      <3>1. told'[c] # "done" /\ cl'[c] = "idle" /\ req'[c] = req[c]
        BY <2>3 DEF Leave, ClientType
      <3>2. ASSUME NEW q \in Procs,
                   cur[q] = c \/ \E i \in 1 .. Len(backlog[q]) : backlog[q][i] = c
            PROVE  link'[c].up = link[c].up
        BY <1>1, <1>4, <3>2 DEF HeldInv
      <3> QED BY <2>1, <2>3, <3>1, <3>2 DEF Waits
    <2> QED BY <2>2, <2>3
  <1> QED BY <1>6, <1>7, <1>8, <1>9

\* A process that ends at once.
LEMMA DieKeeps ==
  ASSUME FlowInv, NEW p \in Procs, Die(p)
  PROVE  FlowInv'
  <1> USE DEF FlowInv, FlowType
  <1>1. /\ \A q \in Procs : /\ cur'[q] = IF q = p THEN Nobody ELSE cur[q]
                            /\ stage'[q] = IF q = p THEN "accept" ELSE stage[q]
                            /\ rd'[q] = IF q = p THEN NoRead ELSE rd[q]
        /\ \A x \in Conns : link'[x] = IF x = cur[p] THEN Closed(link[x]) ELSE link[x]
        /\ UNCHANGED <<backlog, cl, req, told, ran, cut>>
    BY DEF Die, ListenerType, client, history
  <1>2. FlowType'
    <2>1. NoRead \in Buffer
      BY DEF NoRead, Buffer, Cells
    <2>2. ListenerType'
      BY <2>1 DEF Die, ListenerType
    <2>3. LinkType'
      BY ClosedType DEF Die, LinkType
    <2>4. ClientType'
      BY <1>1 DEF ClientType
    <2> QED BY <2>2, <2>3, <2>4
  <1>3. StageInv'
    BY <1>1 DEF StageInv, NoRead
  <1>4. HeldInv'
    <2>1. ASSUME NEW q \in Procs, cur'[q] \in Conns
          PROVE  cur'[q] = cur[q] /\ link'[cur[q]] = link[cur[q]]
      BY <1>1, <2>1, HeldOnce DEF Conns
    <2>2. ASSUME NEW q \in Procs, NEW i \in 1 .. Len(backlog[q])
          PROVE  link'[backlog[q][i]] = link[backlog[q][i]] /\ backlog[q][i] # cur'[q]
      <3>1. backlog[q][i] \in Conns /\ backlog[q][i] # cur[p] /\ backlog[q][i] # cur[q]
        BY HeldOnce DEF HeldInv
      <3> QED BY <1>1, <3>1 DEF Conns
    <2> QED BY <1>1, <2>1, <2>2 DEF HeldInv
  <1>5. RequestInv'
    <2> SUFFICES ASSUME NEW c \in Clients, ~ ran[c], ~ cut[c] PROVE Waits(c)'
      BY <1>1 DEF RequestInv
    <2>1. Waits(c) /\ c \in Conns
      BY DEF RequestInv, Conns
    <2>2. cl[c] = "recv" => link'[c].down = << >>
      BY <1>1, <2>1, ClosedType DEF Waits, LinkType
    <2>3. ASSUME NEW q \in Procs, cur'[q] = c
          PROVE  link'[c] = link[c] /\ cur[q] = c /\ stage'[q] = stage[q] /\ rd'[q] = rd[q]
      BY <1>1, <2>1, <2>3, HeldOnce DEF Conns
    <2>4. ASSUME NEW q \in Procs, NEW i \in 1 .. Len(backlog[q]), backlog[q][i] = c
          PROVE  link'[c] = link[c]
      BY <1>1, <2>1, <2>4, HeldOnce
    <2> QED BY <1>1, <2>1, <2>2, <2>3, <2>4 DEF Waits
  <1> QED BY <1>2, <1>3, <1>4, <1>5

\* A listening socket is closed, with the connections that wait on it.
LEMMA CloseKeeps ==
  ASSUME FlowInv, NEW p \in Procs, NEW port, Close(p, port)
  PROVE  FlowInv'
  <1> USE DEF FlowInv, FlowType
  <1>1. UNCHANGED <<stage, cur, rd, cl, req, told, ran, cut>>
    BY DEF Close, client, history
  <1>2. CASE UNCHANGED <<backlog, link>>
    BY <1>1, <1>2 DEF ListenerType, LinkType, ClientType, StageInv, HeldInv, RequestInv, Waits
  <1>3. CASE /\ backlog' = [backlog EXCEPT ![p] = << >>]
             /\ link' = [x \in Conns |->
                           IF x \in Range(backlog[p]) THEN Closed(link[x]) ELSE link[x]]
    <2>1. backlog'[p] = << >> /\ \A q \in Procs : q # p => backlog'[q] = backlog[q]
      BY <1>3 DEF ListenerType
    <2>2. \A x \in Range(backlog[p]) : \E i \in 1 .. Len(backlog[p]) : x = backlog[p][i]
      BY DEF Range, ListenerType
    <2>3. ASSUME NEW q \in Procs, cur[q] \in Conns
          PROVE  link'[cur[q]] = link[cur[q]]
      BY <1>3, <2>2, <2>3, HeldOnce
    <2>4. ASSUME NEW q \in Procs, NEW i \in 1 .. Len(backlog'[q])
          PROVE  /\ q # p /\ backlog'[q] = backlog[q]
                 /\ link'[backlog[q][i]] = link[backlog[q][i]]
      <3>1. q # p /\ backlog'[q] = backlog[q]
        BY <2>1
      <3>2. backlog[q][i] \in Conns /\ backlog[q][i] \notin Range(backlog[p])
        BY <3>1, <2>2, HeldOnce
      <3> QED BY <1>3, <3>1, <3>2
    <2>5. FlowType'
      <3>1. << >> \in Seq(Conns)
        OBVIOUS
      <3>2. ListenerType'
        BY <1>1, <1>3, <3>1 DEF ListenerType
      <3>3. LinkType'
        BY <1>3, ClosedType DEF LinkType
      <3>4. ClientType'
        BY <1>1 DEF ClientType
      <3> QED BY <3>2, <3>3, <3>4
    <2>6. StageInv'
      BY <1>1 DEF StageInv
    <2>7. HeldInv'
      BY <1>1, <2>3, <2>4 DEF HeldInv
    <2>8. RequestInv'
      <3> SUFFICES ASSUME NEW c \in Clients, ~ ran[c], ~ cut[c] PROVE Waits(c)'
        BY <1>1 DEF RequestInv
      <3>1. Waits(c) /\ c \in Conns
        BY DEF RequestInv, Conns
      <3>2. cl[c] = "recv" => link'[c].down = << >>
        BY <1>3, <3>1, ClosedType DEF Waits, LinkType
      <3> QED BY <1>1, <2>3, <2>4, <3>1, <3>2 DEF Waits
    <2> QED BY <2>5, <2>6, <2>7, <2>8
  <1> QED BY <1>2, <1>3 DEF Close

\* A connection is made: it joins the backlog of one process.
LEMMA NewConnection ==
  ASSUME FlowInv, NEW x \in Conns, link[x] = NoLink, NEW d \in Procs,
         NEW l \in Link, l.to = d, ~ l.fin,
         backlog' = [backlog EXCEPT ![d] = Append(@, x)],
         link' = [link EXCEPT ![x] = l],
         UNCHANGED <<stage, cur, rd>>
  PROVE  /\ ListenerType' /\ LinkType' /\ StageInv' /\ HeldInv'
         /\ \A y \in Conns : link'[y] = IF y = x THEN l ELSE link[y]
         /\ \A q \in Procs : \A i \in 1 .. Len(backlog'[q]) :
              \/ backlog'[q][i] = x
              \/ i \in 1 .. Len(backlog[q]) /\ backlog'[q][i] = backlog[q][i]
  <1> USE DEF FlowInv, FlowType
  <1>1. \A y \in Conns : link'[y] = IF y = x THEN l ELSE link[y]
    BY DEF LinkType
  <1>2. backlog[d] \in Seq(Conns) /\ backlog'[d] = Append(backlog[d], x)
    BY DEF ListenerType
  <1>3. \A q \in Procs : q # d => backlog'[q] = backlog[q]
    BY DEF ListenerType
  <1>4. /\ Len(backlog'[d]) = Len(backlog[d]) + 1 /\ Len(backlog[d]) \in Nat
        /\ backlog'[d][Len(backlog[d]) + 1] = x
        /\ \A i \in 1 .. Len(backlog[d]) : backlog'[d][i] = backlog[d][i]
    BY <1>2
  <1>5. Append(backlog[d], x) \in Seq(Conns)
    BY <1>2
  <1>6. ListenerType' /\ LinkType'
    BY <1>5 DEF ListenerType, LinkType
  <1>7. StageInv'
    BY DEF StageInv
  <1>8. ASSUME NEW q \in Procs, NEW i \in 1 .. Len(backlog'[q])
        PROVE  \/ q = d /\ i = Len(backlog[d]) + 1 /\ backlog'[q][i] = x
               \/ i \in 1 .. Len(backlog[q]) /\ backlog'[q][i] = backlog[q][i]
    BY <1>3, <1>4, <1>8
  <1>9. \A q \in Procs : cur[q] # x /\ \A i \in 1 .. Len(backlog[q]) : backlog[q][i] # x
    BY HeldExists
  <1>10. \A q \in Procs : \A i \in 1 .. Len(backlog[q]) : backlog[q][i] \in Conns
    BY HeldOnce
  <1>11. HeldInv'
    <2>1. ASSUME NEW q \in Procs, cur[q] \in Conns
          PROVE  link'[cur[q]] = link[cur[q]]
      BY <1>1, <1>9, <2>1
    <2>2. ASSUME NEW q \in Procs, NEW i \in 1 .. Len(backlog'[q])
          PROVE  /\ link'[backlog'[q][i]].to = q /\ ~ link'[backlog'[q][i]].fin
                 /\ backlog'[q][i] # cur[q]
      <3>1. CASE q = d /\ backlog'[q][i] = x
        BY <1>1, <1>9, <3>1
      <3>2. CASE i \in 1 .. Len(backlog[q]) /\ backlog'[q][i] = backlog[q][i]
        BY <1>1, <1>9, <1>10, <3>2 DEF HeldInv
      <3> QED BY <1>8, <3>1, <3>2
    <2>3. ASSUME NEW q \in Procs, NEW i \in 1 .. Len(backlog'[q]), NEW j \in 1 .. Len(backlog'[q]),
                 backlog'[q][i] = backlog'[q][j]
          PROVE  i = j
      BY <1>8, <1>9, <2>3 DEF HeldInv
    <2> QED BY <2>1, <2>2, <2>3 DEF HeldInv
  <1> QED BY <1>1, <1>6, <1>7, <1>8, <1>11

LEMMA ProbeUpKeeps ==
  ASSUME FlowInv, NEW p \in Procs, ProbeUp(p)
  PROVE  FlowInv'
  <1> USE DEF FlowInv, FlowType
  <1>1. PICK d \in Procs :
          /\ backlog' = [backlog EXCEPT ![d] = Append(@, p)]
          /\ link' = [link EXCEPT ![p] = [NoLink EXCEPT !.to = d, !.gone = TRUE]]
    BY DEF ProbeUp
  <1>2. UNCHANGED <<stage, cur, rd, cl, req, told, ran, cut>> /\ link[p] = NoLink
    BY DEF ProbeUp, client, history
  <1>3. p \in Conns /\ \A c \in Clients : c \in Conns /\ c # p
    BY DEF Conns
  <1> DEFINE l == [NoLink EXCEPT !.to = d, !.gone = TRUE]
  <1>4. l \in Link /\ l.to = d /\ ~ l.fin
    BY NoLinkType DEF NoLink, Link
  <1> HIDE DEF l
  <1>5. /\ ListenerType' /\ LinkType' /\ StageInv' /\ HeldInv'
        /\ \A y \in Conns : link'[y] = IF y = p THEN l ELSE link[y]
        /\ \A q \in Procs : \A i \in 1 .. Len(backlog'[q]) :
             \/ backlog'[q][i] = p
             \/ i \in 1 .. Len(backlog[q]) /\ backlog'[q][i] = backlog[q][i]
    <2>1. link' = [link EXCEPT ![p] = l]
      BY <1>1 DEF l
    <2> QED BY <1>1, <1>2, <1>3, <1>4, <2>1, NewConnection
  <1>6. ClientType'
    BY <1>2 DEF ClientType
  <1>7. RequestInv'
    BY <1>2, <1>3, <1>5 DEF RequestInv, Waits
  <1> QED BY <1>5, <1>6, <1>7

\* A client that connects starts afresh: its request is on its way, whole or
\* cut.
LEMMA ConnectKeeps ==
  ASSUME FlowInv, NEW c \in Clients, NEW r \in Asked, Connect(c, r)
  PROVE  FlowInv'
  <1> USE DEF FlowInv, FlowType
  <1> DEFINE m == new_ipcmsg(r, Zero)
  <1>1. PICK d \in Procs, k \in Out(NoLink, m) :
          /\ backlog' = [backlog EXCEPT ![d] = Append(@, c)]
          /\ link' = [link EXCEPT ![c] = [NoLink EXCEPT !.to = d, !.up = k.down]]
          /\ cut' = [cut EXCEPT ![c] = Len(k.down) > 1]
    BY DEF Connect
  <1>2. /\ UNCHANGED <<stage, cur, rd>> /\ link[c] = NoLink
        /\ cl' = [cl EXCEPT ![c] = "recv"] /\ req' = [req EXCEPT ![c] = r]
        /\ told' = [told EXCEPT ![c] = "none"] /\ ran' = [ran EXCEPT ![c] = FALSE]
    BY DEF Connect
  <1>3. c \in Conns /\ Clients \subseteq Conns
    BY DEF Conns
  <1>4. m \in Chunk
    <2>1. r \in Cells /\ Zero \in Cells
      BY DEF Cells
    <2> QED BY <2>1, MessageType
  <1>5. k.down \in Seq(Chunk) /\ (Len(k.down) > 1 \/ k.down = <<m>>)
    BY <1>4, SentWhole
  <1> DEFINE l == [NoLink EXCEPT !.to = d, !.up = k.down]
  <1>6. l \in Link /\ l.to = d /\ ~ l.fin /\ l.up = k.down /\ l.down = << >>
    BY <1>5, NoLinkType DEF NoLink, Link
  <1>7. link' = [link EXCEPT ![c] = l]
    BY <1>1
  <1> HIDE DEF l, m
  <1>8. /\ ListenerType' /\ LinkType' /\ StageInv' /\ HeldInv'
        /\ \A y \in Conns : link'[y] = IF y = c THEN l ELSE link[y]
        /\ \A q \in Procs : \A i \in 1 .. Len(backlog'[q]) :
             \/ backlog'[q][i] = c
             \/ i \in 1 .. Len(backlog[q]) /\ backlog'[q][i] = backlog[q][i]
    BY <1>1, <1>2, <1>3, <1>6, <1>7, NewConnection
  <1>9. ClientType'
    <2>1. (Len(k.down) > 1) \in BOOLEAN
      OBVIOUS
    <2> QED BY <1>1, <1>2, <2>1 DEF ClientType
  <1>10. RequestInv'
    <2> SUFFICES ASSUME NEW e \in Clients, ~ ran'[e], ~ cut'[e] PROVE Waits(e)'
      BY DEF RequestInv
    <2>1. CASE e # c
      <3>1. /\ ~ ran[e] /\ ~ cut[e] /\ cl'[e] = cl[e] /\ req'[e] = req[e] /\ told'[e] = told[e]
        BY <1>1, <1>2, <2>1 DEF ClientType
      <3>2. Waits(e)
        BY <3>1 DEF RequestInv
      <3> QED BY <1>2, <1>3, <1>8, <2>1, <3>1, <3>2 DEF Waits
    <2>2. CASE e = c
      <3>1. cl'[c] = "recv" /\ req'[c] = r /\ told'[c] = "none"
        BY <1>2 DEF ClientType
      <3>2. ~ (Len(k.down) > 1)
        BY <1>1, <2>2 DEF ClientType
      <3>3. link'[c].up = <<new_ipcmsg(r, Zero)>> /\ link'[c].down = << >>
        BY <1>3, <1>5, <1>6, <1>8, <3>2 DEF m
      <3>4. \A q \in Procs : cur'[q] # c
        BY <1>2, <1>3, HeldExists
      <3> QED BY <2>2, <3>1, <3>3, <3>4 DEF Waits
    <2> QED BY <2>1, <2>2
  <1> QED BY <1>8, <1>9, <1>10

LEMMA ConnectFailsKeeps ==
  ASSUME FlowInv, NEW c \in Clients, ConnectFails(c)
  PROVE  FlowInv'
  <1> USE DEF FlowInv, FlowType
  <1>1. /\ UNCHANGED <<backlog, stage, cur, rd, link, req>> /\ link[c] = NoLink /\ c \in Conns
        /\ cl' = [cl EXCEPT ![c] = "idle"] /\ told' = [told EXCEPT ![c] = "error"]
        /\ ran' = [ran EXCEPT ![c] = FALSE] /\ cut' = [cut EXCEPT ![c] = FALSE]
    BY DEF ConnectFails, Leave, listener, Conns
  <1>2. FlowType' /\ StageInv' /\ HeldInv'
    BY <1>1 DEF ListenerType, LinkType, ClientType, StageInv, HeldInv
  <1>3. RequestInv'
    <2> SUFFICES ASSUME NEW e \in Clients, ~ ran'[e], ~ cut'[e] PROVE Waits(e)'
      BY DEF RequestInv
    <2>1. CASE e # c
      <3>1. ~ ran[e] /\ ~ cut[e] /\ cl'[e] = cl[e] /\ req'[e] = req[e] /\ told'[e] = told[e]
        BY <1>1, <2>1 DEF ClientType
      <3> QED BY <1>1, <3>1 DEF RequestInv, Waits
    <2>2. CASE e = c
      <3>1. cl'[c] = "idle" /\ told'[c] = "error"
        BY <1>1 DEF ClientType
      <3>2. \A q \in Procs : cur[q] # c /\ \A i \in 1 .. Len(backlog[q]) : backlog[q][i] # c
        BY <1>1, HeldExists
      <3> QED BY <1>1, <2>2, <3>1, <3>2 DEF Waits
    <2> QED BY <2>1, <2>2
  <1> QED BY <1>2, <1>3

LEMMA AcceptKeeps ==
  ASSUME FlowInv, NEW p \in Procs, Accept(p)
  PROVE  FlowInv'
  <1> USE DEF FlowInv, FlowType
  <1>1. /\ backlog[p] # << >> /\ stage[p] = "accept"
        /\ stage' = [stage EXCEPT ![p] = "read"]
        /\ cur' = [cur EXCEPT ![p] = Head(backlog[p])]
        /\ backlog' = [backlog EXCEPT ![p] = Tail(@)]
        /\ UNCHANGED <<rd, link, cl, req, told, ran, cut>>
    BY DEF Accept, Stage, client, history
  <1>2. backlog[p] \in Seq(Conns)
    BY DEF ListenerType
  <1>3. /\ Head(backlog[p]) = backlog[p][1] /\ 1 \in 1 .. Len(backlog[p])
        /\ Tail(backlog[p]) \in Seq(Conns) /\ Len(Tail(backlog[p])) = Len(backlog[p]) - 1
        /\ Len(backlog[p]) \in Nat
        /\ \A i \in 1 .. Len(backlog[p]) - 1 : Tail(backlog[p])[i] = backlog[p][i + 1]
    BY <1>1, <1>2
  <1>4. backlog[p][1] \in Conns
    BY <1>2, <1>3
  <1>5. /\ \A q \in Procs : /\ cur'[q] = IF q = p THEN backlog[p][1] ELSE cur[q]
                            /\ stage'[q] = IF q = p THEN "read" ELSE stage[q]
                            /\ q # p => backlog'[q] = backlog[q]
        /\ backlog'[p] = Tail(backlog[p])
    BY <1>1, <1>3 DEF ListenerType
  <1>6. FlowType'
    <2>1. ListenerType'
      BY <1>1, <1>3, <1>4 DEF ListenerType
    <2> QED BY <1>1, <2>1 DEF LinkType, ClientType
  <1>7. StageInv'
    BY <1>1, <1>4, <1>5 DEF StageInv
  <1>8. ASSUME NEW q \in Procs, NEW i \in 1 .. Len(backlog'[q])
        PROVE  \E j \in 1 .. Len(backlog[q]) : /\ backlog'[q][i] = backlog[q][j]
                                               /\ j = IF q = p THEN i + 1 ELSE i
    <2>1. CASE q = p
      <3>1. i \in 1 .. Len(Tail(backlog[p]))
        BY <1>5, <2>1
      <3>2. i \in 1 .. Len(backlog[p]) - 1 /\ i + 1 \in 1 .. Len(backlog[p])
        BY <1>3, <3>1
      <3> QED BY <1>3, <1>5, <2>1, <3>2
    <2>2. CASE q # p
      BY <1>5, <2>2
    <2> QED BY <2>1, <2>2
  <1>9. HeldInv'
    <2>1. ASSUME NEW q \in Procs, cur'[q] \in Conns
          PROVE  link'[cur'[q]].to = q /\ ~ link'[cur'[q]].fin
      BY <1>1, <1>3, <1>5, <2>1 DEF HeldInv
    <2>2. ASSUME NEW q \in Procs, NEW i \in 1 .. Len(backlog'[q])
          PROVE  /\ link'[backlog'[q][i]].to = q /\ ~ link'[backlog'[q][i]].fin
                 /\ backlog'[q][i] # cur'[q]
      <3>1. PICK j \in 1 .. Len(backlog[q]) : /\ backlog'[q][i] = backlog[q][j]
                                              /\ j = IF q = p THEN i + 1 ELSE i
        BY <1>8
      <3>2. q = p => j # 1
        BY <3>1
      <3>3. backlog[q][j] # cur'[q]
        BY <1>3, <1>5, <3>2 DEF HeldInv
      <3> QED BY <1>1, <3>1, <3>3 DEF HeldInv
    <2>3. ASSUME NEW q \in Procs, NEW i \in 1 .. Len(backlog'[q]), NEW j \in 1 .. Len(backlog'[q]),
                 backlog'[q][i] = backlog'[q][j]
          PROVE  i = j
      <3>1. PICK k \in 1 .. Len(backlog[q]) : /\ backlog'[q][i] = backlog[q][k]
                                              /\ k = IF q = p THEN i + 1 ELSE i
        BY <1>8
      <3>2. PICK n \in 1 .. Len(backlog[q]) : /\ backlog'[q][j] = backlog[q][n]
                                              /\ n = IF q = p THEN j + 1 ELSE j
        BY <1>8
      <3>3. \A a, b \in 1 .. Len(backlog[q]) : backlog[q][a] = backlog[q][b] => a = b
        BY DEF HeldInv
      <3>4. k = n
        BY <2>3, <3>1, <3>2, <3>3
      <3> QED BY <3>1, <3>2, <3>4
    <2> QED BY <2>1, <2>2, <2>3 DEF HeldInv
  <1>10. RequestInv'
    <2> SUFFICES ASSUME NEW c \in Clients, ~ ran[c], ~ cut[c] PROVE Waits(c)'
      BY <1>1 DEF RequestInv
    <2>1. Waits(c)
      BY DEF RequestInv
    <2>2. ASSUME NEW q \in Procs, NEW i \in 1 .. Len(backlog'[q]), backlog'[q][i] = c
          PROVE  link'[c].up = <<new_ipcmsg(req'[c], Zero)>>
      BY <1>1, <1>8, <2>1, <2>2 DEF Waits
    <2>3. ASSUME NEW q \in Procs, cur'[q] = c
          PROVE  \/ /\ stage'[q] = "read" /\ rd[q].n = 0
                    /\ link[c].up = <<new_ipcmsg(req[c], Zero)>>
                 \/ /\ stage'[q] \in {"read", "wait"} /\ rd[q].n = NCells
                    /\ rd[q].buf[1] = Magic /\ rd[q].buf[2] = req[c]
      <3>1. CASE q = p
        <4>1. rd[p].n = 0
          BY <1>1 DEF StageInv
        <4>2. link[c].up = <<new_ipcmsg(req[c], Zero)>>
          BY <1>3, <1>5, <2>1, <2>3, <3>1 DEF Waits
        <4> QED BY <1>5, <3>1, <4>1, <4>2
      <3>2. CASE q # p
        BY <1>5, <2>1, <2>3, <3>2 DEF Waits
      <3> QED BY <3>1, <3>2
    <2> QED BY <1>1, <2>1, <2>2, <2>3 DEF Waits
  <1> QED BY <1>6, <1>7, <1>9, <1>10

\* A client that is served and waits: nothing but its request was read.
LEMMA ReadKeeps ==
  ASSUME FlowInv, NEW p \in Procs, Read(p)
  PROVE  FlowInv'
  <1> USE DEF FlowInv, FlowType
  <1> DEFINE x == cur[p]
             h == Head(link[x].up)
  <1>1. /\ stage[p] = "read" /\ rd[p].n < NCells /\ link[x].up # << >>
        /\ rd' = [rd EXCEPT ![p] = [buf |-> ReadInto(@.buf, h), n |-> @.n + Len(h)]]
        /\ link' = [link EXCEPT ![x].up = Tail(@)]
        /\ UNCHANGED <<backlog, stage, cur, cl, req, told, ran, cut>>
    BY DEF Read, client, history
  <1>2. x \in Conns /\ link[x] \in Link /\ rd[p] \in Buffer
    BY <1>1 DEF StageInv, LinkType, ListenerType
  <1>3. h \in Chunk /\ Tail(link[x].up) \in Seq(Chunk) /\ Len(h) \in Nat
    <2>1. link[x].up \in Seq(Chunk)
      BY <1>2 DEF Link
    <2>2. h \in Chunk /\ Tail(link[x].up) \in Seq(Chunk)
      BY <1>1, <2>1
    <2> QED BY <2>2 DEF Chunk
  <1>4. /\ \A y \in Conns : y # x => link'[y] = link[y]
        /\ link'[x] \in Link
        /\ link'[x].to = link[x].to /\ link'[x].fin = link[x].fin /\ link'[x].down = link[x].down
    BY <1>1, <1>2, <1>3 DEF LinkType, Link
  <1>5. /\ \A q \in Procs : q # p => rd'[q] = rd[q]
        /\ rd'[p].buf = ReadInto(rd[p].buf, h) /\ rd'[p].n = rd[p].n + Len(h)
        /\ rd'[p] \in Buffer
    <2>1. ReadInto(rd[p].buf, h) \in [1 .. NCells -> Cells] /\ rd[p].n + Len(h) \in Nat
      BY <1>2, <1>3, ReadIntoType DEF Buffer
    <2>2. rd'[p] = [buf |-> ReadInto(rd[p].buf, h), n |-> rd[p].n + Len(h)]
      BY <1>1 DEF ListenerType
    <2> QED BY <1>1, <2>1, <2>2 DEF ListenerType, Buffer
  <1> HIDE DEF h
  <1>6. FlowType'
    <2>1. ListenerType'
      BY <1>1, <1>5 DEF ListenerType
    <2>2. LinkType'
      BY <1>1, <1>4 DEF LinkType
    <2> QED BY <1>1, <2>1, <2>2 DEF ClientType
  <1>7. StageInv'
    BY <1>1, <1>5 DEF StageInv
  <1>8. HeldInv'
    <2>1. \A y \in Conns : link'[y].to = link[y].to /\ link'[y].fin = link[y].fin
      BY <1>2, <1>4
    <2>2. \A q \in Procs : \A i \in 1 .. Len(backlog[q]) : backlog[q][i] \in Conns
      BY HeldOnce
    <2> QED BY <1>1, <2>1, <2>2 DEF HeldInv
  <1>9. RequestInv'
    <2> SUFFICES ASSUME NEW c \in Clients, ~ ran[c], ~ cut[c] PROVE Waits(c)'
      BY <1>1 DEF RequestInv
    <2>1. Waits(c) /\ c \in Conns
      BY DEF RequestInv, Conns
    <2>2. CASE c # x
      <3>1. link'[c] = link[c]
        BY <1>4, <2>1, <2>2
      <3>2. \A q \in Procs : cur[q] = c => rd'[q] = rd[q]
        BY <1>5, <2>2
      <3> QED BY <1>1, <2>1, <3>1, <3>2 DEF Waits
    <2>3. CASE c = x
      <3>1. link[c].up = <<new_ipcmsg(req[c], Zero)>> /\ rd[p].n = 0
        BY <1>1, <2>1, <2>3 DEF Waits, NCells
      <3>2. h = <<Magic, req[c], Zero, Zero>> /\ Len(h) = 4
        BY <2>3, <3>1 DEF h, new_ipcmsg
      <3>3. rd'[p].n = NCells /\ rd'[p].buf[1] = Magic /\ rd'[p].buf[2] = req[c]
        BY <1>5, <3>1, <3>2 DEF ReadInto, NCells
      <3>4. \A q \in Procs : cur[q] = c => q = p
        BY <1>2, <2>3, HeldOnce
      <3>5. \A q \in Procs : \A i \in 1 .. Len(backlog[q]) : backlog[q][i] # c
        BY <1>2, <2>3, HeldOnce
      <3>6. \A q \in Procs : cur'[q] = c =>
              /\ stage'[q] = "read"
              /\ rd'[q].n = NCells /\ rd'[q].buf[1] = Magic /\ rd'[q].buf[2] = req'[c]
        BY <1>1, <3>3, <3>4
      <3>7. told'[c] # "done" /\ cl'[c] # "text" /\ (cl'[c] = "recv" => link'[c].down = << >>)
        BY <1>1, <1>4, <2>1, <2>3 DEF Waits
      <3>8. \A q \in Procs : \A i \in 1 .. Len(backlog'[q]) : backlog'[q][i] # c
        BY <1>1, <3>5
      <3> QED BY <3>6, <3>7, <3>8 DEF Waits
    <2> QED BY <2>2, <2>3
  <1> QED BY <1>6, <1>7, <1>8, <1>9

\* The request of a client that waits is the one that is done.
LEMMA DoneKeeps ==
  ASSUME FlowInv, NEW p \in Procs, stage[p] \in {"read", "wait"}, rd[p].n = NCells \/ stage[p] = "wait",
         stage' = [stage EXCEPT ![p] = "answer"], ran' = Done(p),
         UNCHANGED <<backlog, cur, rd, link, cl, req, told, cut>>
  PROVE  FlowInv'
  <1> USE DEF FlowInv, FlowType
  <1> DEFINE typ == Parse(rd[p].buf).typ
  <1>1. ran' = [c \in Clients |-> ran[c] \/ (c = cur[p] /\ typ = req[c])]
    BY DEF Done
  <1>2. FlowType'
    <2>1. ran' \in [Clients -> BOOLEAN]
      BY <1>1 DEF ClientType
    <2> QED BY <2>1 DEF ListenerType, LinkType, ClientType
  <1>3. StageInv' /\ HeldInv'
    BY DEF StageInv, HeldInv, ListenerType
  <1>4. RequestInv'
    <2> SUFFICES ASSUME NEW c \in Clients, ~ ran'[c], ~ cut[c] PROVE Waits(c)'
      BY DEF RequestInv
    <2>1. ~ ran[c] /\ ~ (c = cur[p] /\ typ = req[c])
      BY <1>1
    <2>2. Waits(c)
      BY <2>1 DEF RequestInv
    <2>3. cur[p] # c
      <3>1. cur[p] = c => rd[p].buf[1] = Magic /\ rd[p].buf[2] = req[c]
        BY <2>2 DEF Waits, NCells
      <3>2. rd[p].buf[1] = Magic => typ = rd[p].buf[2]
        BY DEF Parse
      <3> QED BY <2>1, <3>1, <3>2
    <2>4. \A q \in Procs : cur[q] = c => stage'[q] = stage[q]
      BY <2>3 DEF ListenerType
    <2> QED BY <2>2, <2>4 DEF Waits
  <1> QED BY <1>2, <1>3, <1>4

LEMMA RunKeeps ==
  ASSUME FlowInv, NEW p \in Procs, Run(p)
  PROVE  FlowInv'
  <1> USE DEF FlowInv, FlowType
  <1>1. /\ stage[p] = "read" /\ rd[p].n = NCells
        /\ \/ stage' = [stage EXCEPT ![p] = "answer"] /\ ran' = Done(p)
           \/ stage' = [stage EXCEPT ![p] = "wait"] /\ ran' = ran
        /\ UNCHANGED <<backlog, cur, rd, link, cl, req, told, cut>>
    BY DEF Run, Stage, client
  <1>2. CASE stage' = [stage EXCEPT ![p] = "answer"] /\ ran' = Done(p)
    BY <1>1, <1>2, DoneKeeps
  <1>3. CASE stage' = [stage EXCEPT ![p] = "wait"] /\ ran' = ran
    <2>1. FlowType' /\ StageInv' /\ HeldInv'
      BY <1>1, <1>3 DEF ListenerType, LinkType, ClientType, StageInv, HeldInv
    <2>2. RequestInv'
      <3> SUFFICES ASSUME NEW c \in Clients, ~ ran[c], ~ cut[c] PROVE Waits(c)'
        BY <1>1, <1>3 DEF RequestInv
      <3>1. Waits(c)
        BY DEF RequestInv
      <3>2. \A q \in Procs : stage'[q] = IF q = p THEN "wait" ELSE stage[q]
        BY <1>3 DEF ListenerType
      <3>3. rd[p].n # 0
        BY <1>1 DEF NCells
      <3> QED BY <1>1, <3>1, <3>2, <3>3 DEF Waits
    <2> QED BY <2>1, <2>2
  <1> QED BY <1>1, <1>2, <1>3

LEMMA StoppedKeeps ==
  ASSUME FlowInv, NEW p \in Procs, Stopped(p)
  PROVE  FlowInv'
  BY DoneKeeps DEF Stopped, Stage, client

\* A client that gets an answer does not wait any more.
LEMMA AnswerStatusKeeps ==
  ASSUME FlowInv, NEW p \in Procs, AnswerStatus(p)
  PROVE  FlowInv'
  <1> USE DEF FlowInv, FlowType
  <1>1. PICK l \in Out(link[cur[p]], SuccessReadable) :
          /\ link' = [link EXCEPT ![cur[p]] = l]
          /\ cut' = [c \in Clients |-> cut[c] \/ (c = cur[p] /\ Len(l.down) > 1)]
    BY DEF AnswerStatus
  <1>2. /\ stage[p] = "answer" /\ stage' = [stage EXCEPT ![p] = "text"]
        /\ UNCHANGED <<backlog, cur, rd, cl, req, told, ran>>
    BY DEF AnswerStatus, Stage, client
  <1>3. cur[p] \in Conns /\ link[cur[p]] \in Link
    BY <1>2 DEF StageInv, LinkType
  <1>4. SuccessReadable \in Chunk
    <2>1. "SuccessReadable" \in Cells /\ "n" \in Cells
      BY DEF Cells
    <2> QED BY <2>1, MessageType DEF SuccessReadable
  <1>5. l \in Link /\ l.to = link[cur[p]].to /\ l.fin = link[cur[p]].fin
    BY <1>1, <1>3, <1>4, OutEffect
  <1>6. \A y \in Conns : link'[y] = IF y = cur[p] THEN l ELSE link[y]
    BY <1>1, <1>3 DEF LinkType
  <1>7. FlowType'
    <2>1. cut' \in [Clients -> BOOLEAN]
      BY <1>1 DEF ClientType
    <2> QED BY <1>1, <1>2, <1>5, <2>1 DEF ListenerType, LinkType, ClientType
  <1>8. StageInv'
    BY <1>2 DEF StageInv, ListenerType
  <1>9. HeldInv'
    <2>1. \A y \in Conns : link'[y].to = link[y].to /\ link'[y].fin = link[y].fin
      BY <1>5, <1>6
    <2>2. \A q \in Procs : \A i \in 1 .. Len(backlog[q]) : backlog[q][i] \in Conns
      BY HeldOnce
    <2> QED BY <1>2, <2>1, <2>2 DEF HeldInv
  <1>10. RequestInv'
    <2> SUFFICES ASSUME NEW c \in Clients, ~ ran[c], ~ cut'[c] PROVE Waits(c)'
      BY <1>2 DEF RequestInv
    <2>1. Waits(c) /\ c \in Conns
      BY <1>1 DEF RequestInv, Conns
    <2>2. cur[p] # c
      BY <1>2, <2>1 DEF Waits
    <2>3. link'[c] = link[c] /\ \A q \in Procs : cur[q] = c => stage'[q] = stage[q]
      BY <1>2, <1>6, <2>1, <2>2 DEF ListenerType
    <2> QED BY <1>2, <2>1, <2>3 DEF Waits
  <1> QED BY <1>7, <1>8, <1>9, <1>10

\* A client that has received anything does not wait any more.
LEMMA RecvKeeps ==
  ASSUME FlowInv, NEW c \in Clients, Receive(c)
  PROVE  FlowInv'
  <1> USE DEF FlowInv, FlowType
  <1>1. c \in Conns /\ link[c] \in Link
    BY DEF Conns, LinkType
  <1>2. UNCHANGED <<listener, ran, cut>>
    BY DEF Receive, Recv, RecvEnd, RecvText, history
  <1>3. link[c].down # << >> /\ cl[c] # "idle" => ran[c] \/ cut[c]
    BY DEF RequestInv, Waits, ClientType
  <1>4. CASE RecvEnd(c)
    BY <1>2, <1>4, HangupKeeps DEF RecvEnd
  <1>5. CASE RecvText(c)
    BY <1>2, <1>3, <1>5, HangupKeeps DEF RecvText
  <1>6. CASE Recv(c)
    <2>1. cl[c] = "recv" /\ link[c].down # << >>
      BY <1>6 DEF Recv
    <2>2. CASE /\ cl' = [cl EXCEPT ![c] = "text"]
               /\ link' = [link EXCEPT ![c].down = Tail(@)]
               /\ UNCHANGED <<req, told>>
      <3>1. Tail(link[c].down) \in Seq(Chunk)
        BY <1>1, <2>1 DEF Link
      <3>2. /\ \A y \in Conns : y # c => link'[y] = link[y]
            /\ link'[c] \in Link /\ link'[c].to = link[c].to /\ link'[c].fin = link[c].fin
        BY <1>1, <2>2, <3>1 DEF LinkType, Link
      <3>3. FlowType'
        <4>1. LinkType'
          BY <2>2, <3>2 DEF LinkType
        <4> QED BY <1>2, <2>2, <4>1 DEF ListenerType, ClientType, listener
      <3>4. StageInv'
        BY <1>2 DEF StageInv, listener
      <3>5. HeldInv'
        <4>1. \A y \in Conns : link'[y].to = link[y].to /\ link'[y].fin = link[y].fin
          BY <3>2
        <4>2. \A q \in Procs : \A i \in 1 .. Len(backlog[q]) : backlog[q][i] \in Conns
          BY HeldOnce
        <4> QED BY <1>2, <4>1, <4>2 DEF HeldInv, listener
      <3>6. RequestInv'
        <4> SUFFICES ASSUME NEW e \in Clients, ~ ran[e], ~ cut[e] PROVE Waits(e)'
          BY <1>2 DEF RequestInv
        <4>1. Waits(e) /\ e # c /\ e \in Conns
          BY <1>3, <2>1 DEF RequestInv, Conns
        <4>2. link'[e] = link[e] /\ cl'[e] = cl[e]
          BY <2>2, <3>2, <4>1 DEF ClientType
        <4> QED BY <1>2, <2>2, <4>1, <4>2 DEF Waits, listener
      <3> QED BY <3>3, <3>4, <3>5, <3>6
    <2>3. CASE \E what \in {"failed", "abort", "done", "quit"} : Hangup(c) /\ Leave(c, what)
      BY <1>2, <1>3, <2>1, <2>3, HangupKeeps
    <2> QED BY <1>6, <2>2, <2>3 DEF Recv
  <1> QED BY <1>4, <1>5, <1>6 DEF Receive

LEMMA HandleKeeps ==
  ASSUME FlowInv, NEW p \in Procs, Handle(p)
  PROVE  FlowInv'
  <1> USE DEF FlowInv, FlowType
  <1>1. \A c \in Clients : cur[p] = c /\ stage[p] \in {"answer", "text"} => ran[c] \/ cut[c]
    BY DEF RequestInv, Waits
  <1>2. stage[p] # "accept" => cur[p] \in Conns /\ link[cur[p]] \in Link
    BY DEF StageInv, LinkType
  <1>3. CASE GiveUp(p)
    <2>1. cut' = cut /\ UNCHANGED <<backlog, cl, req, told, ran>>
      BY <1>3 DEF GiveUp, client, history
    <2>2. stage[p] # "accept" /\ Finish(p, link[cur[p]])
      BY <1>3 DEF GiveUp
    <2> QED BY <1>2, <2>1, <2>2, FinishKeeps DEF ClientType
  <1>4. CASE Answer(p)
    <2>1. stage[p] = "answer" /\ UNCHANGED <<backlog, cl, req, told, ran>>
      BY <1>4 DEF Answer, client
    <2>2. PICK l \in Out(link[cur[p]], Success) :
            /\ Finish(p, l)
            /\ cut' = [c \in Clients |-> cut[c] \/ (c = cur[p] /\ Len(l.down) > 1)]
      BY <1>4 DEF Answer
    <2>3. Success \in Chunk
      <3>1. "Success" \in Cells /\ Zero \in Cells
        BY DEF Cells
      <3> QED BY <3>1, MessageType DEF Success
    <2>4. l \in Link
      BY <1>2, <2>1, <2>3, OutEffect
    <2>5. cut' \in [Clients -> BOOLEAN] /\ \A c \in Clients : cut[c] => cut'[c]
      BY <2>2 DEF ClientType
    <2>6. \A c \in Clients : cur[p] = c => ran[c] \/ cut[c]
      BY <1>1, <2>1
    <2> QED BY <2>1, <2>2, <2>4, <2>5, <2>6, FinishKeeps
  <1>5. CASE AnswerText(p)
    <2>1. /\ stage[p] = "text" /\ UNCHANGED <<backlog, cl, req, told, ran>>
          /\ cut' = cut
      BY <1>5 DEF AnswerText, client, history
    <2>2. PICK l \in Out(link[cur[p]], <<"text">>) : Finish(p, l)
      BY <1>5 DEF AnswerText
    <2>3. <<"text">> \in Chunk
      <3>1. "text" \in Cells
        BY DEF Cells
      <3> QED BY <3>1 DEF Chunk
    <2>4. l \in Link
      BY <1>2, <2>1, <2>3, OutEffect
    <2>5. \A c \in Clients : cur[p] = c => ran[c] \/ cut[c]
      BY <1>1, <2>1
    <2> QED BY <2>1, <2>2, <2>4, <2>5, FinishKeeps DEF ClientType
  <1> QED
    BY <1>3, <1>4, <1>5, AcceptKeeps, ReadKeeps, RunKeeps, AnswerStatusKeeps DEF Handle

LEMMA FlowStep == FlowInv /\ [Next]_vars => FlowInv'
  <1> SUFFICES ASSUME FlowInv, [Next]_vars PROVE FlowInv'
    OBVIOUS
  <1>1. ASSUME UNCHANGED <<backlog, stage, cur, rd, link, cl, req, told, ran, cut>>
        PROVE  FlowInv'
    BY <1>1 DEF FlowInv, FlowType, ListenerType, LinkType, ClientType, StageInv, HeldInv,
                RequestInv, Waits
  <1>2. ASSUME UNCHANGED <<listener, link, client, history>> PROVE FlowInv'
    BY <1>1, <1>2 DEF listener, client, history
  <1>3. ASSUME NEW p \in Procs, Launch(p) PROVE FlowInv'
    <2>1. CASE CloseFirst(p)
      BY <2>1, CloseKeeps DEF CloseFirst
    <2>2. CASE CloseSecond(p)
      BY <2>2, CloseKeeps DEF CloseSecond
    <2> QED
      BY <1>2, <1>3, <2>1, <2>2
         DEF Launch, Fork, BindLazy, BindImmd, Bind, ListenLazy, ListenImmd, Listen, Check, Exit
  <1>4. CASE User
    <2>1. ASSUME NEW p \in Procs, Kill(p) \/ BrokenPipe(p) PROVE FlowInv'
      BY <2>1, DieKeeps DEF Kill, BrokenPipe
    <2>2. ASSUME NEW p \in Procs, ProbeDown(p) PROVE FlowInv'
      BY <1>2, <2>2 DEF ProbeDown
    <2>3. ASSUME NEW c \in Clients, Quit(c) PROVE FlowInv'
      BY <2>3, HangupKeeps DEF Quit, history
    <2> QED
      BY <1>4, <2>1, <2>2, <2>3, ProbeUpKeeps, ConnectKeeps, ConnectFailsKeeps DEF User
  <1>5. CASE UNCHANGED vars
    BY <1>2, <1>5 DEF vars
  <1> QED
    BY <1>3, <1>4, <1>5, HandleKeeps, StoppedKeeps, RecvKeeps DEF Next

\* No command prints "done" unless the daemon did what it asked, or the stream
\* cut a message of its: of any number of commands and daemons, with kills,
\* broken pipes and interrupted commands anywhere.
THEOREM DoneIsTrue == Spec => []DoneMeansRun
  <1>1. Init => FlowInv
    <2> SUFFICES ASSUME Init PROVE FlowInv
      OBVIOUS
    <2> USE DEF Init
    <2>1. NoRead \in Buffer /\ NoRead.n = 0
      BY DEF NoRead, Buffer, Cells
    <2>2. << >> \in Seq(Conns)
      OBVIOUS
    <2>3. ListenerType
      BY <2>1, <2>2 DEF ListenerType
    <2>4. LinkType /\ ClientType
      BY NoLinkType DEF LinkType, ClientType
    <2>5. StageInv /\ HeldInv
      BY <2>1 DEF StageInv, HeldInv, Conns
    <2>6. RequestInv
      BY DEF RequestInv, Waits
    <2> QED BY <2>3, <2>4, <2>5, <2>6 DEF FlowInv, FlowType
  <1>2. FlowInv /\ [Next]_vars => FlowInv'
    BY FlowStep
  <1>3. FlowInv => DoneMeansRun
    BY DEF FlowInv, RequestInv, Waits, DoneMeansRun
  <1> QED
    BY <1>1, <1>2, <1>3, PTL DEF Spec

=============================================================================
