------------------------------- MODULE IpcMsg ------------------------------
(***************************************************************************)
(* The messages between tgfocus and its daemon.  One has 64 bytes: 3 of    *)
(* magic, 2 of type, 4 with the length of what follows it, 55 of           *)
(* arguments.  Here each of the four fields is one cell, and the stream    *)
(* may cut a message between two cells.                                    *)
(***************************************************************************)
EXTENDS Naturals, Sequences

Magic == "tgf"
Zero == "0"
Garbage == "?"
Requests == {"ShutdownIpcSrv", "ReportStatus", "UpColl", "ShutdownColl"}

\* NBYTE_IPCMSG_ALL, in cells.
NCells == 4

\* new_ipcmsg: ext is "n" when a text of n > 0 bytes follows.
new_ipcmsg(type, ext) == <<Magic, type, ext, Zero>>
Success == new_ipcmsg("Success", Zero)
SuccessReadable == new_ipcmsg("SuccessReadable", "n")

\* IpcMsg::IpcMsg: without the magic the type is Ignore.
Parse(buf) == IF buf[1] = Magic THEN [ok |-> TRUE, typ |-> buf[2], ext |-> buf[3]]
                                ELSE [ok |-> FALSE, typ |-> "Ignore", ext |-> Zero]

\* read (fd, buffer, 64): what arrives goes to the start of the buffer.
ReadInto(buf, chunk) ==
  [i \in 1 .. NCells |-> IF i <= Len(chunk) THEN chunk[i] ELSE buf[i]]

\* The ways a message may be cut in two.
Cuts(m) == {<<SubSeq(m, 1, k), SubSeq(m, k + 1, Len(m))>> : k \in 1 .. Len(m) - 1}

=============================================================================
