----------------------------- MODULE Forwarding -----------------------------
(***************************************************************************)
(* What the collector of tg-focus promises about a message, without its    *)
(* threads, flags and queue.  A message that is received waits; it is then *)
(* forwarded once, passed over by the filters, or lost, and lost only with *)
(* every other message that waits, when the collector is stopped or the    *)
(* process exits.  Nothing is received while the collector stops, and what *)
(* is done with a message is never undone.  CollPipeline implements this.  *)
(***************************************************************************)
CONSTANTS
  Msgs,     \* the messages
  TgfMsgs,  \* those posted in a TG-FOCUS chat
  Wanted    \* those the focus filters accept

VARIABLES
  st,       \* what became of each message
  phase     \* whether the collector runs

vars == <<st, phase>>

States == {"unseen", "queued", "forwarded", "done", "lost"}
Phases == {"running", "stopping", "exited"}

\* Forwarding an own message would send it round and round.
ToForward(m) == m \in Wanted \ TgfMsgs

Init == st = [m \in Msgs |-> "unseen"] /\ phase = "running"

\* m goes from one state to another.
Turn(m, from, to) ==
  /\ st[m] = from
  /\ st' = [st EXCEPT ![m] = to]
  /\ UNCHANGED phase

\* A message comes in from any chat.
Receive(m) == phase = "running" /\ Turn(m, "unseen", "queued")

\* A message of the TG-FOCUS chat is a command, or ignored.
Handle(m) == phase = "running" /\ m \in TgfMsgs /\ Turn(m, "unseen", "done")

\* The one that is being sent when the collector is told to stop still is.
Forward(m) == phase # "exited" /\ ToForward(m) /\ Turn(m, "queued", "forwarded")

Skip(m) == phase = "running" /\ ~ToForward(m) /\ Turn(m, "queued", "done")

\* What waits is lost.
LoseQueued ==
  st' = [m \in Msgs |-> IF st[m] = "queued" THEN "lost" ELSE st[m]]

Stop == phase = "running" /\ phase' = "stopping" /\ UNCHANGED st

GiveUp == phase = "stopping" /\ LoseQueued /\ UNCHANGED phase

\* Only a running collector can find its login lost.
Exit == phase = "running" /\ phase' = "exited" /\ LoseQueued

Restart == phase # "running" /\ phase' = "running" /\ UNCHANGED st

Next ==
  \/ \E m \in Msgs : Receive(m) \/ Handle(m) \/ Forward(m) \/ Skip(m)
  \/ Stop
  \/ GiveUp
  \/ Exit
  \/ Restart

Spec == Init /\ [][Next]_vars

=============================================================================
