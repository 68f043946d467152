--------------------------- MODULE MCCollPipeline ---------------------------
(***************************************************************************)
(* CollPipeline for TLC: the messages are model values.  m1 and m2 come    *)
(* from ordinary chats, t1 is posted in a TG-FOCUS chat.                   *)
(***************************************************************************)
EXTENDS CollPipeline

CONSTANTS m1, m2, t1

=============================================================================
