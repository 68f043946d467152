----------------------------- MODULE MCAccount -----------------------------
(***************************************************************************)
(* Account for TLC: one run of each command at a time, as often as the     *)
(* user likes.  Telegram does not know the credentials a user types: they  *)
(* get as far as a session that is logged in already.                      *)
(***************************************************************************)
EXTENDS Account

CONSTANTS ours, other

MCTyped == {other}
MCKnown == {ours}

=============================================================================
