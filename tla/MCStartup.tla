----------------------------- MODULE MCStartup -----------------------------
(***************************************************************************)
(* Startup for TLC: two runs of `startup`, one other command at a time.    *)
(***************************************************************************)
EXTENDS Startup

CONSTANTS s1, s2, c1

MCAsked == {"ShutdownIpcSrv", "ReportStatus", "UpColl", "ShutdownColl"}

=============================================================================
