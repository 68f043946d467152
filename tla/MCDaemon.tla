------------------------------ MODULE MCDaemon ------------------------------
(***************************************************************************)
(* Daemon for TLC: two clients, model values.                              *)
(***************************************************************************)
EXTENDS Daemon

CONSTANTS c1, c2, i1, i2, i3

\* The commands of the program that talk to the daemon.  EOF and Ignore take the
\* same way through the handler as ReportStatus.
Commands == {"ReportStatus", "UpColl", "ShutdownColl", "ShutdownIpcSrv"}

LazyKinds == {"Ignore", "ShutdownIpcSrv"}

=============================================================================
