------------------------------ MODULE MCDaemon ------------------------------
(* A few processes of the daemon, for TLC.                                  *)
EXTENDS Daemon, TLC
=============================================================================
