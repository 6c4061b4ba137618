----------------------------- MODULE MCShutdown -----------------------------
(* Values for the constants of Shutdown.                                   *)
EXTENDS Shutdown

CONSTANTS c1, c2
=============================================================================
