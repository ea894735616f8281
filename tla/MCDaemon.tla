------------------------------ MODULE MCDaemon ------------------------------
(* Small instances of Daemon.                                                *)
EXTENDS Daemon

CONSTANTS w1, k1, c1, c2, p1
=============================================================================
