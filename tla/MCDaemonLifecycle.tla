-------------------------- MODULE MCDaemonLifecycle --------------------------
(***************************************************************************)
(* DaemonLifecycle for TLC: the task that starts the daemon with the       *)
(* application, the administrator's commands, and up to three runs.         *)
(***************************************************************************)
EXTENDS DaemonLifecycle

CONSTANTS startup, admin, r1, r2, r3
=============================================================================
