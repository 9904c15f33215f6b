------------------------------ MODULE MCDaemon ------------------------------
(***************************************************************************)
(* Daemon for TLC.  Two clients meet in every pair of steps, and two pids  *)
(* give one command an old daemon to read and a new one to be surprised    *)
(* by.  A third pid (772 thousand states) shows nothing more.  Liveness is *)
(* checked, so no symmetry is declared.                                    *)
(***************************************************************************)
EXTENDS Daemon
=============================================================================
