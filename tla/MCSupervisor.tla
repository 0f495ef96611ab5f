---------------------------- MODULE MCSupervisor ----------------------------
(* Supervisor with two daemons and two rounds of killall. *)
EXTENDS Supervisor
=============================================================================
