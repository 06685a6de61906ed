-------------------------- MODULE MCNotifications --------------------------
(* Values for model checking Notifications. *)
EXTENDS Notifications

CONSTANTS completed, info, backend, worker
MCTypeOf(n) == IF n = 3 THEN info ELSE completed
MCProcessOf(n) == IF n = 2 THEN worker ELSE backend
=============================================================================
