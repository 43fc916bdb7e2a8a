------------------------- MODULE NotificationOutboxMC -------------------------
(* Model values for the runs of NotificationOutbox. *)
EXTENDS NotificationOutbox

CONSTANTS m1, m2, p1, p2
=============================================================================
