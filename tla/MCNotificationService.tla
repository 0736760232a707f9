------------------------- MODULE MCNotificationService ------------------------
(***************************************************************************)
(* Instances of NotificationService for TLC.                                *)
(***************************************************************************)
EXTENDS NotificationService, TLC

CONSTANTS t1, t2, p1

Event(t, final_status, high_value) ==
    [txn |-> t, final_status |-> final_status, high_value |-> high_value]

\* A transaction replayed with another verdict, and a payment that needs no
\* notification.
MCMessages ==
    {Event(t1, "declined", FALSE), Event(t1, "approved", TRUE),
     Event(t2, "approved", FALSE)}
OnePartition == [t \in {t1, t2} |-> p1]

=============================================================================
