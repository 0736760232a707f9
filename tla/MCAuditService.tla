---------------------------- MODULE MCAuditService ----------------------------
(***************************************************************************)
(* Instances of AuditService for TLC.                                       *)
(***************************************************************************)
EXTENDS AuditService, TLC

CONSTANTS t1, t2, p1

Event(t, verdict) == [txn |-> t, verdict |-> verdict]

\* One transaction with two verdicts (a replay), and another one.
MCMessages ==
    {Event(t1, "approved"), Event(t1, "declined"), Event(t2, "approved")}
OnePartition == [t \in {t1, t2} |-> p1]

=============================================================================
