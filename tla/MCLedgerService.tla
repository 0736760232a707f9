--------------------------- MODULE MCLedgerService ----------------------------
(***************************************************************************)
(* Instances of LedgerService for TLC.                                      *)
(***************************************************************************)
EXTENDS LedgerService, TLC

CONSTANTS t1, t2, p1, bob

Event(t, verdict, contact, pii) ==
    [txn |-> t, verdict |-> verdict, contact |-> contact, pii |-> pii]

\* Two payments to one contact under two names.
ContactEvents == {Event(t1, "approved", bob, "A"), Event(t2, "approved", bob, "B")}

\* The same, and a replay of one with another verdict.
VerdictEvents == ContactEvents \cup {Event(t1, "declined", bob, "A")}

OnePartition == [t \in {t1, t2} |-> p1]

=============================================================================
