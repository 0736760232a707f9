---------------------------- MODULE MCFraudService ----------------------------
(***************************************************************************)
(* Instances of FraudService for TLC.                                       *)
(***************************************************************************)
EXTENDS FraudService, TLC

CONSTANTS t1, t2, t3, p1, alice, here, there

Request(t, amount, place, bad_ip) ==
    [txn |-> t, amount |-> amount, payment_type |-> "credit",
     user |-> alice, place |-> place, bad_ip |-> bad_ip]

\* Payments of one user from two places, one of them from a bad address, and
\* one without a place, which the processor declines.
MixedRequests ==
    {Request(t1, 1500, here, FALSE), Request(t2, 500, there, TRUE),
     Request(t3, 0, NoPlace, FALSE)}
OnePartition == [t \in {t1, t2, t3} |-> p1]

\* One payment with a location, for the liveness run.
OneRequest == {Request(t1, 100, here, FALSE)}
OneTxn == [t \in {t1} |-> p1]

Differ(a, b) == a # b

Symmetry == Permutations(Workers)

=============================================================================
