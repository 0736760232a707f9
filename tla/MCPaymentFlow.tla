---------------------------- MODULE MCPaymentFlow -----------------------------
(***************************************************************************)
(* The instance of PaymentFlow for TLC: one payment of high value that the *)
(* client submits twice.                                                   *)
(***************************************************************************)
EXTENDS PaymentFlow, TLC

CONSTANTS t1, p1

MCRequests == {[txn |-> t1, amount |-> 1500, payment_type |-> "credit"]}
OnePartition == [t \in {t1} |-> p1]

=============================================================================
