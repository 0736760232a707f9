--------------------------- MODULE MCPaymentService ---------------------------
(***************************************************************************)
(* The instance of PaymentService for TLC: two replicas and two partitions, *)
(* of which one is busy, so that a reassignment moves it from a replica to  *)
(* the other; two requests, each of which the gateway may queue twice.      *)
(***************************************************************************)
EXTENDS PaymentService, TLC

CONSTANTS t1, t2, p1, p2

Request(txn, amount, type) ==
    [txn |-> txn, amount |-> amount, payment_type |-> type]

\* The processor accepts one and declines the other.
MCRequests == {Request(t1, 1000, "credit"), Request(t2, 2001, "p2p")}

MCPartitionOf == (t1 :> p1) @@ (t2 :> p1)

=============================================================================
