------------------------------- MODULE Payments -------------------------------
(***************************************************************************)
(* The payment requests that travel through the topics, and the processor's *)
(* decision on one of them.                                                 *)
(***************************************************************************)
EXTENDS Integers

CONSTANTS
    Requests,     \* the payment requests clients may submit, as records
    PartitionOf   \* txn_id -> partition: every topic is keyed by txn_id

Txns == {r.txn : r \in Requests}

ASSUME PaymentsAssumption == \A r \in Requests : r.amount \in Int

-----------------------------------------------------------------------------
SupportedTypes == {"credit", "p2p", "b2b"}
P2PLimit       == 2000
HighValueFrom  == 1000

\* A processed payment: the request and the fields the processor adds.  The
\* removal of card_pan and the fields derived from the txn_id are left out.
Processed(r, processor_status, final_status, reason) ==
    [request |-> r, high_value |-> r.amount >= HighValueFrom,
     processor_status |-> processor_status, final_status |-> final_status,
     reason |-> reason]

Rejected(r, reason) == Processed(r, "rejected", "declined", reason)

\* process_transaction: the first rule that applies declines.
ProcessTransaction(r) ==
    CASE r.amount <= 0 -> Rejected(r, "amount")
      [] r.amount > 0 /\ r.payment_type \notin SupportedTypes ->
            Rejected(r, "type")
      [] r.amount > P2PLimit /\ r.payment_type = "p2p" -> Rejected(r, "p2p")
      [] OTHER -> Processed(r, "approved", "pending_fraud_review", "accepted")

ProcessedEvents == {ProcessTransaction(r) : r \in Requests}

-----------------------------------------------------------------------------
\* The event a fraud-service worker holds and later publishes: the processed
\* event with a fraud_status, and a final status and reason of its own.
Evaluated(e, final_status, fraud_status, reason) ==
    [request |-> e.request, high_value |-> e.high_value,
     processor_status |-> e.processor_status, final_status |-> final_status,
     fraud_status |-> fraud_status, reason |-> reason]

\* As decoded from payment-processed: no fraud_status yet.
Decoded(e) == Evaluated(e, e.final_status, "unset", e.reason)

FinalStatuses == {"declined", "pending_fraud_review", "approved"}
FraudStatuses == {"unset", "skipped", "flagged", "cleared"}

=============================================================================
