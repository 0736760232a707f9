---------------------------- MODULE PaymentService ----------------------------
(***************************************************************************)
(* services/payment-service/app/consumer.py: payment-initiated in,          *)
(* payment-processed out, payment-processed-dlq for what could not be       *)
(* published.  An exception that leaves consume() ends the process          *)
(* (asyncio.run), and the platform restarts it.                             *)
(***************************************************************************)
EXTENDS ConsumerLoop, Payments, FiniteSets

CONSTANT MaxLog   \* bound: requests that reach one partition

ASSUME PaymentServiceAssumption ==
    /\ PartitionOf \in [Txns -> Partitions]
    /\ MaxLog \in Nat

VARIABLES
    output,   \* output[p]: the payment-processed events of partition p
    dlq       \* the requests in payment-processed-dlq

vars == <<loopVars, output, dlq>>

Steps == {"idle", "publish", "commit", "dead_letter", "dead_commit", "down"}

TypeOK ==
    /\ input \in [Partitions -> Seq(Requests)]
    /\ committed \in [Partitions -> Nat]
    /\ owner \in [Partitions -> Workers]
    /\ pc \in [Workers -> Steps]
    /\ part \in [Workers -> Partitions]
    /\ offset \in [Workers -> Nat]
    /\ attempts \in [Workers -> Nat]
    /\ leased \in [Workers -> BOOLEAN]
    /\ faults \in 0..MaxFaults
    /\ output \in [Partitions -> Seq(ProcessedEvents)]
    /\ dlq \subseteq Requests

Init ==
    /\ LoopInit
    /\ output = [p \in Partitions |-> <<>>]
    /\ dlq = {}

-----------------------------------------------------------------------------
\* The gateway's produce_event: a request reaches payment-initiated, possibly
\* one that is there already (a client that retries after an error).
Submit(r) ==
    LET p == PartitionOf[r.txn] IN
    /\ Len(input[p]) < MaxLog
    /\ input' = [input EXCEPT ![p] = Append(@, r)]
    /\ UNCHANGED <<groupVars, workerVars, faults, output, dlq>>

Fetch(w) ==
    /\ \E p \in Partitions : Begin(w, p, "publish")
    /\ UNCHANGED <<output, dlq>>

\* publish_to_topic appended `result` to payment-processed.
AppendResult(w) ==
    LET r == Message(w) IN
    output' = [output EXCEPT ![PartitionOf[r.txn]] =
                   Append(@, ProcessTransaction(r))]

\* process_transaction, then publish_to_topic acknowledged.
Publish(w) ==
    /\ pc[w] = "publish"
    /\ AppendResult(w)
    /\ Goto(w, "commit")
    /\ NoFault
    /\ UNCHANGED <<input, committed, owner, dlq>>

\* Mutant: the exception is logged and swallowed.
PublishSwallows(w) ==
    /\ pc[w] = "publish"
    /\ Fault
    /\ AppendResult(w) \/ UNCHANGED output
    /\ Goto(w, "commit")
    /\ UNCHANGED <<input, committed, owner, dlq>>

\* publish_to_topic raised (no producer, broker error, or the timeout of
\* wait_for): the event may be in the topic all the same.
PublishRaises(w) ==
    /\ pc[w] = "publish"
    /\ Fault
    /\ AppendResult(w) \/ UNCHANGED output
    /\ RetryOrGiveUp(w, "publish")
    /\ UNCHANGED <<input, committed, owner, dlq>>

Commit(w) == CommitAt(w, "commit") /\ UNCHANGED <<output, dlq>>

CommitRaises(w) ==
    CommitRaisesAt(w, "commit", "publish") /\ UNCHANGED <<output, dlq>>

\* Mutant: the dead letter is not published before the offset is passed.
DeadLetterForgets(w) ==
    /\ pc[w] = "dead_letter"
    /\ Goto(w, "dead_commit")
    /\ NoFault
    /\ UNCHANGED <<input, committed, owner, output, dlq>>

\* publish_dlq acknowledged.
DeadLetter(w) ==
    /\ pc[w] = "dead_letter"
    /\ dlq' = dlq \cup {Message(w)}
    /\ Goto(w, "dead_commit")
    /\ NoFault
    /\ UNCHANGED <<input, committed, owner, output>>

\* Mutant: consume() is a background task that nobody restarts.
DeadLetterEndsTask(w) ==
    /\ pc[w] = "dead_letter"
    /\ Fault
    /\ dlq' = dlq \cup {Message(w)} \/ UNCHANGED dlq
    /\ Release(w, "halted")
    /\ UNCHANGED <<input, committed, owner, output>>

\* publish_dlq raised inside the except block: the exception leaves the loop.
DeadLetterRaises(w) ==
    /\ pc[w] = "dead_letter"
    /\ Fault
    /\ dlq' = dlq \cup {Message(w)} \/ UNCHANGED dlq
    /\ Release(w, "down")
    /\ UNCHANGED <<input, committed, owner, output>>

DeadCommit(w) == CommitAt(w, "dead_commit") /\ UNCHANGED <<output, dlq>>

DeadCommitRaises(w) ==
    CommitKillsAt(w, "dead_commit", "down") /\ UNCHANGED <<output, dlq>>

-----------------------------------------------------------------------------
\* What a worker does as long as nothing fails.
WorkerStep(w) ==
    \/ Fetch(w) \/ Publish(w) \/ Commit(w)
    \/ DeadLetter(w) \/ DeadCommit(w)

Failure(w) ==
    \/ PublishRaises(w) \/ CommitRaises(w)
    \/ DeadLetterRaises(w) \/ DeadCommitRaises(w)

Environment ==
    /\ \/ \E w \in Workers : Crash(w) \/ Restart(w)
       \/ Rebalance
       \/ Takeover
    /\ UNCHANGED <<output, dlq>>

Next ==
    \/ \E r \in Requests : Submit(r)
    \/ \E w \in Workers : WorkerStep(w) \/ Failure(w)
    \/ Environment

SafeSpec == Init /\ [][Next]_vars

\* A live process keeps executing, the platform restarts a dead one, and the
\* group notices an absent member.  Failures are never owed.
Fairness ==
    /\ \A w \in Workers : WF_vars(WorkerStep(w))
    /\ \A w \in Workers : WF_vars(Restart(w) /\ UNCHANGED <<output, dlq>>)
    /\ WF_vars(Takeover /\ UNCHANGED <<output, dlq>>)

Spec == SafeSpec /\ Fairness

-----------------------------------------------------------------------------
(* Properties                                                               *)

Settled(p, i) ==
    \/ \E j \in 1..Len(output[p]) : output[p][j].request = input[p][i]
    \/ input[p][i] \in dlq

\* Control has reached a commit only with the message out of danger.
SettledBeforeCommit ==
    \A w \in Workers :
        /\ pc[w] = "commit" =>
              \E j \in 1..Len(output[part[w]]) :
                  output[part[w]][j].request = Message(w)
        /\ pc[w] = "dead_commit" => Message(w) \in dlq

\* Topics are keyed by txn_id: a result lands in its request's partition.
Routed ==
    \A p \in Partitions :
        \A i \in 1..Len(input[p]) : PartitionOf[input[p][i].txn] = p

\* No payment is lost: an offset the group has passed belongs to a request
\* whose result is in payment-processed or that was dead-lettered, whatever
\* was retried, crashed or reassigned before (publish, then commit: lines
\* 141-142 and 153-154).
CommittedIsSettled ==
    \A p \in Partitions : \A i \in 1..committed[p] : Settled(p, i)

\* A result appears only for a request at or before the first uncommitted
\* offset: a retrying or orphaned worker never runs ahead of the partition.
NoOvertaking ==
    \A p \in Partitions : \A j \in 1..Len(output[p]) :
        \E i \in 1..Len(input[p]) :
            i <= committed[p] + 1 /\ input[p][i] = output[p][j].request

\* The inductive invariant behind the two: where workers stand, what is
\* behind them, and that every message stays in its partition.
IInv ==
    /\ TypeOK
    /\ Positions
    /\ Routed
    /\ SettledBeforeCommit
    /\ CommittedIsSettled
    /\ NoOvertaking

Copies(p, r) == Cardinality({j \in 1..Len(output[p]) : output[p][j].request = r})
Submissions(p, r) == Cardinality({i \in 1..Len(input[p]) : input[p][i] = r})

\* Duplicates come from failures only, and each failure costs at most two
\* copies in all (a crash redelivers to the heir, and the restart that follows
\* orphans the heir's own delivery).
DuplicatesBounded ==
    \A r \in Requests :
        LET p == PartitionOf[r.txn] IN
        Copies(p, r) <= Submissions(p, r) + 2 * faults

\* A request is dead-lettered only after MAX_PROCESSING_RETRIES failed
\* attempts of one delivery (line 152), one attempt at least.
DeadLetterAfterRetries ==
    Cardinality(dlq) * Max(1, MaxRetries) <= faults

\* The requests whose result is in payment-processed.
Handled ==
    {r \in Requests : \E p \in Partitions : \E j \in 1..Len(output[p]) :
                          output[p][j].request = r}

\* The service implements the at-least-once promise.
Promise == INSTANCE AtLeastOnce WITH
    Keys    <- Requests,
    log     <- input,
    done    <- committed,
    handled <- Handled,
    buried  <- dlq

ImplementsAtLeastOnce == Promise!Spec

=============================================================================
