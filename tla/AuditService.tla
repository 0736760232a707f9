----------------------------- MODULE AuditService -----------------------------
(***************************************************************************)
(* services/audit-service/app/elastic_logger.py: the consumer of            *)
(* fraud-evaluated that indexes every event in Elasticsearch, under its     *)
(* transaction id: a later write replaces an earlier one.  consume() is the *)
(* process, which the platform restarts.                                    *)
(***************************************************************************)
EXTENDS ConsumerLoop, FiniteSets

CONSTANTS
    Messages,     \* fraud-evaluated events: [txn, verdict]
    PartitionOf,  \* txn_id -> partition
    MaxLog        \* bound: events that reach one partition

Txns == {m.txn : m \in Messages}

NoDocument == [txn |-> "none"]

ASSUME AuditServiceAssumption ==
    /\ NoDocument \notin Messages
    /\ PartitionOf \in [Txns -> Partitions]
    /\ MaxLog \in Nat

VARIABLES
    index,  \* index[t]: the document t of payment_audit, or NoDocument
    dlq     \* the transactions in audit-dlq

vars == <<loopVars, index, dlq>>

Steps == {"idle", "index", "commit", "dead_letter", "dead_commit", "down"}

TypeOK ==
    /\ \A p \in Partitions : \A i \in 1..Len(input[p]) : input[p][i] \in Messages
    /\ pc \in [Workers -> Steps]
    /\ dlq \subseteq Txns
    /\ \A t \in Txns : index[t] \in {NoDocument} \cup {m \in Messages : m.txn = t}

Init ==
    /\ LoopInit
    /\ index = [t \in Txns |-> NoDocument]
    /\ dlq = {}

-----------------------------------------------------------------------------
Arrive(m) ==
    LET p == PartitionOf[m.txn] IN
    /\ Len(input[p]) < MaxLog
    /\ input' = [input EXCEPT ![p] = Append(@, m)]
    /\ UNCHANGED <<groupVars, workerVars, faults, index, dlq>>

Fetch(w) ==
    /\ \E p \in Partitions : Begin(w, p, "index")
    /\ UNCHANGED <<index, dlq>>

\* Mutant: op_type=create, the first event of a transaction stays.
CreateDocument(w) ==
    LET m == Message(w) IN
    index' = [index EXCEPT ![m.txn] = IF @ = NoDocument THEN m ELSE @]

\* es.index under the transaction id.
IndexDocument(w) == index' = [index EXCEPT ![Message(w).txn] = Message(w)]

Index(w) ==
    /\ pc[w] = "index"
    /\ IndexDocument(w)
    /\ Goto(w, "commit")
    /\ NoFault
    /\ UNCHANGED <<input, committed, owner, dlq>>

\* Mutant: the exception is logged and swallowed.
IndexSwallows(w) ==
    /\ pc[w] = "index"
    /\ Fault
    /\ IndexDocument(w) \/ UNCHANGED index
    /\ Goto(w, "commit")
    /\ UNCHANGED <<input, committed, owner, dlq>>

\* es.index raised, or wait_for gave up; the document may be there.
IndexRaises(w) ==
    /\ pc[w] = "index"
    /\ Fault
    /\ IndexDocument(w) \/ UNCHANGED index
    /\ RetryOrGiveUp(w, "index")
    /\ UNCHANGED <<input, committed, owner, dlq>>

Commit(w) == CommitAt(w, "commit") /\ UNCHANGED <<index, dlq>>

CommitRaises(w) ==
    CommitRaisesAt(w, "commit", "index") /\ UNCHANGED <<index, dlq>>

Bury(w) == dlq' = dlq \cup {Message(w).txn}

DeadLetter(w) ==
    /\ pc[w] = "dead_letter"
    /\ Bury(w)
    /\ Goto(w, "dead_commit")
    /\ NoFault
    /\ UNCHANGED <<input, committed, owner, index>>

\* Mutant: consume() is a background task that nobody restarts.
DeadLetterEndsTask(w) ==
    /\ pc[w] = "dead_letter"
    /\ Fault
    /\ Bury(w) \/ UNCHANGED dlq
    /\ Release(w, "halted")
    /\ UNCHANGED <<input, committed, owner, index>>

DeadLetterRaises(w) ==
    /\ pc[w] = "dead_letter"
    /\ Fault
    /\ Bury(w) \/ UNCHANGED dlq
    /\ Release(w, "down")
    /\ UNCHANGED <<input, committed, owner, index>>

DeadCommit(w) == CommitAt(w, "dead_commit") /\ UNCHANGED <<index, dlq>>

DeadCommitRaises(w) ==
    CommitKillsAt(w, "dead_commit", "down") /\ UNCHANGED <<index, dlq>>

-----------------------------------------------------------------------------
WorkerStep(w) ==
    \/ Fetch(w) \/ Index(w) \/ Commit(w) \/ DeadLetter(w) \/ DeadCommit(w)

Failure(w) ==
    \/ IndexRaises(w) \/ CommitRaises(w)
    \/ DeadLetterRaises(w) \/ DeadCommitRaises(w)

Group ==
    /\ (\E w \in Workers : Crash(w) \/ Restart(w)) \/ Rebalance \/ Takeover
    /\ UNCHANGED <<index, dlq>>

Next ==
    \/ \E m \in Messages : Arrive(m)
    \/ \E w \in Workers : WorkerStep(w) \/ Failure(w)
    \/ Group

SafeSpec == Init /\ [][Next]_vars

Fairness ==
    /\ \A w \in Workers : WF_vars(WorkerStep(w))
    /\ \A w \in Workers : WF_vars(Restart(w) /\ UNCHANGED <<index, dlq>>)
    /\ WF_vars(Takeover /\ UNCHANGED <<index, dlq>>)

Spec == SafeSpec /\ Fairness

-----------------------------------------------------------------------------
(* Properties                                                               *)

Indexed == {t \in Txns : index[t] # NoDocument}

\* The document of the i-th event of p shows that event, or a later one.
Current(p, i) ==
    \E j \in i..Len(input[p]) : input[p][j] = index[input[p][i].txn]

\* The transactions whose document is older than an event of theirs that the
\* group has passed.
Stale(p) == {input[p][i].txn : i \in {k \in 1..committed[p] : ~Current(p, k)}}

\* One failure can orphan the message of one replica while another goes on;
\* with a third replica, a crash reassigns a partition twice to that effect.
StalePerFailure == IF Cardinality(Workers) <= 2 THEN 1 ELSE 2

\* A document is out of date only after a failure: a dead letter, or a replica
\* that wrote an older event after a reassignment.  A failure costs one
\* document of a partition with the two replicas that are deployed (apps.yaml),
\* and two with more.
StaleCostsFailures ==
    \A p \in Partitions : Cardinality(Stale(p)) <= StalePerFailure * faults

\* The service implements the at-least-once promise, by transaction id.
Promise == INSTANCE AtLeastOnce WITH
    Keys    <- Txns,
    log     <- [p \in Partitions |->
                   [i \in 1..Len(input[p]) |-> input[p][i].txn]],
    done    <- committed,
    handled <- Indexed,
    buried  <- dlq

ImplementsAtLeastOnce == Promise!Spec

=============================================================================
