-------------------------- MODULE NotificationService -------------------------
(***************************************************************************)
(* services/notification-service: the consumer of fraud-evaluated that      *)
(* dispatches a notification per declined or high-value transaction, and    *)
(* keeps it in Redis.  A mark notification:sent:txn, set if absent before   *)
(* the notification is stored, suppresses duplicates.                       *)
(*                                                                          *)
(* consume() is a background task of the web application, as in the ledger: *)
(* an exception that leaves it halts the worker for good.                   *)
(***************************************************************************)
EXTENDS ConsumerLoop, FiniteSets

CONSTANTS
    Messages,     \* fraud-evaluated events: [txn, final_status, high_value]
    PartitionOf,  \* txn_id -> partition
    MaxLog        \* bound: events that reach one partition

Txns == {m.txn : m \in Messages}

ASSUME NotificationServiceAssumption ==
    /\ PartitionOf \in [Txns -> Partitions]
    /\ MaxLog \in Nat

VARIABLES
    sent,        \* the transactions with notification:sent:txn
    stored,      \* stored[t]: the notification under notification:t, or NoNote
    dispatched,  \* dispatched[t]: how often "notification_dispatched" was logged
    dlq          \* the transactions in notification-dlq

noteVars == <<sent, stored, dispatched, dlq>>
vars == <<loopVars, noteVars>>

Steps == {"idle", "mark", "existing", "store", "commit", "dead_letter",
          "dead_commit", "down", "halted"}

-----------------------------------------------------------------------------
(* route_notification: the channels and the severity of an event.           *)

Channels(m) ==
    (IF m.final_status = "declined" THEN {"email"} ELSE {})
        \cup (IF m.high_value THEN {"slack"} ELSE {})

Severity(m) ==
    CASE m.final_status = "declined" /\ m.high_value -> "critical"
      [] m.final_status # "declined" /\ m.high_value -> "medium"
      [] OTHER -> "high"

NoNote == [channels |-> {}]
Note(m) == [channels |-> Channels(m), severity |-> Severity(m)]
Routed(m) == Channels(m) # {}

\* Mutant: route_notification's None is not looked at.
AlwaysMark(m) == "mark"

\* An event without channels needs no notification.
First(m) == IF Routed(m) THEN "mark" ELSE "commit"

-----------------------------------------------------------------------------
TypeOK ==
    /\ \A p \in Partitions : \A i \in 1..Len(input[p]) : input[p][i] \in Messages
    /\ pc \in [Workers -> Steps]
    /\ \A w \in Workers :
          pc[w] \in {"mark", "existing", "store"} => Routed(Message(w))
    /\ sent \subseteq Txns /\ dlq \subseteq Txns
    /\ stored \in [Txns -> {NoNote} \cup {Note(m) : m \in Messages}]
    /\ dispatched \in [Txns -> Nat]

Init ==
    /\ LoopInit
    /\ sent = {} /\ dlq = {}
    /\ stored = [t \in Txns |-> NoNote]
    /\ dispatched = [t \in Txns |-> 0]

Arrive(m) ==
    LET p == PartitionOf[m.txn] IN
    /\ Len(input[p]) < MaxLog
    /\ input' = [input EXCEPT ![p] = Append(@, m)]
    /\ UNCHANGED <<groupVars, workerVars, faults, noteVars>>

Fetch(w) ==
    /\ \E p \in Partitions :
          LET m == input[p][committed[p] + 1] IN Begin(w, p, First(m))
    /\ UNCHANGED noteVars

TxnOf(w) == Message(w).txn

Inside(w, step, next) ==
    /\ pc[w] = step
    /\ Goto(w, next)
    /\ NoFault
    /\ UNCHANGED <<input, committed, owner, dlq>>

\* Mutants: the answer of mark_sent_if_new is misread; or SET without NX
\* always answers OK.
MarkMisread(w) ==
    /\ Inside(w, "mark", IF TxnOf(w) \in sent THEN "store" ELSE "existing")
    /\ sent' = sent \cup {TxnOf(w)}
    /\ UNCHANGED <<stored, dispatched>>

MarkAlways(w) ==
    /\ Inside(w, "mark", "store")
    /\ sent' = sent \cup {TxnOf(w)}
    /\ UNCHANGED <<stored, dispatched>>

\* mark_sent_if_new: SET NX.  Who finds the mark takes the transaction for
\* notified, and fetches the notification.
MarkSent(w) ==
    /\ Inside(w, "mark", IF TxnOf(w) \in sent THEN "existing" ELSE "store")
    /\ sent' = sent \cup {TxnOf(w)}
    /\ UNCHANGED <<stored, dispatched>>

\* Mutant: a replica that finds the mark waits for the notification.
AwaitExisting(w) ==
    /\ Inside(w, "existing", IF stored[TxnOf(w)] = NoNote THEN "existing"
                                                         ELSE "commit")
    /\ UNCHANGED <<sent, stored, dispatched>>

\* get_notification: the result is not used.
ReadExisting(w) ==
    /\ Inside(w, "existing", "commit")
    /\ UNCHANGED <<sent, stored, dispatched>>

StoreNote(w) == stored' = [stored EXCEPT ![TxnOf(w)] = Note(Message(w))]

\* store_notification, then the dispatch.
Store(w) ==
    /\ Inside(w, "store", "commit")
    /\ StoreNote(w)
    /\ dispatched' = [dispatched EXCEPT ![TxnOf(w)] = @ + 1]
    /\ UNCHANGED sent

\* A Redis call raised; its write may have been applied.
RedisRaises(w) ==
    /\ \/ pc[w] = "mark" /\ sent' = sent \cup {TxnOf(w)} /\ UNCHANGED stored
       \/ pc[w] = "store" /\ StoreNote(w) /\ UNCHANGED sent
       \/ pc[w] \in {"mark", "existing", "store"} /\ UNCHANGED <<sent, stored>>
    /\ Fault
    /\ RetryOrGiveUp(w, "mark")
    /\ UNCHANGED <<input, committed, owner, dispatched, dlq>>

Commit(w) == CommitAt(w, "commit") /\ UNCHANGED noteVars

CommitRaises(w) ==
    /\ CommitRaisesAt(w, "commit", First(Message(w)))
    /\ UNCHANGED noteVars

Bury(w) == dlq' = dlq \cup {TxnOf(w)}

DeadLetter(w) ==
    /\ pc[w] = "dead_letter"
    /\ Bury(w)
    /\ Goto(w, "dead_commit")
    /\ NoFault
    /\ UNCHANGED <<input, committed, owner, sent, stored, dispatched>>

\* The exception ends the consumer task; the process lives on.
DeadLetterRaises(w) ==
    /\ pc[w] = "dead_letter"
    /\ Fault
    /\ Bury(w) \/ UNCHANGED dlq
    /\ Release(w, "halted")
    /\ UNCHANGED <<input, committed, owner, sent, stored, dispatched>>

DeadCommit(w) == CommitAt(w, "dead_commit") /\ UNCHANGED noteVars

DeadCommitRaises(w) ==
    CommitKillsAt(w, "dead_commit", "halted") /\ UNCHANGED noteVars

-----------------------------------------------------------------------------
Group ==
    /\ (\E w \in Workers : Crash(w) \/ Restart(w)) \/ Rebalance \/ Takeover
    /\ UNCHANGED noteVars

\* NOTIFICATION_TTL_SECONDS after the key was set.
MarkExpires(t) ==
    /\ t \in sent
    /\ Fault
    /\ sent' = sent \ {t}
    /\ UNCHANGED <<input, groupVars, workerVars, stored, dispatched, dlq>>

NoteExpires(t) ==
    /\ stored[t] # NoNote
    /\ Fault
    /\ stored' = [stored EXCEPT ![t] = NoNote]
    /\ UNCHANGED <<input, groupVars, workerVars, sent, dispatched, dlq>>

WorkerStep(w) ==
    \/ Fetch(w) \/ MarkSent(w) \/ ReadExisting(w) \/ Store(w)
    \/ Commit(w) \/ DeadLetter(w) \/ DeadCommit(w)

Failure(w) ==
    \/ RedisRaises(w) \/ CommitRaises(w)
    \/ DeadLetterRaises(w) \/ DeadCommitRaises(w)

Next ==
    \/ \E m \in Messages : Arrive(m)
    \/ \E w \in Workers : WorkerStep(w) \/ Failure(w)
    \/ Group
    \/ \E t \in Txns : MarkExpires(t) \/ NoteExpires(t)

SafeSpec == Init /\ [][Next]_vars

Fairness ==
    /\ \A w \in Workers : WF_vars(WorkerStep(w))
    /\ \A w \in Workers : WF_vars(Restart(w) /\ UNCHANGED noteVars)
    /\ WF_vars(Takeover /\ UNCHANGED noteVars)

Spec == SafeSpec /\ Fairness

-----------------------------------------------------------------------------
(* Properties                                                               *)

\* The offsets the group has passed that asked for a notification.
Due == {m \in Messages : Routed(m) /\ \E p \in Partitions :
                             \E i \in 1..committed[p] : input[p][i] = m}

\* Passed, but neither kept nor dead-lettered nor about to be stored.
Missing ==
    {m.txn : m \in Due} \
        ({t \in Txns : stored[t] # NoNote} \cup dlq
            \cup {TxnOf(w) : w \in {v \in Workers : pc[v] = "store"}})

\* However often an event is delivered, retried or fetched by two replicas,
\* its notification is dispatched once, and once more for each expiry of the
\* mark or other failure.
DispatchedOnce == \A t \in Txns : dispatched[t] <= 1 + faults

\* A notification gets lost only in a failure: between the mark and the
\* store, or with the store.
LossesCostFailures == Cardinality(Missing) <= faults

\* Every event is eventually passed, unless the consumer tasks of all
\* replicas have ended.
SettledOrHalted ==
    \A p \in Partitions : \A i \in 1..MaxLog :
        Len(input[p]) >= i ~>
            committed[p] >= i \/ \A w \in Workers : pc[w] = "halted"

=============================================================================
