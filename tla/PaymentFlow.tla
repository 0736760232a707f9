----------------------------- MODULE PaymentFlow ------------------------------
(***************************************************************************)
(* The pipeline end to end: payment-initiated -> payment-service ->        *)
(* payment-processed -> fraud-service -> fraud-evaluated -> ledger-service *)
(* and audit-service, and the backup and restore of the ledger             *)
(* (scripts/ledger_backup.sh) that runs next to it.  The notification      *)
(* service, a third reader of fraud-evaluated, is left out: nothing in the *)
(* flow depends on it.                                                     *)
(*                                                                         *)
(* A stage is seen as its AtLeastOnce promise shows it: no replicas, only  *)
(* what becomes of its messages.  The next message may be handled, handled *)
(* again, dead-lettered, and finally passed; one already passed may be     *)
(* handled again by a replica that lost it.  One partition stands for all: *)
(* the messages of a transaction share theirs.                             *)
(***************************************************************************)
EXTENDS Payments, Sequences, FiniteSets

CONSTANTS
    MaxLog,     \* bound: requests that reach payment-initiated
    MaxFaults   \* bound: redeliveries, dead letters, restores and the rest of
                \* what does not happen by itself

ASSUME PaymentFlowAssumption ==
    /\ MaxLog \in Nat
    /\ MaxFaults \in Nat

VARIABLES
    log,       \* log[q]: the messages of topic q
    done,      \* done[s]: how many of them the group of stage s has passed
    next,      \* next[s]: what has become of the one that follows
    buried,    \* buried[s]: the transactions in the DLQ of stage s
    marked,    \* fraud_processed:{txn_id} in Redis
    rows,      \* rows[t]: the rows of transaction t in the ledger
    docs,      \* docs[t]: its document in the audit index
    database,  \* the ledger database: up, absent, or empty (no tables)
    consumer,  \* the consumers of the ledger: running (one of them, at least),
               \* ended in processes that live, or down with their processes
    dump,      \* the latest file in /backups: <<>>, or the rows it holds
    restore,   \* the step of `ledger_backup.sh restore`
    faults

topicVars  == <<log, done, next, buried>>
storeVars  == <<marked, docs>>
ledgerVars == <<rows, database, consumer>>
scriptVars == <<dump, restore>>
vars == <<topicVars, storeVars, ledgerVars, scriptVars, faults>>

Topics == {"initiated", "processed", "evaluated"}
Stages == {"payment", "fraud", "ledger", "audit"}
InputTopic ==
    [payment |-> "initiated", fraud |-> "processed", ledger |-> "evaluated",
     audit |-> "evaluated"]

Verdict(r, status) == [txn |-> r.txn, final_status |-> status]
AllVerdicts == {Verdict(r, s) : r \in Requests, s \in {"approved", "declined"}}

None   == [txn |-> "none"]
NoRows == [t \in Txns |-> <<>>]

Messages(s) == log[InputTopic[s]]
TxnOf(s, i) ==
    LET m == Messages(s)[i] IN IF s = "fraud" THEN m.request.txn ELSE m.txn

TypeOK ==
    /\ log.initiated \in Seq(Requests)
    /\ log.processed \in Seq(ProcessedEvents)
    /\ log.evaluated \in Seq(AllVerdicts)
    /\ \A s \in Stages : done[s] \in 0..Len(Messages(s))
    /\ next \in [Stages -> {"new", "published", "settled"}]
    /\ buried \in [Stages -> SUBSET Txns]
    /\ marked \subseteq Txns
    /\ \A t \in Txns : rows[t] \in Seq(AllVerdicts)
    /\ docs \in [Txns -> AllVerdicts \cup {None}]
    /\ database \in {"up", "absent", "empty"}
    /\ consumer \in {"running", "ended", "down"}
    /\ restore \in {"never", "drop", "create", "load", "copy", "complete", "failed"}
    /\ faults \in 0..MaxFaults

Init ==
    /\ log = [q \in Topics |-> <<>>]
    /\ done = [s \in Stages |-> 0]
    /\ next = [s \in Stages |-> "new"]
    /\ buried = [s \in Stages |-> {}]
    /\ marked = {}
    /\ rows = NoRows
    /\ docs = [t \in Txns |-> None]
    /\ database = "up"
    /\ consumer = "running"
    /\ dump = <<>>
    /\ restore = "never"
    /\ faults = 0

-----------------------------------------------------------------------------
(* What a stage may do with its messages                                   *)

Fault == faults < MaxFaults /\ faults' = faults + 1

Append1(q, m) == log' = [log EXCEPT ![q] = Append(@, m)]

\* The messages a replica can have in its hands.
Reached(s) == {i \in 1..Len(Messages(s)) : i <= done[s] + 1}
IsNext(s, i) == i = done[s] + 1

\* The first handling of a message is free; any other follows a failure.
Deliver(s, i) ==
    /\ i \in Reached(s)
    /\ IF IsNext(s, i) /\ next[s] = "new" THEN UNCHANGED faults ELSE Fault

Becomes(s, i, status) ==
    next' = IF IsNext(s, i) /\ next[s] # "settled"
            THEN [next EXCEPT ![s] = status] ELSE next

\* Mutant: the offset is passed when the message is fetched.
CommitEarly(s) ==
    /\ done[s] < Len(Messages(s))
    /\ done' = [done EXCEPT ![s] = @ + 1]
    /\ next' = [next EXCEPT ![s] = "new"]
    /\ UNCHANGED <<log, buried, storeVars, ledgerVars, scriptVars, faults>>

\* Mutant: the offset after the next message's is passed too.
CommitTwo(s) ==
    /\ next[s] = "settled"
    /\ done' = [done EXCEPT ![s] = @ + 2]
    /\ next' = [next EXCEPT ![s] = "new"]
    /\ UNCHANGED <<log, buried, storeVars, ledgerVars, scriptVars, faults>>

\* The offset is passed once the message is settled.
Commit(s) ==
    /\ next[s] = "settled"
    /\ done' = [done EXCEPT ![s] = @ + 1]
    /\ next' = [next EXCEPT ![s] = "new"]
    /\ UNCHANGED <<log, buried, storeVars, ledgerVars, scriptVars, faults>>

\* Mutant: a dead letter that cannot be published is passed all the same.
BuryNowhere(s, i) ==
    /\ i \in Reached(s)
    /\ Fault
    /\ Becomes(s, i, "settled")
    /\ UNCHANGED <<log, done, buried, storeVars, ledgerVars, scriptVars>>

\* The retries are used up.  While the database is away the ledger needs no
\* other failure for that.
Bury(s, i) ==
    /\ i \in Reached(s)
    /\ \/ Fault
       \/ /\ s = "ledger" /\ database # "up" /\ IsNext(s, i) /\ next[s] = "new"
          /\ UNCHANGED faults
    /\ buried' = [buried EXCEPT ![s] = @ \cup {TxnOf(s, i)}]
    /\ Becomes(s, i, "settled")
    /\ UNCHANGED <<log, done, storeVars, ledgerVars, scriptVars>>

-----------------------------------------------------------------------------
(* What the stages do                                                      *)

\* The gateway queues a request, perhaps one that is there already.
Submit(r) ==
    /\ Len(log.initiated) < MaxLog
    /\ Append1("initiated", r)
    /\ UNCHANGED <<done, next, buried, storeVars, ledgerVars, scriptVars, faults>>

\* payment-service publishes its decision.
Process(i) ==
    /\ Deliver("payment", i)
    /\ Append1("processed", ProcessTransaction(Messages("payment")[i]))
    /\ Becomes("payment", i, "settled")
    /\ UNCHANGED <<done, buried, storeVars, ledgerVars, scriptVars>>

\* evaluate_fraud passes a decline on, and decides the rest by what
\* Redis holds: velocity, location, address.
Outcomes(e) ==
    IF e.processor_status = "rejected" THEN {"declined"}
    ELSE {"approved", "declined"}

\* Mutant: the mark is not read.
EvaluateAlways(i) ==
    LET e == Messages("fraud")[i] IN
    /\ Deliver("fraud", i)
    /\ \E status \in Outcomes(e) :
          Append1("evaluated", Verdict(e.request, status))
    /\ Becomes("fraud", i, "published")
    /\ UNCHANGED <<done, buried, storeVars, ledgerVars, scriptVars>>

\* fraud-service publishes a verdict, unless the transaction is marked.  The
\* mark is read once, before the retry loop: a retry publishes all the same.
Evaluate(i) ==
    LET e == Messages("fraud")[i] IN
    /\ Deliver("fraud", i)
    /\ IsNext("fraud", i) /\ next["fraud"] = "new" => e.request.txn \notin marked
    /\ \E status \in Outcomes(e) :
          Append1("evaluated", Verdict(e.request, status))
    /\ Becomes("fraud", i, "published")
    /\ UNCHANGED <<done, buried, storeVars, ledgerVars, scriptVars>>

\* ... and marks it: by the next message's worker, or one that lost it.
Mark(i) ==
    LET t == TxnOf("fraud", i) IN
    /\ i \in Reached("fraud")
    /\ \E j \in 1..Len(log.evaluated) : log.evaluated[j].txn = t
    /\ IsNext("fraud", i) => next["fraud"] # "new"
    /\ marked' = marked \cup {t}
    /\ Becomes("fraud", i, "settled")
    /\ UNCHANGED <<log, done, buried, docs, ledgerVars, scriptVars, faults>>

\* A transaction that is marked is skipped.
Skip(i) ==
    /\ i \in Reached("fraud") /\ IsNext("fraud", i)
    /\ next["fraud"] = "new"
    /\ TxnOf("fraud", i) \in marked
    /\ Becomes("fraud", i, "settled")
    /\ UNCHANGED <<log, done, buried, storeVars, ledgerVars, scriptVars, faults>>

\* The mark expires (a day), or Redis loses it.
Forget(t) ==
    /\ t \in marked
    /\ Fault
    /\ marked' = marked \ {t}
    /\ UNCHANGED <<topicVars, docs, ledgerVars, scriptVars>>

\* Mutant: ON CONFLICT DO UPDATE.
RecordReplaces(i) ==
    LET v == Messages("ledger")[i] IN
    /\ database = "up"
    /\ Deliver("ledger", i)
    /\ rows' = [rows EXCEPT ![v.txn] = <<v>>]
    /\ Becomes("ledger", i, "settled")
    /\ UNCHANGED <<log, done, buried, storeVars, database, consumer, scriptVars>>

\* record_transaction: a transaction that has a row keeps it.
Record(i) ==
    LET v == Messages("ledger")[i] IN
    /\ database = "up"
    /\ Deliver("ledger", i)
    /\ rows' = IF rows[v.txn] = <<>> THEN [rows EXCEPT ![v.txn] = <<v>>] ELSE rows
    /\ Becomes("ledger", i, "settled")
    /\ UNCHANGED <<log, done, buried, storeVars, database, consumer, scriptVars>>

\* es.index replaces the document of the transaction.
Index(i) ==
    LET v == Messages("audit")[i] IN
    /\ Deliver("audit", i)
    /\ docs' = [docs EXCEPT ![v.txn] = v]
    /\ Becomes("audit", i, "settled")
    /\ UNCHANGED <<log, done, buried, marked, ledgerVars, scriptVars>>

-----------------------------------------------------------------------------
(* Backup and restore of the ledger.  psql runs one statement after the    *)
(* other, each in a transaction of its own, next to the live service; a    *)
(* script that fails or is interrupted leaves the database where it is.    *)

\* backup: pg_dump takes one snapshot.
Dump ==
    /\ database = "up"
    /\ restore \in {"never", "complete", "failed"}
    /\ faults < MaxFaults
    /\ dump' = <<rows>>
    /\ UNCHANGED <<topicVars, storeVars, ledgerVars, restore, faults>>

ScriptStep(from, to) ==
    /\ restore = from
    /\ restore' = to
    /\ UNCHANGED <<topicVars, storeVars, dump>>

\* restore: the file exists, the sessions on the ledger are terminated.
Terminate ==
    /\ \E from \in {"never", "complete", "failed"} : ScriptStep(from, "drop")
    /\ dump # <<>>
    /\ Fault
    /\ UNCHANGED ledgerVars

\* DROP DATABASE IF EXISTS ...
Drop ==
    /\ ScriptStep("drop", "create")
    /\ database' = "absent"
    /\ rows' = NoRows
    /\ UNCHANGED <<consumer, faults>>

\* ... is refused when a session has come back: set -e ends the script.
DropRefused ==
    /\ ScriptStep("drop", "failed")
    /\ database # "absent"
    /\ UNCHANGED <<ledgerVars, faults>>

Create ==
    /\ ScriptStep("create", "load")
    /\ database' = "empty"
    /\ UNCHANGED <<rows, consumer, faults>>

\* psql --file: a dump made with --clean --if-exists drops the tables that
\* are there and creates them, ...
LoadTables ==
    /\ ScriptStep("load", "copy")
    /\ database' = "up"
    /\ rows' = NoRows
    /\ UNCHANGED <<consumer, faults>>

\* ... and then copies the rows.  The constraint on txn_id comes last: a
\* transaction that the live service recorded in between is there twice.
LoadRows ==
    /\ ScriptStep("copy", "complete")
    /\ rows' = [t \in Txns |-> rows[t] \o dump[1][t]]
    /\ UNCHANGED <<database, consumer, faults>>

\* The script is interrupted.
ScriptFails ==
    /\ restore \in {"create", "load", "copy"}
    /\ Fault
    /\ restore' = "failed"
    /\ UNCHANGED <<topicVars, storeVars, ledgerVars, dump>>

Restore ==
    \/ Terminate \/ Drop \/ DropRefused \/ Create
    \/ LoadTables \/ LoadRows \/ ScriptFails

-----------------------------------------------------------------------------
(* The processes of the ledger.  The consumer is a task of a web server:    *)
(* what ends the task does not end the process, and what ends the process   *)
(* needs the database to come back.  The other stages are programs, which   *)
(* the platform starts again.                                               *)

\* A message in hand is handed out again when its consumer is gone.
LetGo == next' = [next EXCEPT !["ledger"] = "new"]

\* The last task that was left ends: its dead letter, or the commit behind it,
\* raised; or the database or Kafka was away for as long as it waits for them.
ConsumerEnds ==
    /\ consumer = "running"
    /\ Fault
    /\ consumer' = "ended"
    /\ LetGo
    /\ UNCHANGED <<log, done, buried, storeVars, rows, database, scriptVars>>

\* The last process is killed, or replaced by a deployment.
LedgerCrash ==
    /\ consumer # "down"
    /\ Fault
    /\ consumer' = "down"
    /\ LetGo
    /\ UNCHANGED <<log, done, buried, storeVars, rows, database, scriptVars>>

\* startup() awaits init_db(), which creates the tables that are missing and
\* raises without a database.  A replica may also start next to one that runs.
LedgerStarts ==
    /\ database # "absent"
    /\ \/ consumer = "down" /\ UNCHANGED faults
       \/ consumer = "running" /\ database = "empty" /\ Fault
    /\ consumer' = "running"
    /\ database' = "up"
    /\ UNCHANGED <<topicVars, storeVars, rows, scriptVars>>

Consuming(s) == s = "ledger" => consumer = "running"

-----------------------------------------------------------------------------
Handle(s, i) ==
    \/ s = "payment" /\ Process(i)
    \/ s = "fraud" /\ (Evaluate(i) \/ Mark(i) \/ Skip(i))
    \/ s = "ledger" /\ Record(i)
    \/ s = "audit" /\ Index(i)

Next ==
    \/ \E r \in Requests : Submit(r)
    \/ \E s \in Stages :
          /\ Consuming(s)
          /\ \/ \E i \in Reached(s) : Handle(s, i) \/ Bury(s, i)
             \/ Commit(s)
    \/ \E t \in Txns : Forget(t)
    \/ Dump
    \/ Restore
    \/ ConsumerEnds \/ LedgerCrash \/ LedgerStarts

SafeSpec == Init /\ [][Next]_vars

\* A stage with a consumer goes on with its next message; a process that is gone
\* is started again, which for the ledger takes a database.  Nobody owes a
\* restore, the end of one that was begun, or the restart of a process whose
\* consumer alone has ended.
Work(s) ==
    /\ Consuming(s)
    /\ \/ Commit(s)
       \/ Handle(s, done[s] + 1)
       \/ database # "up" /\ Bury(s, done[s] + 1)

Fairness ==
    /\ \A s \in Stages : WF_vars(Work(s))
    /\ WF_vars(consumer = "down" /\ LedgerStarts)

Spec == SafeSpec /\ Fairness

-----------------------------------------------------------------------------
(* Properties                                                              *)

OnTheWayTo(sink, t) ==
    \E s \in {"payment", "fraud", sink} :
        \E i \in (done[s] + 1)..Len(Messages(s)) : TxnOf(s, i) = t

BuriedBefore(sink, t) ==
    \E s \in {"payment", "fraud", sink} : t \in buried[s]

\* A payment the gateway queued is at every moment in the topic of a stage
\* that has not passed it, in a dead-letter topic, or in the ledger, and
\* likewise in the audit index.  A restore may take it from the ledger, but
\* one that is complete only if the dump did not have it.
NothingVanishes ==
    \A i \in 1..Len(log.initiated) :
        LET t == log.initiated[i].txn IN
        /\ \/ OnTheWayTo("ledger", t) \/ BuriedBefore("ledger", t)
           \/ rows[t] # <<>>
           \/ restore # "never" /\ (restore = "complete" => dump[1][t] = <<>>)
        /\ \/ OnTheWayTo("audit", t) \/ BuriedBefore("audit", t)
           \/ docs[t] # None

\* With the types of the variables.
FlowInv == TypeOK /\ NothingVanishes

Unsettled(t) ==
    \E i \in (done["ledger"] + 1)..Len(log.evaluated) :
        /\ log.evaluated[i].txn = t
        /\ IsNext("ledger", i) => next["ledger"] = "new"

VerdictsOn(t) == {j \in 1..Len(log.evaluated) : log.evaluated[j].txn = t}

\* However often a client submits a payment, the stores downstream see one
\* verdict on it, and at most one more for every redelivery and every lost mark:
\* without them the ledger and the audit index agree.
VerdictsCostFailures ==
    \A t \in Txns : Cardinality(VerdictsOn(t)) <= 1 + faults

\* As long as the ledger neither dead-letters a verdict nor is restored, its
\* row is the first verdict of the topic, whatever came later: the audit
\* index, which keeps the last one, may differ.
FirstVerdictStands ==
    \A t \in Txns \ buried["ledger"] :
        restore = "never" /\ rows[t] # <<>> =>
            \A j \in VerdictsOn(t) :
                (\A k \in VerdictsOn(t) : j <= k) => rows[t] = <<log.evaluated[j]>>

\* Both: how far the stores that read fraud-evaluated can differ.
StoresFollowVerdicts == VerdictsCostFailures /\ FirstVerdictStands

\* No consumer of the ledger, and nobody who owes one: the tasks have ended, or
\* the processes cannot start.
Stopped == consumer = "ended" \/ (consumer = "down" /\ database = "absent")

\* Without a restore every payment the gateway queued is eventually recorded or
\* in a dead-letter topic.  Next to one, and also when it never ends, a verdict
\* that the ledger has not settled still becomes a row or a dead letter: a
\* consumer that runs passes an absent database by.  The excuse is a ledger that
\* is stopped for good: one that is started again must catch up.
EveryPaymentSettles ==
    \A t \in Txns :
        /\ (\E i \in 1..Len(log.initiated) : log.initiated[i].txn = t)
              ~> \/ BuriedBefore("ledger", t) \/ rows[t] # <<>>
                 \/ restore # "never"
                 \/ []Stopped
        /\ Unsettled(t) ~> (t \in buried["ledger"] \/ rows[t] # <<>> \/ []Stopped)

-----------------------------------------------------------------------------
(* The stages as their services promise them to be                         *)

\* The transactions stage s has handed on.
HandedOn(s) ==
    {t \in Txns :
        CASE s = "payment" ->
                \E j \in 1..Len(log.processed) : log.processed[j].request.txn = t
          [] s = "fraud"  -> VerdictsOn(t) # {}
          [] s = "ledger" -> rows[t] # <<>>
          [] s = "audit"  -> docs[t] # None}

\* What stage s does, seen by itself.
Promise(s) == INSTANCE AtLeastOnce WITH
    Partitions <- {s},
    Keys       <- Txns,
    log        <- [p \in {s} |-> [i \in 1..Len(Messages(s)) |-> TxnOf(s, i)]],
    done       <- [p \in {s} |-> done[s]],
    handled    <- HandedOn(s),
    buried     <- buried[s]

\* Whatever happens to the flow is, for each stage, a step its promise allows or
\* none of its business: what the other stages hand on arrives in its topic, it
\* touches no message beyond its next one, and passes none that it has neither
\* handed on nor buried.  The ledger is held to it until it is restored.
StagesKeepPromises ==
    /\ \A s \in Stages : Promise(s)!Init
    /\ [][\A s \in Stages :
              (s = "ledger" => restore' = "never")
              => UNCHANGED Promise(s)!vars \/ Promise(s)!Next]_vars

=============================================================================
