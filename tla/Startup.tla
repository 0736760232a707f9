------------------------------- MODULE Startup --------------------------------
(***************************************************************************)
(* How one process of a consuming service starts, and what its consume()   *)
(* makes of outages: the wait_for_..._ready loops, get_producer(), and the *)
(* way an exception leaves.  The five services share the shape and differ  *)
(* in the steps.  payment, fraud and audit run consume() as the program:   *)
(* an exception that leaves it ends the process and the platform starts    *)
(* another.  ledger and notification run it as a task of a web server,     *)
(* which goes on answering /health when the task has ended.                *)
(*                                                                         *)
(* "store" is what the service keeps its state in (Redis, Postgres,        *)
(* Elasticsearch).  A call raises if and only if its dependency is down.   *)
(***************************************************************************)
EXTENDS Naturals

CONSTANTS
    MaxProbes,    \* the 20 attempts of a readiness loop
    MaxStarts,    \* the 10 attempts of get_producer in payment and fraud
    MaxRetries,   \* MAX_PROCESSING_RETRIES
    MaxMessages,  \* bound: messages that wait in the input topic
    MaxIncidents  \* bound: outages, crashes, deployments

ASSUME StartupAssumption ==
    /\ {MaxProbes, MaxStarts, MaxRetries} \subseteq Nat \ {0}
    /\ {MaxMessages, MaxIncidents} \subseteq Nat

Services     == {"payment", "fraud", "ledger", "notification", "audit"}
Hosted       == {"ledger", "notification"}
Dependencies == {"store", "kafka"}

VARIABLES
    service,   \* the program this process runs
    pc,        \* its step; "ended": the web server is there, its task is not
    probes,    \* failed attempts of the readiness loop it is in
    producer,  \* the global: "none", "unstarted" (assigned only) or "started"
    starts,    \* failed attempts of the get_producer call it is in
    attempts,  \* attempts at the message in its hands
    backlog,   \* messages the group has not passed
    down,      \* the dependencies that are away
    incidents

localVars == <<probes, producer, starts, attempts>>
worldVars == <<service, down, incidents>>
startupVars == <<pc, localVars, backlog, worldVars>>

Steps == {"dead", "store_ready", "schema", "kafka_ready", "join", "idle",
          "check", "work", "publish", "mark", "commit", "bury",
          "dead_commit", "ended"}

StartupTypeOK ==
    /\ service \in Services
    /\ pc \in Steps
    /\ probes \in 0..(MaxProbes - 1)
    /\ producer \in {"none", "unstarted", "started"}
    /\ starts \in 0..(MaxStarts - 1)
    /\ attempts \in 0..MaxRetries
    /\ backlog \in 0..MaxMessages
    /\ down \subseteq Dependencies
    /\ incidents \in 0..MaxIncidents

StartupInit ==
    /\ service \in Services
    /\ pc = "dead"
    /\ probes = 0 /\ producer = "none" /\ starts = 0 /\ attempts = 0
    /\ backlog = MaxMessages
    /\ down = {}
    /\ incidents = 0

-----------------------------------------------------------------------------
Up(d) == d \notin down

Goto(step) == pc' = step /\ UNCHANGED <<localVars, backlog, worldVars>>

Reset == probes' = 0 /\ starts' = 0 /\ attempts' = 0

\* Mutant: every service runs consume() as a task.
LeaveTask ==
    /\ pc' = "ended"
    /\ Reset
    /\ UNCHANGED <<producer, backlog, worldVars>>

\* An exception leaves consume(): a process that is not its own program lives
\* on, and keeps what the global holds.
LeaveWith(global) ==
    /\ \/ service \in Hosted /\ pc' = "ended" /\ producer' = global
       \/ service \notin Hosted /\ pc' = "dead" /\ producer' = "none"
    /\ Reset
    /\ UNCHANGED <<backlog, worldVars>>

Leave == LeaveWith(producer)

\* A readiness loop: on to the next step at the first answer, out of
\* consume() after the last attempt.
Probe(step, d, next) ==
    /\ pc = step
    /\ \/ /\ Up(d)
          /\ pc' = next /\ probes' = 0
          /\ UNCHANGED <<producer, starts, attempts, backlog, worldVars>>
       \/ /\ ~Up(d) /\ probes + 1 < MaxProbes
          /\ probes' = probes + 1
          /\ UNCHANGED <<pc, producer, starts, attempts, backlog, worldVars>>
       \/ ~Up(d) /\ probes + 1 = MaxProbes /\ Leave

\* A call outside the retry loop.
CallOrLeave(step, d, next) ==
    /\ pc = step
    /\ \/ Up(d) /\ Goto(next)
       \/ ~Up(d) /\ Leave

-----------------------------------------------------------------------------
(* From the start of the process to the first message                      *)

\* asyncio.run(consume())
Run ==
    /\ pc = "dead" /\ service \notin Hosted
    /\ Goto(IF service = "payment" THEN "kafka_ready" ELSE "store_ready")

\* startup() creates the tables before it creates the task: without the
\* database the process ends, and is started again.
LedgerStartup ==
    /\ pc = "dead" /\ service = "ledger"
    /\ Up("store")
    /\ Goto("store_ready")

NotificationStartup ==
    /\ pc = "dead" /\ service = "notification"
    /\ Goto("store_ready")

PaymentKafkaReady ==
    service = "payment" /\ Probe("kafka_ready", "kafka", "join")

FraudRedisReady ==
    service = "fraud" /\ Probe("store_ready", "store", "kafka_ready")

FraudKafkaReady ==
    service = "fraud" /\ Probe("kafka_ready", "kafka", "join")

\* Only an SQLAlchemyError is waited out; the driver's own OSError is not.
LedgerDatabaseReady ==
    /\ service = "ledger"
    /\ \/ Probe("store_ready", "store", "schema")
       \/ pc = "store_ready" /\ ~Up("store") /\ Leave

\* The second init_db(), inside the task.
LedgerSchema == service = "ledger" /\ CallOrLeave("schema", "store", "kafka_ready")

LedgerKafkaReady ==
    service = "ledger" /\ Probe("kafka_ready", "kafka", "join")

NotificationRedisReady ==
    service = "notification" /\ Probe("store_ready", "store", "kafka_ready")

NotificationKafkaReady ==
    service = "notification" /\ Probe("kafka_ready", "kafka", "join")

AuditElasticsearchReady ==
    service = "audit" /\ Probe("store_ready", "store", "kafka_ready")

AuditKafkaReady ==
    service = "audit" /\ Probe("kafka_ready", "kafka", "join")

\* consumer.start(), once, outside the try block.
Join == CallOrLeave("join", "kafka", "idle")

Start ==
    \/ Run \/ LedgerStartup \/ NotificationStartup
    \/ PaymentKafkaReady
    \/ FraudRedisReady \/ FraudKafkaReady
    \/ LedgerDatabaseReady \/ LedgerSchema \/ LedgerKafkaReady
    \/ NotificationRedisReady \/ NotificationKafkaReady
    \/ AuditElasticsearchReady \/ AuditKafkaReady
    \/ Join

-----------------------------------------------------------------------------
(* The loop over the messages                                              *)

FirstTry == IF service = "payment" THEN "publish" ELSE "work"

\* The except branch: another attempt, or the dead letter.
Raise ==
    /\ \/ attempts < MaxRetries /\ attempts' = attempts + 1 /\ pc' = FirstTry
       \/ attempts = MaxRetries /\ UNCHANGED attempts /\ pc' = "bury"
    /\ starts' = 0
    /\ UNCHANGED <<probes, backlog, worldVars>>

Call(step, d, next) ==
    /\ pc = step
    /\ \/ Up(d) /\ Goto(next)
       \/ ~Up(d) /\ Raise /\ UNCHANGED producer

Take ==
    /\ pc = "idle" /\ backlog > 0
    /\ pc' = IF service = "fraud" THEN "check" ELSE FirstTry
    /\ attempts' = 1
    /\ UNCHANGED <<probes, producer, starts, backlog, worldVars>>

\* already_processed stands before the try block.
Check == CallOrLeave("check", "store", "work")

ProcessMessage ==
    Call("work", "store", IF service = "fraud" THEN "publish" ELSE "commit")

\* get_producer: the global is assigned before start() is awaited, and stays
\* assigned when the last of n starts has failed.
StartProducer(n) ==
    /\ pc \in {"publish", "bury"}
    /\ producer = "none" \/ starts > 0
    /\ \/ /\ Up("kafka")
          /\ producer' = "started" /\ starts' = 0
          /\ UNCHANGED <<pc, probes, attempts, backlog, worldVars>>
       \/ /\ ~Up("kafka")
          /\ producer' = "unstarted" /\ starts + 1 < n
          /\ starts' = starts + 1
          /\ UNCHANGED <<pc, probes, attempts, backlog, worldVars>>
       \/ /\ ~Up("kafka") /\ starts + 1 = n /\ pc = "publish"
          /\ producer' = "unstarted"
          /\ Raise
       \/ /\ ~Up("kafka") /\ starts + 1 = n /\ pc = "bury"
          /\ LeaveWith("unstarted")

PaymentStartProducer == service = "payment" /\ StartProducer(MaxStarts)
FraudStartProducer == service = "fraud" /\ StartProducer(MaxStarts)
LedgerStartProducer == service = "ledger" /\ StartProducer(1)
NotificationStartProducer == service = "notification" /\ StartProducer(1)
AuditStartProducer == service = "audit" /\ StartProducer(1)

GetProducer ==
    \/ PaymentStartProducer \/ FraudStartProducer \/ LedgerStartProducer
    \/ NotificationStartProducer \/ AuditStartProducer

HasProducer == producer # "none" /\ starts = 0

\* send_and_wait on a producer that was never started runs into its timeout.
CanSend == producer = "started" /\ Up("kafka")

Publish ==
    /\ pc = "publish" /\ HasProducer
    /\ \/ CanSend /\ Goto(IF service = "fraud" THEN "mark" ELSE "commit")
       \/ ~CanSend /\ Raise /\ UNCHANGED producer

MarkProcessed == Call("mark", "store", "commit")

Passed ==
    /\ pc' = "idle"
    /\ backlog' = backlog - 1
    /\ Reset
    /\ UNCHANGED <<producer, worldVars>>

CommitOffset ==
    /\ pc = "commit"
    /\ \/ Up("kafka") /\ Passed
       \/ ~Up("kafka") /\ Raise /\ UNCHANGED producer

\* Mutant: a dead letter that cannot be published is logged and passed.
PublishDlqSwallows ==
    /\ pc = "bury" /\ HasProducer
    /\ Goto("dead_commit")

\* publish_dlq, and the commit after it, stand in the except branch.
PublishDlq ==
    /\ pc = "bury" /\ HasProducer
    /\ \/ CanSend /\ Goto("dead_commit")
       \/ ~CanSend /\ Leave

DeadCommit ==
    /\ pc = "dead_commit"
    /\ \/ Up("kafka") /\ Passed
       \/ ~Up("kafka") /\ Leave

Consume ==
    \/ Take \/ Check \/ ProcessMessage \/ GetProducer \/ Publish
    \/ MarkProcessed \/ CommitOffset
    \/ PublishDlq \/ DeadCommit

-----------------------------------------------------------------------------
(* The world around the process                                            *)

Incident == incidents < MaxIncidents /\ incidents' = incidents + 1

Outage(d) ==
    /\ Up(d)
    /\ Incident
    /\ down' = down \cup {d}
    /\ UNCHANGED <<pc, localVars, backlog, service>>

Return(d) ==
    /\ ~Up(d)
    /\ down' = down \ {d}
    /\ UNCHANGED <<pc, localVars, backlog, service, incidents>>

End ==
    /\ pc # "dead"
    /\ Incident
    /\ pc' = "dead" /\ producer' = "none"
    /\ Reset
    /\ UNCHANGED <<backlog, service, down>>

\* A deployment: the server stops, cancels the task and waits for it.
LedgerShutdown == service = "ledger" /\ End
NotificationShutdown == service = "notification" /\ End

\* The process is killed.
Crash == End

StartupNext ==
    \/ Start \/ Consume
    \/ \E d \in Dependencies : Outage(d) \/ Return(d)
    \/ LedgerShutdown \/ NotificationShutdown \/ Crash

\* The process runs, the platform starts another for one that has ended,
\* and no outage lasts for ever.
StartupFairness ==
    /\ WF_startupVars(Start) /\ WF_startupVars(Consume)
    /\ \A d \in Dependencies : WF_startupVars(Return(d))

StartupSafeSpec == StartupInit /\ [][StartupNext]_startupVars

StartupSpec == StartupSafeSpec /\ StartupFairness

-----------------------------------------------------------------------------
(* Properties                                                              *)

\* get_producer leaves a producer that was never started in the global when
\* its attempts are used up (consumer.py:44 of the payment service), and every
\* later call gets that one.  It does not outlive the message: the dead letter
\* needs it too, so consume() ends before another message is taken.
IdleHasUsableProducer == pc = "idle" => producer # "unstarted"

\* With the types of the variables.
StartupInv == StartupTypeOK /\ IdleHasUsableProducer

\* Whatever the outages, every message that waits is passed at last, unless
\* the service is one of the two whose task has ended inside a process that
\* the platform believes to be healthy.
Drained == <>(backlog = 0 \/ (service \in Hosted /\ pc = "ended"))

=============================================================================
