-------------------------- MODULE PaymentFlowProofs ---------------------------
(***************************************************************************)
(* Proofs about the pipeline and about the processes it is made of.  First  *)
(* Startup, one process from its start to a commit: for any number of       *)
(* attempts, messages, outages, crashes and deployments.  Then PaymentFlow, *)
(* the topics from a request to its verdict: for any requests, any length   *)
(* of the topics, and any number of redeliveries, dead letters and restores.*)
(***************************************************************************)
EXTENDS PaymentFlow, Startup, FiniteSetTheorems, TLAPS

-----------------------------------------------------------------------------
(* Startup: the inductive invariant                                         *)

\* The steps that only some services take.
StepsOfServices ==
    /\ pc \in {"check", "mark"} => service = "fraud"
    /\ pc = "publish" => service \in {"payment", "fraud"}
    /\ pc = "work" => service # "payment"

\* The message in hand is one the group has not passed.
InHandIsWaiting ==
    pc \in {"check", "work", "publish", "mark", "commit", "bury", "dead_commit"}
        => backlog > 0

\* A producer that was never started is seen only between the attempts at the
\* message whose publish or whose dead letter needed it, in a service that
\* publishes, or in a web server whose consumer ended for want of it.
UnstartedInHand ==
    producer = "unstarted" =>
        \/ service \in {"payment", "fraud"} /\ pc \in {"work", "publish", "bury"}
        \/ service \in Hosted /\ pc = "ended"

StartupIInv ==
    StartupTypeOK /\ StepsOfServices /\ InHandIsWaiting /\ UnstartedInHand

-----------------------------------------------------------------------------
(* Startup: what the pieces of a step do                                    *)

\* The numbers of the module.
LEMMA StartupNumbers ==
    ASSUME StartupTypeOK
    PROVE  /\ MaxProbes \in Nat /\ MaxProbes > 0
           /\ MaxStarts \in Nat /\ MaxStarts > 0
           /\ MaxRetries \in Nat /\ MaxRetries > 0
           /\ MaxMessages \in Nat /\ MaxIncidents \in Nat
           /\ probes \in Nat /\ starts \in Nat /\ attempts \in Nat
           /\ attempts <= MaxRetries
           /\ backlog \in Nat /\ backlog <= MaxMessages
           /\ incidents \in Nat
<1>1. /\ MaxProbes \in Nat /\ MaxProbes > 0 /\ MaxStarts \in Nat /\ MaxStarts > 0
      /\ MaxRetries \in Nat /\ MaxRetries > 0
      /\ MaxMessages \in Nat /\ MaxIncidents \in Nat
  BY StartupAssumption
<1>2. QED  BY <1>1 DEF StartupTypeOK

MessageSteps ==
    {"check", "work", "publish", "mark", "commit", "bury", "dead_commit"}

\* A move that changes nothing but the step.
LEMMA GotoKeeps ==
    ASSUME StartupIInv, NEW step \in Steps, Goto(step), pc # "ended",
           step \in {"check", "mark"} => service = "fraud",
           step = "publish" => service \in {"payment", "fraud"},
           step = "work" => service # "payment",
           step \in MessageSteps => backlog > 0,
           producer = "unstarted" => step \in {"work", "publish", "bury"}
    PROVE  StartupIInv'
<1>1. /\ pc' = step
      /\ UNCHANGED <<probes, producer, starts, attempts, backlog>>
      /\ UNCHANGED <<service, down, incidents>>
  BY DEF Goto, localVars, worldVars
<1>2. StartupTypeOK'
  BY <1>1 DEF StartupIInv, StartupTypeOK
<1>3. StepsOfServices' /\ InHandIsWaiting'
  BY <1>1 DEF StepsOfServices, InHandIsWaiting, MessageSteps
<1>4. UnstartedInHand'
  BY <1>1 DEF StartupIInv, UnstartedInHand
<1>5. QED  BY <1>2, <1>3, <1>4 DEF StartupIInv

\* An exception that leaves consume() ends the program and its producer with it,
\* or leaves the producer in the web server that goes on.
LEMMA LeaveWithKeeps ==
    ASSUME StartupIInv, NEW global \in {"none", "unstarted", "started"},
           LeaveWith(global)
    PROVE  StartupIInv'
<1>1. /\ UNCHANGED <<backlog, service, down, incidents>>
      /\ probes' = 0 /\ starts' = 0 /\ attempts' = 0
      /\ \/ service \in Hosted /\ pc' = "ended" /\ producer' = global
         \/ pc' = "dead" /\ producer' = "none"
  BY DEF LeaveWith, Reset, worldVars
<1>2. StartupTypeOK'
  BY <1>1, StartupNumbers DEF StartupIInv, StartupTypeOK, Steps
<1>3. StepsOfServices' /\ InHandIsWaiting'
  BY <1>1 DEF StepsOfServices, InHandIsWaiting
<1>4. UnstartedInHand'
  BY <1>1 DEF StartupIInv, UnstartedInHand, Hosted
<1>5. QED  BY <1>2, <1>3, <1>4 DEF StartupIInv

LEMMA LeaveKeeps ==
    ASSUME StartupIInv, Leave
    PROVE  StartupIInv'
<1>1. producer \in {"none", "unstarted", "started"} /\ LeaveWith(producer)
  BY DEF Leave, StartupIInv, StartupTypeOK
<1>2. PICK global \in {"none", "unstarted", "started"} :
          global = producer /\ LeaveWith(global)
  BY <1>1
<1>3. QED  BY <1>2, LeaveWithKeeps

\* The except branch goes back to the first step of the message or on to its
\* dead letter, and may take an unstarted producer along.
LEMMA RaiseKeeps ==
    ASSUME StartupIInv, Raise, backlog > 0,
           producer' \in {"none", "unstarted", "started"},
           producer' = "unstarted" => service \in {"payment", "fraud"}
    PROVE  StartupIInv'
<1>1. /\ UNCHANGED <<probes, backlog, service, down, incidents>> /\ starts' = 0
      /\ \/ attempts < MaxRetries /\ attempts' = attempts + 1 /\ pc' = FirstTry
         \/ attempts = MaxRetries /\ attempts' = attempts /\ pc' = "bury"
  BY DEF Raise, worldVars
<1>2. \/ pc' = "publish" /\ service = "payment"
      \/ pc' = "work" /\ service # "payment"
      \/ pc' = "bury"
  BY <1>1 DEF FirstTry
<1>3. attempts' \in 0..MaxRetries /\ starts' \in 0..(MaxStarts - 1)
  BY <1>1, StartupNumbers DEF StartupIInv
<1>4. StartupTypeOK'
  BY <1>1, <1>2, <1>3 DEF StartupIInv, StartupTypeOK, Steps
<1>5. StepsOfServices' /\ InHandIsWaiting' /\ UnstartedInHand'
  BY <1>1, <1>2 DEF StepsOfServices, InHandIsWaiting, UnstartedInHand
<1>6. QED  BY <1>4, <1>5 DEF StartupIInv

\* The group passes the message.
LEMMA PassedKeeps ==
    ASSUME StartupIInv, Passed, backlog > 0, producer # "unstarted"
    PROVE  StartupIInv'
<1>1. /\ pc' = "idle" /\ backlog' = backlog - 1
      /\ probes' = 0 /\ starts' = 0 /\ attempts' = 0
      /\ UNCHANGED <<producer, service, down, incidents>>
  BY DEF Passed, Reset, worldVars
<1>2. StartupTypeOK'
  BY <1>1, StartupNumbers DEF StartupIInv, StartupTypeOK, Steps
<1>3. QED
  BY <1>1, <1>2 DEF StartupIInv, StepsOfServices, InHandIsWaiting, UnstartedInHand

\* A readiness loop, at whatever step before the first message.
LEMMA ProbeKeeps ==
    ASSUME StartupIInv, NEW step \in {"store_ready", "kafka_ready"}, NEW d,
           NEW after \in {"schema", "kafka_ready", "join"}, Probe(step, d, after)
    PROVE  StartupIInv'
<1>1. pc = step /\ producer # "unstarted"
  BY DEF Probe, StartupIInv, UnstartedInHand
<1>2. CASE /\ pc' = after /\ probes' = 0
           /\ UNCHANGED <<producer, starts, attempts, backlog, worldVars>>
  <2>1. StartupTypeOK'
    BY <1>2, StartupNumbers DEF StartupIInv, StartupTypeOK, Steps, worldVars
  <2>2. QED
    BY <1>1, <1>2, <2>1
       DEF StartupIInv, StepsOfServices, InHandIsWaiting, UnstartedInHand
<1>3. CASE /\ probes + 1 < MaxProbes /\ probes' = probes + 1
           /\ UNCHANGED <<pc, producer, starts, attempts, backlog, worldVars>>
  <2>1. probes' \in 0..(MaxProbes - 1)
    BY <1>3, StartupNumbers DEF StartupIInv
  <2>2. StartupTypeOK'
    BY <1>3, <2>1 DEF StartupIInv, StartupTypeOK, worldVars
  <2>3. QED
    BY <1>3, <2>2
       DEF StartupIInv, StepsOfServices, InHandIsWaiting, UnstartedInHand, worldVars
<1>4. CASE Leave
  BY <1>4, LeaveKeeps
<1>5. QED  BY <1>2, <1>3, <1>4 DEF Probe

\* get_producer, with up to n attempts: the producer it could not start stays
\* with a service that tries again, or with a process whose task ends.
LEMMA StartProducerKeeps ==
    ASSUME StartupIInv, NEW n \in 1..MaxStarts, StartProducer(n),
           service \in {"payment", "fraud"} \/ n = 1
    PROVE  StartupIInv'
<1>1. /\ pc \in {"publish", "bury"} /\ pc \in MessageSteps /\ backlog > 0
      /\ pc = "publish" => service \in {"payment", "fraud"}
  BY DEF StartProducer, StartupIInv, StepsOfServices, InHandIsWaiting, MessageSteps
<1>2. CASE /\ producer' = "started" /\ starts' = 0
           /\ UNCHANGED <<pc, probes, attempts, backlog, worldVars>>
  <2>1. StartupTypeOK'
    BY <1>2, StartupNumbers DEF StartupIInv, StartupTypeOK, worldVars
  <2>2. QED
    BY <1>2, <2>1
       DEF StartupIInv, StepsOfServices, InHandIsWaiting, UnstartedInHand, worldVars
<1>3. CASE /\ producer' = "unstarted" /\ starts + 1 < n /\ starts' = starts + 1
           /\ UNCHANGED <<pc, probes, attempts, backlog, worldVars>>
  <2>1. starts' \in 0..(MaxStarts - 1) /\ n # 1
    BY <1>3, StartupNumbers DEF StartupIInv
  <2>2. StartupTypeOK'
    BY <1>3, <2>1 DEF StartupIInv, StartupTypeOK, worldVars
  <2>3. QED
    BY <1>1, <1>3, <2>1, <2>2
       DEF StartupIInv, StepsOfServices, InHandIsWaiting, UnstartedInHand, worldVars
<1>4. CASE pc = "publish" /\ producer' = "unstarted" /\ Raise
  BY <1>1, <1>4, RaiseKeeps
<1>5. CASE LeaveWith("unstarted")
  BY <1>5, LeaveWithKeeps
<1>6. QED  BY <1>2, <1>3, <1>4, <1>5 DEF StartProducer

\* What a killed, cancelled or stopped process leaves: nothing of its own.
LEMMA EndKeeps ==
    ASSUME StartupIInv, End
    PROVE  StartupIInv'
<1>1. /\ pc' = "dead" /\ producer' = "none"
      /\ probes' = 0 /\ starts' = 0 /\ attempts' = 0
      /\ UNCHANGED <<backlog, service, down>>
      /\ incidents < MaxIncidents /\ incidents' = incidents + 1
  BY DEF End, Incident, Reset
<1>2. incidents' \in 0..MaxIncidents
  BY <1>1, StartupNumbers DEF StartupIInv
<1>3. StartupTypeOK'
  BY <1>1, <1>2, StartupNumbers DEF StartupIInv, StartupTypeOK, Steps
<1>4. QED
  BY <1>1, <1>3 DEF StartupIInv, StepsOfServices, InHandIsWaiting, UnstartedInHand

-----------------------------------------------------------------------------
(* Startup: the invariant is kept                                           *)

\* A process that is not there yet holds nothing.
LEMMA StartupInitIInv == StartupInit => StartupIInv
<1> SUFFICES ASSUME StartupInit
             PROVE  StartupIInv
  OBVIOUS
<1>1. StartupTypeOK
  BY StartupAssumption DEF StartupInit, StartupTypeOK, Steps
<1>2. QED
  BY <1>1 DEF StartupInit, StartupIInv, StepsOfServices, InHandIsWaiting,
              UnstartedInHand

\* The steps up to the first message.
LEMMA StartKeeps ==
    ASSUME StartupIInv, Start
    PROVE  StartupIInv'
<1>0. producer = "unstarted" => pc \in {"work", "publish", "bury", "ended"}
  BY DEF StartupIInv, UnstartedInHand
<1>1. ASSUME NEW step \in {"store_ready", "kafka_ready", "join", "idle"}, Goto(step),
             pc # "ended", producer # "unstarted"
      PROVE  StartupIInv'
  BY <1>1, GotoKeeps DEF Steps, MessageSteps
<1>2. CASE Run
  BY <1>0, <1>1, <1>2 DEF Run
<1>3. CASE LedgerStartup
  BY <1>0, <1>1, <1>3 DEF LedgerStartup
<1>4. CASE NotificationStartup
  BY <1>0, <1>1, <1>4 DEF NotificationStartup
<1>5. CASE PaymentKafkaReady
  BY <1>5, ProbeKeeps DEF PaymentKafkaReady
<1>6. CASE FraudRedisReady \/ FraudKafkaReady
  BY <1>6, ProbeKeeps DEF FraudRedisReady, FraudKafkaReady
<1>7. CASE LedgerDatabaseReady
  BY <1>7, ProbeKeeps, LeaveKeeps DEF LedgerDatabaseReady
<1>8. CASE LedgerSchema
  BY <1>0, <1>1, <1>8, LeaveKeeps DEF LedgerSchema, CallOrLeave
<1>9. CASE LedgerKafkaReady
  BY <1>9, ProbeKeeps DEF LedgerKafkaReady
<1>10. CASE NotificationRedisReady \/ NotificationKafkaReady
  BY <1>10, ProbeKeeps DEF NotificationRedisReady, NotificationKafkaReady
<1>11. CASE AuditElasticsearchReady \/ AuditKafkaReady
  BY <1>11, ProbeKeeps DEF AuditElasticsearchReady, AuditKafkaReady
<1>12. CASE Join
  BY <1>0, <1>1, <1>12, LeaveKeeps DEF Join, CallOrLeave
<1>13. QED
  BY <1>2, <1>3, <1>4, <1>5, <1>6, <1>7, <1>8, <1>9, <1>10, <1>11, <1>12 DEF Start

\* The steps from a message to the commit of its offset.
LEMMA ConsumeKeeps ==
    ASSUME StartupIInv, Consume
    PROVE  StartupIInv'
<1>0. /\ producer \in {"none", "unstarted", "started"}
      /\ pc \in MessageSteps => backlog > 0 /\ pc # "ended"
      /\ producer = "unstarted" =>
            \/ service \in {"payment", "fraud"} /\ pc \in {"work", "publish", "bury"}
            \/ pc = "ended"
      /\ pc \in {"check", "mark"} => service = "fraud"
      /\ pc = "publish" => service \in {"payment", "fraud"}
      /\ pc = "work" => service # "payment"
  BY DEF StartupIInv, StartupTypeOK, InHandIsWaiting, MessageSteps, UnstartedInHand,
         StepsOfServices
<1>1. ASSUME Raise, UNCHANGED producer, pc \in MessageSteps
      PROVE  StartupIInv'
  BY <1>0, <1>1, RaiseKeeps DEF MessageSteps
<1>2. CASE Take
  <2>1. /\ pc = "idle" /\ backlog > 0 /\ attempts' = 1
        /\ pc' = IF service = "fraud" THEN "check" ELSE FirstTry
        /\ UNCHANGED <<probes, producer, starts, backlog, service, down, incidents>>
    BY <1>2 DEF Take, worldVars
  <2>2. \/ pc' = "check" /\ service = "fraud"
        \/ pc' = "publish" /\ service = "payment"
        \/ pc' = "work" /\ service # "payment"
    BY <2>1 DEF FirstTry
  <2>3. producer # "unstarted" /\ attempts' \in 0..MaxRetries
    BY <1>0, <2>1, StartupNumbers DEF StartupIInv
  <2>4. StartupTypeOK'
    BY <2>1, <2>2, <2>3 DEF StartupIInv, StartupTypeOK, Steps
  <2>5. QED
    BY <2>1, <2>2, <2>3, <2>4
       DEF StartupIInv, StepsOfServices, InHandIsWaiting, UnstartedInHand
<1>3. CASE Check
  <2>1. pc = "check" /\ (Goto("work") \/ Leave)
    BY <1>3 DEF Check, CallOrLeave
  <2>2. QED  BY <1>0, <2>1, GotoKeeps, LeaveKeeps DEF Steps, MessageSteps
<1>4. CASE ProcessMessage
  <2>1. /\ pc = "work"
        /\ \/ Goto("publish") /\ service = "fraud"
           \/ Goto("commit") /\ service # "fraud"
           \/ Raise /\ UNCHANGED producer
    BY <1>4 DEF ProcessMessage, Call
  <2>2. pc \in MessageSteps
    BY <2>1 DEF MessageSteps
  <2>3. CASE Goto("publish") /\ service = "fraud"
    BY <1>0, <2>2, <2>3, GotoKeeps DEF Steps
  <2>4. CASE Goto("commit") /\ service # "fraud"
    <3>1. producer # "unstarted"
      BY <1>0, <2>1, <2>4
    <3>2. QED  BY <1>0, <2>2, <2>4, <3>1, GotoKeeps DEF Steps
  <2>5. CASE Raise /\ UNCHANGED producer
    BY <1>1, <2>2, <2>5
  <2>6. QED  BY <2>1, <2>3, <2>4, <2>5
<1>5. CASE GetProducer
  <2>1. 1 \in 1..MaxStarts /\ MaxStarts \in 1..MaxStarts
    BY StartupNumbers DEF StartupIInv
  <2>2. QED
    BY <1>5, <2>1, StartProducerKeeps
       DEF GetProducer, PaymentStartProducer, FraudStartProducer,
           LedgerStartProducer, NotificationStartProducer, AuditStartProducer
<1>6. CASE Publish
  <2>1. /\ pc = "publish"
        /\ \/ /\ producer = "started"
              /\ \/ Goto("mark") /\ service = "fraud"
                 \/ Goto("commit")
           \/ Raise /\ UNCHANGED producer
    BY <1>6 DEF Publish, CanSend
  <2>2. pc \in MessageSteps
    BY <2>1 DEF MessageSteps
  <2>3. CASE producer = "started" /\ Goto("mark") /\ service = "fraud"
    BY <1>0, <2>2, <2>3, GotoKeeps DEF Steps
  <2>4. CASE producer = "started" /\ Goto("commit")
    BY <1>0, <2>2, <2>4, GotoKeeps DEF Steps
  <2>5. CASE Raise /\ UNCHANGED producer
    BY <1>1, <2>2, <2>5
  <2>6. QED  BY <2>1, <2>3, <2>4, <2>5
<1>7. CASE MarkProcessed
  <2>1. pc = "mark" /\ (Goto("commit") \/ (Raise /\ UNCHANGED producer))
    BY <1>7 DEF MarkProcessed, Call
  <2>2. pc \in MessageSteps /\ producer # "unstarted"
    BY <1>0, <2>1 DEF MessageSteps
  <2>3. CASE Goto("commit")
    BY <1>0, <2>2, <2>3, GotoKeeps DEF Steps
  <2>4. QED  BY <1>1, <2>1, <2>2, <2>3
<1>8. CASE CommitOffset
  <2>1. pc = "commit" /\ (Passed \/ (Raise /\ UNCHANGED producer))
    BY <1>8 DEF CommitOffset
  <2>2. pc \in MessageSteps /\ producer # "unstarted"
    BY <1>0, <2>1 DEF MessageSteps
  <2>3. QED  BY <1>0, <1>1, <2>1, <2>2, PassedKeeps
<1>9. CASE PublishDlq
  <2>1. pc = "bury" /\ ((Goto("dead_commit") /\ producer = "started") \/ Leave)
    BY <1>9 DEF PublishDlq, CanSend
  <2>2. pc \in MessageSteps
    BY <2>1 DEF MessageSteps
  <2>3. CASE Goto("dead_commit") /\ producer = "started"
    BY <1>0, <2>2, <2>3, GotoKeeps DEF Steps
  <2>4. QED  BY <2>1, <2>3, LeaveKeeps
<1>10. CASE DeadCommit
  <2>1. pc = "dead_commit" /\ (Passed \/ Leave)
    BY <1>10 DEF DeadCommit
  <2>2. pc \in MessageSteps /\ producer # "unstarted"
    BY <1>0, <2>1 DEF MessageSteps
  <2>3. QED  BY <1>0, <2>1, <2>2, PassedKeeps, LeaveKeeps
<1>11. QED
  BY <1>2, <1>3, <1>4, <1>5, <1>6, <1>7, <1>8, <1>9, <1>10 DEF Consume

\* Every step keeps the invariant.
LEMMA StartupIInvStep == StartupIInv /\ [StartupNext]_startupVars => StartupIInv'
<1> SUFFICES ASSUME StartupIInv, [StartupNext]_startupVars
             PROVE  StartupIInv'
  OBVIOUS
<1>1. CASE Start
  BY <1>1, StartKeeps
<1>2. CASE Consume
  BY <1>2, ConsumeKeeps
<1>3. ASSUME NEW d \in Dependencies, Outage(d) \/ Return(d)
      PROVE  StartupIInv'
  <2>1. /\ UNCHANGED <<pc, probes, producer, starts, attempts, backlog, service>>
        /\ down' = down \cup {d} \/ down' = down \ {d}
        /\ \/ incidents < MaxIncidents /\ incidents' = incidents + 1
           \/ incidents' = incidents
    BY <1>3 DEF Outage, Return, Incident, localVars
  <2>2. incidents' \in 0..MaxIncidents
    BY <2>1, StartupNumbers DEF StartupIInv, StartupTypeOK
  <2>3. StartupTypeOK'
    BY <2>1, <2>2 DEF StartupIInv, StartupTypeOK
  <2>4. QED
    BY <2>1, <2>3 DEF StartupIInv, StepsOfServices, InHandIsWaiting, UnstartedInHand
<1>4. CASE LedgerShutdown \/ NotificationShutdown \/ Crash
  BY <1>4, EndKeeps DEF LedgerShutdown, NotificationShutdown, Crash
<1>5. CASE UNCHANGED startupVars
  BY <1>5 DEF startupVars, localVars, worldVars, StartupIInv, StartupTypeOK,
              StepsOfServices, InHandIsWaiting, UnstartedInHand
<1>6. QED  BY <1>1, <1>2, <1>3, <1>4, <1>5 DEF StartupNext

-----------------------------------------------------------------------------
(* Startup: the theorems                                                    *)

\* The inductive invariant holds whatever the outages, crashes and deployments.
THEOREM StartupInvariance == StartupSafeSpec => []StartupIInv
BY StartupInitIInv, StartupIInvStep, PTL DEF StartupSafeSpec

\* A producer that could not be started never outlives the message that needed
\* it: the process is back at the topic only with none, or with one that runs.
THEOREM UnstartedProducersEnd == StartupSafeSpec => []StartupInv
<1>1. StartupIInv => StartupInv
  BY DEF StartupIInv, StartupInv, IdleHasUsableProducer, UnstartedInHand
<1>2. QED  BY <1>1, StartupInvariance, PTL

-----------------------------------------------------------------------------
(* PaymentFlow: the inductive invariant                                     *)

\* The variables TypeOK describes by their elements are functions; a restore
\* has a file to read.
ShapesOK ==
    /\ log \in [Topics -> Seq(Requests) \cup Seq(ProcessedEvents) \cup Seq(AllVerdicts)]
    /\ done \in [Stages -> Nat]
    /\ rows \in [Txns -> Seq(AllVerdicts)]
    /\ dump = <<>> \/ dump[1] \in [Txns -> Seq(AllVerdicts)]
    /\ restore \notin {"never", "failed"} => dump # <<>>

\* Only a message that is there becomes something else than new.
NextExists ==
    \A s \in Stages : next[s] # "new" => done[s] < Len(Messages(s))

\* What stage s owes to transaction t before it may pass one of its messages:
\* to bury it, or to hand it on.  A restore excuses the ledger.
Out(s, t) ==
    CASE s = "payment" ->
            \E j \in 1..Len(log.processed) : log.processed[j].request.txn = t
      [] s = "fraud" -> VerdictsOn(t) # {}
      [] s = "ledger" -> rows[t] # <<>> \/ restore # "never"
      [] s = "audit" -> docs[t] # None

Accounted(s, t) == t \in buried[s] \/ Out(s, t)

\* The messages a stage has passed or settled.
Past(s) ==
    {i \in 1..Len(Messages(s)) :
        i <= done[s] \/ (IsNext(s, i) /\ next[s] = "settled")}

PassedIsAccounted ==
    \A s \in Stages : \A i \in Past(s) : Accounted(s, TxnOf(s, i))

\* Whoever finds a mark may skip.
MarkedIsPublished == \A t \in marked : VerdictsOn(t) # {}

\* A complete restore has brought back what the dump had.
RestoredFromDump ==
    restore = "complete" =>
        \A t \in Txns : dump[1][t] # <<>> => rows[t] # <<>>

\* Before the first restore the rows are verdicts of the topic.
RowsHaveVerdicts ==
    restore = "never" => \A t \in Txns : rows[t] # <<>> => VerdictsOn(t) # {}

IInv ==
    /\ TypeOK /\ ShapesOK /\ NextExists
    /\ MarkedIsPublished
    /\ PassedIsAccounted
    /\ RestoredFromDump
    /\ RowsHaveVerdicts
    /\ FirstVerdictStands

-----------------------------------------------------------------------------
(* Lemmas about the data                                                    *)

\* process_transaction copies the request into its result.
LEMMA ResultKeepsRequest ==
    ASSUME NEW r \in Requests
    PROVE  /\ ProcessTransaction(r) \in ProcessedEvents
           /\ ProcessTransaction(r).request = r
<1>1. ProcessTransaction(r).request = r
  <2>1. CASE r.amount <= 0
    BY <2>1 DEF ProcessTransaction, Rejected, Processed
  <2>2. CASE ~(r.amount <= 0)
    BY <2>2 DEF ProcessTransaction, Rejected, Processed
  <2>3. QED  BY <2>1, <2>2
<1>2. QED  BY <1>1 DEF ProcessedEvents

\* Every processed event is about a request.
LEMMA EventHasRequest ==
    ASSUME NEW e \in ProcessedEvents
    PROVE  e.request \in Requests
BY ResultKeepsRequest DEF ProcessedEvents

\* A verdict names its transaction, and is not the absence of a document.
LEMMA VerdictType ==
    ASSUME NEW v \in AllVerdicts
    PROVE  v.txn \in Txns /\ v # None
BY DEF AllVerdicts, Verdict, None, Txns

\* The verdict on a request is one of those.
LEMMA VerdictOfRequest ==
    ASSUME NEW r \in Requests, NEW status \in {"approved", "declined"}
    PROVE  Verdict(r, status) \in AllVerdicts /\ Verdict(r, status).txn = r.txn
BY DEF AllVerdicts, Verdict

\* The outcomes of the fraud rules are statuses.
LEMMA OutcomeType ==
    ASSUME NEW e, NEW status \in Outcomes(e)
    PROVE  status \in {"approved", "declined"}
BY DEF Outcomes

\* The topics of the stages, written out.
LEMMA StageTopics ==
    /\ Messages("payment") = log.initiated
    /\ Messages("fraud") = log.processed
    /\ Messages("ledger") = log.evaluated
    /\ Messages("audit") = log.evaluated
    /\ \A s \in Stages : InputTopic[s] \in Topics
    /\ \A s \in Stages : Messages(s) = log[InputTopic[s]]
BY DEF Messages, InputTopic, Stages, Topics

\* What a topic holds.
LEMMA TopicTypes ==
    ASSUME TypeOK, NEW s \in Stages
    PROVE  /\ Len(Messages(s)) \in Nat
           /\ \A i \in 1..Len(Messages(s)) : TxnOf(s, i) \in Txns
           /\ done[s] \in 0..Len(Messages(s))
<1>1. done[s] \in 0..Len(Messages(s))
  BY DEF TypeOK
<1>2. CASE s = "payment"
  <2>1. Messages(s) \in Seq(Requests)
    BY <1>2, StageTopics DEF TypeOK
  <2>2. \A i \in 1..Len(Messages(s)) : Messages(s)[i] \in Requests
    BY <2>1
  <2>3. QED  BY <1>1, <1>2, <2>1, <2>2 DEF TxnOf, Txns
<1>3. CASE s = "fraud"
  <2>1. Messages(s) \in Seq(ProcessedEvents)
    BY <1>3, StageTopics DEF TypeOK
  <2>2. \A i \in 1..Len(Messages(s)) : Messages(s)[i].request \in Requests
    BY <2>1, EventHasRequest
  <2>3. QED  BY <1>1, <1>3, <2>1, <2>2 DEF TxnOf, Txns
<1>4. CASE s = "ledger" \/ s = "audit"
  <2>1. Messages(s) \in Seq(AllVerdicts)
    BY <1>4, StageTopics DEF TypeOK
  <2>2. \A i \in 1..Len(Messages(s)) : Messages(s)[i].txn \in Txns
    BY <2>1, VerdictType
  <2>3. QED  BY <1>1, <1>4, <2>1, <2>2 DEF TxnOf
<1>5. QED  BY <1>2, <1>3, <1>4 DEF Stages

-----------------------------------------------------------------------------
(* Types                                                                    *)

\* A message more at the end of a topic.
LEMMA AppendEffect ==
    ASSUME TypeOK, ShapesOK, NEW q \in Topics, NEW S, log[q] \in Seq(S),
           NEW m \in S, Append1(q, m)
    PROVE  /\ log'[q] \in Seq(S) /\ Len(log'[q]) = Len(log[q]) + 1
           /\ \A i \in 1..Len(log[q]) : log'[q][i] = log[q][i]
           /\ log'[q][Len(log[q]) + 1] = m
           /\ \A o \in Topics \ {q} : log'[o] = log[o]
           /\ DOMAIN log' = Topics
<1>1. log'[q] = Append(log[q], m)
  BY DEF Append1, ShapesOK
<1>2. /\ Append(log[q], m) \in Seq(S)
      /\ Len(Append(log[q], m)) = Len(log[q]) + 1
      /\ \A i \in 1..Len(log[q]) : Append(log[q], m)[i] = log[q][i]
      /\ Append(log[q], m)[Len(log[q]) + 1] = m
  OBVIOUS
<1>3. \A o \in Topics \ {q} : log'[o] = log[o]
  BY DEF Append1, ShapesOK
<1>4. DOMAIN log' = Topics
  BY DEF Append1, ShapesOK
<1>5. QED  BY <1>1, <1>2, <1>3, <1>4

\* The sequences of the topics, and what is appended to each.
Holds(q) ==
    CASE q = "initiated" -> Requests
      [] q = "processed" -> ProcessedEvents
      [] q = "evaluated" -> AllVerdicts

\* What a step does to the topics: nothing, or one message more.
Sends(q, m) == q \in Topics /\ m \in Holds(q) /\ Append1(q, m)
Quiet == UNCHANGED log

\* Typed topics.
LEMMA HoldsType ==
    ASSUME TypeOK, NEW q \in Topics
    PROVE  log[q] \in Seq(Holds(q))
BY DEF TypeOK, Topics, Holds

\* The topics grow at their end, and keep what they hold.
LEMMA TopicsGrow ==
    ASSUME TypeOK, ShapesOK, Quiet \/ \E q, m : Sends(q, m)
    PROVE  /\ log' \in [Topics -> Seq(Requests) \cup Seq(ProcessedEvents)
                                     \cup Seq(AllVerdicts)]
           /\ \A q \in Topics :
                 /\ log'[q] \in Seq(Holds(q))
                 /\ Len(log[q]) \in Nat /\ Len(log'[q]) \in Nat
                 /\ Len(log'[q]) >= Len(log[q])
                 /\ \A i \in 1..Len(log[q]) : log'[q][i] = log[q][i]
<1>1. CASE Quiet
  <2>1. \A q \in Topics : log[q] \in Seq(Holds(q))
    BY HoldsType
  <2>2. QED  BY <1>1, <2>1 DEF Quiet, ShapesOK
<1>2. ASSUME NEW q, NEW m, Sends(q, m)
      PROVE  /\ \A o \in Topics :
                   /\ log'[o] \in Seq(Holds(o))
                   /\ Len(log[o]) \in Nat /\ Len(log'[o]) \in Nat
                   /\ Len(log'[o]) >= Len(log[o])
                   /\ \A i \in 1..Len(log[o]) : log'[o][i] = log[o][i]
             /\ log' = [o \in Topics |-> log'[o]]
  <2>0. q \in Topics /\ m \in Holds(q) /\ Append1(q, m)
    BY <1>2 DEF Sends
  <2>1. \A o \in Topics : log[o] \in Seq(Holds(o))
    BY HoldsType
  <2>2. /\ log'[q] \in Seq(Holds(q)) /\ Len(log'[q]) = Len(log[q]) + 1
        /\ \A i \in 1..Len(log[q]) : log'[q][i] = log[q][i]
        /\ \A o \in Topics \ {q} : log'[o] = log[o]
    BY <2>0, <2>1, AppendEffect
  <2>3. log' = [o \in Topics |-> log'[o]]
    BY <2>0 DEF Append1, ShapesOK
  <2>4. \A o \in Topics : Len(log[o]) \in Nat
    BY <2>1
  <2>5. QED  BY <2>1, <2>2, <2>3, <2>4
<1>3. ASSUME NEW q \in Topics
      PROVE  Seq(Holds(q)) \subseteq Seq(Requests) \cup Seq(ProcessedEvents)
                                        \cup Seq(AllVerdicts)
  BY <1>3 DEF Topics, Holds
<1>4. QED
  <2>1. CASE \E q, m : Sends(q, m)
    <3>1. PICK q, m : Sends(q, m)
      BY <2>1
    <3>2. QED  BY <1>2, <1>3, <3>1
  <2>2. QED  BY <1>1, <2>1

\* The payment stage sends its decision on the request it holds.
LEMMA ProcessSends ==
    ASSUME IInv, NEW i \in Reached("payment"), Process(i)
    PROVE  /\ Sends("processed", ProcessTransaction(log.initiated[i]))
           /\ ProcessTransaction(log.initiated[i]).request.txn
                  = TxnOf("payment", i)
<1>1. Messages("payment") = log.initiated /\ log.initiated \in Seq(Requests)
  BY StageTopics DEF IInv, TypeOK
<1>2. log.initiated[i] \in Requests
  BY <1>1 DEF Reached
<1>3. Append1("processed", ProcessTransaction(log.initiated[i]))
  BY <1>1 DEF Process
<1>4. ProcessTransaction(log.initiated[i]) \in Holds("processed")
  BY <1>2, ResultKeepsRequest DEF Holds
<1>5. QED
  BY <1>1, <1>2, <1>3, <1>4, ResultKeepsRequest DEF Sends, Topics, TxnOf

\* The fraud stage sends a verdict on the transaction it holds.
LEMMA EvaluateSends ==
    ASSUME IInv, NEW i \in Reached("fraud"), Evaluate(i)
    PROVE  \E v \in AllVerdicts : Sends("evaluated", v) /\ v.txn = TxnOf("fraud", i)
<1>1. Messages("fraud") = log.processed /\ log.processed \in Seq(ProcessedEvents)
  BY StageTopics DEF IInv, TypeOK
<1>2. log.processed[i].request \in Requests
  BY <1>1, EventHasRequest DEF Reached
<1>3. PICK status \in Outcomes(log.processed[i]) :
          Append1("evaluated", Verdict(log.processed[i].request, status))
  BY <1>1 DEF Evaluate
<1>4. /\ Verdict(log.processed[i].request, status) \in AllVerdicts
      /\ Verdict(log.processed[i].request, status).txn = TxnOf("fraud", i)
  BY <1>1, <1>2, OutcomeType, VerdictOfRequest DEF TxnOf
<1>5. QED  BY <1>3, <1>4 DEF Sends, Holds, Topics

\* What the stages send: the gateway requests, the payment stage its
\* decisions, the fraud stage its verdicts.
LEMMA Sending ==
    ASSUME IInv, [Next]_vars
    PROVE  \/ Quiet
           \/ \E r \in Requests : Submit(r) /\ Sends("initiated", r)
           \/ \E i \in Reached("payment") :
                 /\ Process(i)
                 /\ Sends("processed", ProcessTransaction(log.initiated[i]))
                 /\ ProcessTransaction(log.initiated[i]).request.txn
                        = TxnOf("payment", i)
           \/ \E i \in Reached("fraud") : \E v \in AllVerdicts :
                 Evaluate(i) /\ Sends("evaluated", v) /\ v.txn = TxnOf("fraud", i)
<1>1. ASSUME NEW r \in Requests, Submit(r)
      PROVE  Sends("initiated", r)
  BY <1>1 DEF Submit, Sends, Holds, Topics
<1>2. QED
  BY <1>1, ProcessSends, EvaluateSends
     DEF Next, Handle, Mark, Skip, Record, Index, Bury, Commit, Forget, Dump,
         Restore, Terminate, Drop, DropRefused, Create, LoadTables, LoadRows,
         ScriptFails, ConsumerEnds, LedgerCrash, LedgerStarts,
         ScriptStep, topicVars, vars, Quiet

\* A message in a replica's hands becomes something else only as the next one.
LEMMA BecomesEffect ==
    ASSUME TypeOK, NEW s \in Stages, NEW i,
           NEW status \in {"published", "settled"}, Becomes(s, i, status)
    PROVE  /\ next' \in [Stages -> {"new", "published", "settled"}]
           /\ \A o \in Stages \ {s} : next'[o] = next[o]
           /\ \/ next'[s] = next[s]
              \/ next'[s] = status /\ i = done[s] + 1
BY DEF Becomes, IsNext, TypeOK

\* What is done with a message: it is handled or buried.
LEMMA HandlingMoves ==
    ASSUME NEW s \in Stages, NEW i, Handle(s, i) \/ Bury(s, i)
    PROVE  /\ i \in Reached(s) /\ done' = done
           /\ \E status \in {"published", "settled"} : Becomes(s, i, status)
           /\ s # "fraud" => Becomes(s, i, "settled")
<1>1. CASE Bury(s, i)
  BY <1>1 DEF Bury
<1>2. CASE s = "payment" /\ Process(i)
  BY <1>2 DEF Process, Deliver
<1>3. CASE s = "fraud" /\ Evaluate(i)
  BY <1>3 DEF Evaluate, Deliver
<1>4. CASE s = "fraud" /\ Mark(i)
  BY <1>4 DEF Mark
<1>5. CASE s = "fraud" /\ Skip(i)
  BY <1>5 DEF Skip
<1>6. CASE s = "ledger" /\ Record(i)
  BY <1>6 DEF Record, Deliver
<1>7. CASE s = "audit" /\ Index(i)
  BY <1>7 DEF Index, Deliver
<1>8. QED  BY <1>1, <1>2, <1>3, <1>4, <1>5, <1>6, <1>7 DEF Handle

\* How far a stage is: its next message stays what it is, ...
Stays(s) == done'[s] = done[s] /\ next'[s] = next[s]

\* ... is published or settled by what is done with it, ...
Works(s) ==
    /\ done'[s] = done[s] /\ done[s] + 1 \in Reached(s)
    /\ next'[s] \in {"published", "settled"}
    /\ Handle(s, done[s] + 1) \/ Bury(s, done[s] + 1)

\* ... is passed, ...
Passes(s) ==
    /\ next[s] = "settled" /\ next'[s] = "new" /\ done'[s] = done[s] + 1

\* ... or is let go by a consumer of the ledger that is gone.
LetsGo(s) == s = "ledger" /\ done'[s] = done[s] /\ next'[s] = "new"

Moves(s) == Stays(s) \/ Works(s) \/ Passes(s) \/ LetsGo(s)

\* Every step is one of these for every stage.
LEMMA StageStep ==
    ASSUME IInv, [Next]_vars
    PROVE  /\ next' \in [Stages -> {"new", "published", "settled"}]
           /\ done' \in [Stages -> Nat]
           /\ \A s \in Stages : Moves(s)
<1>0. /\ next \in [Stages -> {"new", "published", "settled"}]
      /\ done \in [Stages -> Nat] /\ TypeOK
  BY DEF IInv, TypeOK, ShapesOK
<1> DEFINE Goal == /\ next' \in [Stages -> {"new", "published", "settled"}]
                   /\ done' \in [Stages -> Nat]
                   /\ \A s \in Stages : Moves(s)
<1>1. ASSUME NEW s \in Stages, NEW i \in Reached(s), Handle(s, i) \/ Bury(s, i)
      PROVE  Goal
  <2>1. PICK status \in {"published", "settled"} : Becomes(s, i, status)
    BY <1>1, HandlingMoves
  <2>2. i \in Reached(s) /\ done' = done
    BY <1>1, HandlingMoves
  <2>3. /\ next' \in [Stages -> {"new", "published", "settled"}]
        /\ \A o \in Stages \ {s} : next'[o] = next[o]
        /\ next'[s] = next[s] \/ (next'[s] = status /\ i = done[s] + 1)
    BY <1>0, <2>1, BecomesEffect
  <2>4. Stays(s) \/ Works(s)
    BY <1>1, <2>2, <2>3 DEF Stays, Works
  <2>5. QED  BY <1>0, <2>2, <2>3, <2>4 DEF Stays, Moves
<1>2. ASSUME NEW s \in Stages, Commit(s)
      PROVE  Goal
  BY <1>0, <1>2 DEF Commit, Stays, Passes, Moves
<1>3. ASSUME UNCHANGED <<done, next>>
      PROVE  Goal
  BY <1>0, <1>3 DEF Stays, Moves
<1>4. ASSUME NEW r \in Requests, Submit(r)
      PROVE  Goal
  BY <1>3, <1>4 DEF Submit
<1>5. ASSUME NEW t \in Txns, Forget(t)
      PROVE  Goal
  BY <1>3, <1>5 DEF Forget, topicVars
<1>6. CASE Dump \/ Restore \/ LedgerStarts \/ UNCHANGED vars
  BY <1>3, <1>6
     DEF Dump, Restore, Terminate, Drop, DropRefused, Create, LoadTables,
         LoadRows, ScriptFails, LedgerStarts, ScriptStep, topicVars, vars
<1>7. CASE ConsumerEnds \/ LedgerCrash
  BY <1>0, <1>7
     DEF ConsumerEnds, LedgerCrash, LetGo, Stages, Stays, LetsGo, Moves
<1>8. QED  BY <1>1, <1>2, <1>4, <1>5, <1>6, <1>7 DEF Next

\* A stage never passes the end of its topic, and only a message that is
\* there is worked on.
LEMMA ProgressStep ==
    ASSUME IInv, [Next]_vars, NEW s \in Stages
    PROVE  /\ done'[s] \in 0..Len(Messages(s)')
           /\ next'[s] # "new" => done'[s] < Len(Messages(s)')
           /\ Len(Messages(s)) \in Nat /\ Len(Messages(s)') \in Nat
           /\ Len(Messages(s)') >= Len(Messages(s))
           /\ \A i \in 1..Len(Messages(s)) :
                 Messages(s)'[i] = Messages(s)[i] /\ TxnOf(s, i)' = TxnOf(s, i)
<1>1. /\ done[s] \in 0..Len(Messages(s)) /\ Len(Messages(s)) \in Nat
      /\ next[s] # "new" => done[s] < Len(Messages(s))
  BY TopicTypes DEF IInv, NextExists
<1>2. InputTopic[s] \in Topics /\ Messages(s) = log[InputTopic[s]]
      /\ Messages(s)' = log'[InputTopic[s]]
  BY StageTopics DEF Messages
<1>3. Quiet \/ \E q, m : Sends(q, m)
  BY Sending
<1>4. /\ Len(Messages(s)') \in Nat /\ Len(Messages(s)') >= Len(Messages(s))
      /\ \A i \in 1..Len(Messages(s)) : Messages(s)'[i] = Messages(s)[i]
  BY <1>2, <1>3, TopicsGrow DEF IInv
<1>5. \A i \in 1..Len(Messages(s)) : TxnOf(s, i)' = TxnOf(s, i)
  BY <1>4 DEF TxnOf
<1>6. Stays(s) \/ Works(s) \/ Passes(s) \/ LetsGo(s)
  BY StageStep DEF Moves
<1>7. CASE Stays(s)
  BY <1>1, <1>4, <1>5, <1>7 DEF Stays
<1>8. CASE Works(s)
  <2>1. done[s] + 1 <= Len(Messages(s)) /\ done'[s] = done[s]
    BY <1>8 DEF Works, Reached
  <2>2. QED  BY <1>1, <1>4, <1>5, <2>1
<1>9. CASE Passes(s)
  BY <1>1, <1>4, <1>5, <1>9 DEF Passes
<1>10. CASE LetsGo(s)
  BY <1>1, <1>4, <1>5, <1>10 DEF LetsGo
<1>11. QED  BY <1>6, <1>7, <1>8, <1>9, <1>10

\* The types of what is not a topic or a position in one.
StoreTypes ==
    /\ buried \in [Stages -> SUBSET Txns]
    /\ marked \subseteq Txns
    /\ rows \in [Txns -> Seq(AllVerdicts)]
    /\ docs \in [Txns -> AllVerdicts \cup {None}]
    /\ database \in {"up", "absent", "empty"}
    /\ consumer \in {"running", "ended", "down"}
    /\ restore \in {"never", "drop", "create", "load", "copy", "complete", "failed"}
    /\ dump = <<>> \/ dump[1] \in [Txns -> Seq(AllVerdicts)]
    /\ restore \notin {"never", "failed"} => dump # <<>>
    /\ faults \in 0..MaxFaults

\* The message a ledger or audit replica holds is a verdict.
LEMMA HeldVerdict ==
    ASSUME TypeOK, NEW s \in {"ledger", "audit"}, NEW i \in Reached(s)
    PROVE  /\ Messages(s)[i] \in AllVerdicts /\ Messages(s)[i].txn \in Txns
           /\ TxnOf(s, i) = Messages(s)[i].txn
<1>1. Messages(s) \in Seq(AllVerdicts)
  BY StageTopics DEF TypeOK
<1>2. Messages(s)[i] \in AllVerdicts
  BY <1>1 DEF Reached
<1>3. QED  BY <1>2, VerdictType DEF TxnOf

\* The transaction in a replica's hands.
LEMMA HeldTxn ==
    ASSUME TypeOK, NEW s \in Stages, NEW i \in Reached(s)
    PROVE  TxnOf(s, i) \in Txns
BY TopicTypes DEF Reached

\* At most one failure is counted in a step.
LEMMA FaultsStep ==
    ASSUME IInv, [Next]_vars
    PROVE  faults' \in 0..MaxFaults /\ (faults' = faults \/ faults' = faults + 1)
<1>1. faults \in 0..MaxFaults /\ MaxFaults \in Nat
  BY PaymentFlowAssumption DEF IInv, TypeOK
<1>2. UNCHANGED faults \/ Fault
  BY DEF Next, Submit, Handle, Process, Evaluate, Mark, Skip, Record, Index,
         Deliver, Bury, Commit, Forget, Dump, Restore, Terminate, Drop,
         DropRefused, Create, LoadTables, LoadRows, ScriptFails, ConsumerEnds,
         LedgerCrash, LedgerStarts, ScriptStep, vars
<1>3. QED  BY <1>1, <1>2 DEF Fault

\* Every step keeps the types of the stores.
LEMMA StoresStep == IInv /\ [Next]_vars => StoreTypes'
<1> SUFFICES ASSUME IInv, [Next]_vars
             PROVE  StoreTypes'
  OBVIOUS
<1>1. StoreTypes /\ TypeOK
  BY DEF IInv, TypeOK, ShapesOK, StoreTypes
<1>2. faults' \in 0..MaxFaults
  BY FaultsStep
<1>3. ASSUME UNCHANGED <<buried, storeVars, ledgerVars, scriptVars>>
      PROVE  StoreTypes'
  BY <1>1, <1>2, <1>3 DEF StoreTypes, storeVars, ledgerVars, scriptVars
<1>4. ASSUME NEW r \in Requests, Submit(r)
      PROVE  StoreTypes'
  BY <1>3, <1>4 DEF Submit
<1>5. ASSUME NEW s \in Stages, Commit(s)
      PROVE  StoreTypes'
  BY <1>3, <1>5 DEF Commit
<1>6. ASSUME NEW s \in Stages, NEW i \in Reached(s), Bury(s, i)
      PROVE  StoreTypes'
  <2>1. TxnOf(s, i) \in Txns
    BY <1>1, HeldTxn
  <2>2. /\ buried' = [buried EXCEPT ![s] = @ \cup {TxnOf(s, i)}]
        /\ UNCHANGED <<storeVars, ledgerVars, scriptVars>>
    BY <1>6 DEF Bury
  <2>3. buried' \in [Stages -> SUBSET Txns]
    BY <1>1, <2>1, <2>2 DEF StoreTypes
  <2>4. QED
    BY <1>1, <1>2, <2>2, <2>3 DEF StoreTypes, storeVars, ledgerVars, scriptVars
<1>7. ASSUME NEW i, Process(i) \/ Evaluate(i) \/ Skip(i)
      PROVE  StoreTypes'
  BY <1>3, <1>7 DEF Process, Evaluate, Skip
<1>8. ASSUME NEW i \in Reached("fraud"), Mark(i)
      PROVE  StoreTypes'
  <2>1. TxnOf("fraud", i) \in Txns
    BY <1>1, HeldTxn DEF Stages
  <2>2. QED
    BY <1>1, <1>2, <1>8, <2>1 DEF Mark, StoreTypes, ledgerVars, scriptVars
<1>9. ASSUME NEW i \in Reached("ledger"), Record(i)
      PROVE  StoreTypes'
  <2>1. Messages("ledger")[i] \in AllVerdicts
    BY <1>1, HeldVerdict
  <2>2. <<Messages("ledger")[i]>> \in Seq(AllVerdicts)
    BY <2>1
  <2>3. rows' \in [Txns -> Seq(AllVerdicts)]
    BY <1>1, <1>9, <2>2 DEF Record, StoreTypes
  <2>4. QED
    BY <1>1, <1>2, <1>9, <2>3 DEF Record, StoreTypes, storeVars, scriptVars
<1>10. ASSUME NEW i \in Reached("audit"), Index(i)
       PROVE  StoreTypes'
  <2>1. Messages("audit")[i] \in AllVerdicts
    BY <1>1, HeldVerdict
  <2>2. docs' \in [Txns -> AllVerdicts \cup {None}]
    BY <1>1, <1>10, <2>1 DEF Index, StoreTypes
  <2>3. QED
    BY <1>1, <1>2, <1>10, <2>2 DEF Index, StoreTypes, ledgerVars, scriptVars
<1>11. ASSUME NEW t \in Txns, Forget(t)
       PROVE  StoreTypes'
  BY <1>1, <1>2, <1>11 DEF Forget, StoreTypes, topicVars, ledgerVars, scriptVars
<1>12. CASE Dump
  <2>1. dump' = <<rows>> /\ dump'[1] = rows /\ dump' # <<>>
    BY <1>12 DEF Dump
  <2>2. QED
    BY <1>1, <1>2, <1>12, <2>1 DEF Dump, StoreTypes, topicVars, storeVars, ledgerVars
<1>13. CASE \/ Terminate \/ DropRefused \/ Create \/ ScriptFails
            \/ ConsumerEnds \/ LedgerCrash \/ LedgerStarts
  BY <1>1, <1>2, <1>13
     DEF Terminate, DropRefused, Create, ScriptFails, ConsumerEnds,
         LedgerCrash, LedgerStarts, ScriptStep, StoreTypes, topicVars,
         storeVars, ledgerVars, scriptVars
<1>14. CASE Drop \/ LoadTables
  <2>1. NoRows \in [Txns -> Seq(AllVerdicts)]
    BY DEF NoRows
  <2>2. QED
    BY <1>1, <1>2, <1>14, <2>1
       DEF Drop, LoadTables, ScriptStep, StoreTypes, topicVars, storeVars
<1>15. CASE LoadRows
  <2>1. restore = "copy" /\ dump[1] \in [Txns -> Seq(AllVerdicts)]
    BY <1>1, <1>15 DEF LoadRows, ScriptStep, StoreTypes
  <2>2. \A t \in Txns : rows[t] \o dump[1][t] \in Seq(AllVerdicts)
    BY <1>1, <2>1 DEF StoreTypes
  <2>3. rows' \in [Txns -> Seq(AllVerdicts)]
    BY <1>15, <2>2 DEF LoadRows
  <2>4. QED
    BY <1>1, <1>2, <1>15, <2>3 DEF LoadRows, ScriptStep, StoreTypes, topicVars, storeVars
<1>16. CASE UNCHANGED vars
  BY <1>3, <1>16 DEF vars, topicVars
<1>17. QED
  BY <1>4, <1>5, <1>6, <1>7, <1>8, <1>9, <1>10, <1>11, <1>12, <1>13, <1>14,
     <1>15, <1>16 DEF Next, Handle, Restore

\* Every step keeps the types.
LEMMA TypeStep == IInv /\ [Next]_vars => TypeOK' /\ ShapesOK' /\ NextExists'
<1> SUFFICES ASSUME IInv, [Next]_vars
             PROVE  TypeOK' /\ ShapesOK' /\ NextExists'
  OBVIOUS
<1>1. StoreTypes'
  BY StoresStep
<1>2. /\ next' \in [Stages -> {"new", "published", "settled"}]
      /\ done' \in [Stages -> Nat]
  BY StageStep
<1>3. Quiet \/ \E q, m : Sends(q, m)
  BY Sending
<1>4. /\ log' \in [Topics -> Seq(Requests) \cup Seq(ProcessedEvents)
                                \cup Seq(AllVerdicts)]
      /\ \A q \in Topics : log'[q] \in Seq(Holds(q))
  BY <1>3, TopicsGrow DEF IInv
<1>5. /\ log'.initiated \in Seq(Requests)
      /\ log'.processed \in Seq(ProcessedEvents)
      /\ log'.evaluated \in Seq(AllVerdicts)
  BY <1>4 DEF Topics, Holds
<1>6. \A s \in Stages : /\ done'[s] \in 0..Len(Messages(s)')
                        /\ next'[s] # "new" => done'[s] < Len(Messages(s)')
  BY ProgressStep
<1>7. TypeOK'
  BY <1>1, <1>2, <1>5, <1>6 DEF TypeOK, StoreTypes
<1>8. ShapesOK'
  BY <1>1, <1>2, <1>4 DEF ShapesOK, StoreTypes
<1>9. NextExists'
  BY <1>6 DEF NextExists
<1>10. QED  BY <1>7, <1>8, <1>9

-----------------------------------------------------------------------------
(* Accounts: what a stage has handed on or buried stays so.                 *)

\* The verdicts on a transaction become more, never fewer.
LEMMA VerdictsGrow ==
    ASSUME IInv, [Next]_vars, NEW t
    PROVE  VerdictsOn(t) \subseteq VerdictsOn(t)'
<1>1. Quiet \/ \E q, m : Sends(q, m)
  BY Sending
<1>2. /\ Len(log["evaluated"]) \in Nat /\ Len(log'["evaluated"]) \in Nat
      /\ Len(log'["evaluated"]) >= Len(log["evaluated"])
      /\ \A i \in 1..Len(log["evaluated"]) : log'["evaluated"][i] = log["evaluated"][i]
  BY <1>1, TopicsGrow DEF IInv, Topics
<1>3. QED  BY <1>2 DEF VerdictsOn

\* What a step does to the dead letters: nothing, or one message is buried.
LEMMA BuriedStep ==
    ASSUME IInv, [Next]_vars
    PROVE  \A s \in Stages : buried[s] \subseteq buried'[s]
<1>1. buried \in [Stages -> SUBSET Txns]
  BY DEF IInv, TypeOK
<1>2. ASSUME NEW s \in Stages, NEW i, Bury(s, i)
      PROVE  \A o \in Stages : buried[o] \subseteq buried'[o]
  BY <1>1, <1>2 DEF Bury
<1>3. UNCHANGED buried \/ \E s \in Stages : \E i \in Reached(s) : Bury(s, i)
  BY DEF Next, Submit, Handle, Process, Evaluate, Mark, Skip, Record, Index,
         Commit, Forget, Dump, Restore, Terminate, Drop, DropRefused, Create,
         LoadTables, LoadRows, ScriptFails, ConsumerEnds, LedgerCrash,
         LedgerStarts, ScriptStep, topicVars, vars
<1>4. QED  BY <1>2, <1>3

\* What a step does to the audit index.
LEMMA DocsStep ==
    ASSUME IInv, [Next]_vars
    PROVE  UNCHANGED docs \/ \E i \in Reached("audit") : Index(i)
BY DEF Next, Submit, Handle, Process, Evaluate, Mark, Skip, Record, Bury,
       Commit, Forget, Dump, Restore, Terminate, Drop, DropRefused, Create,
       LoadTables, LoadRows, ScriptFails, ConsumerEnds, LedgerCrash,
       LedgerStarts, ScriptStep, topicVars, storeVars, vars

\* What a step does to the ledger and to the script.
LEMMA RowsStep ==
    ASSUME IInv, [Next]_vars
    PROVE  \/ UNCHANGED <<rows, scriptVars>>
           \/ \E i \in Reached("ledger") : Record(i) /\ UNCHANGED scriptVars
           \/ Dump /\ UNCHANGED <<rows, restore>>
           \/ Terminate /\ UNCHANGED <<rows, dump>>
           \/ LoadRows
           \/ /\ restore \notin {"never", "complete"}
              /\ restore' \notin {"never", "complete"} /\ UNCHANGED dump
           \/ /\ restore' = "failed" /\ restore # "never" /\ UNCHANGED <<rows, dump>>
<1>1. CASE Restore
  BY <1>1
     DEF Restore, Terminate, Drop, DropRefused, Create, LoadTables, LoadRows,
         ScriptFails, ScriptStep, ledgerVars, scriptVars
<1>2. CASE ~Restore
  BY <1>2
     DEF Next, Submit, Handle, Process, Evaluate, Mark, Skip, Record, Index,
         Bury, Commit, Forget, Dump, ConsumerEnds, LedgerCrash, LedgerStarts,
         topicVars, storeVars, ledgerVars, scriptVars, vars
<1>3. QED  BY <1>1, <1>2

\* Record leaves every row there is, and writes its own.
LEMMA RecordKeepsRows ==
    ASSUME IInv, NEW i \in Reached("ledger"), Record(i)
    PROVE  /\ \A t \in Txns : rows[t] # <<>> => rows'[t] = rows[t]
           /\ rows'[TxnOf("ledger", i)] # <<>>
           /\ \A t \in Txns \ {TxnOf("ledger", i)} : rows'[t] = rows[t]
           /\ rows[TxnOf("ledger", i)] = <<>> =>
                  rows'[TxnOf("ledger", i)] = <<Messages("ledger")[i]>>
<1> DEFINE v == Messages("ledger")[i]
<1>1. v \in AllVerdicts /\ v.txn \in Txns /\ TxnOf("ledger", i) = v.txn
  BY HeldVerdict DEF IInv
<1>2. rows \in [Txns -> Seq(AllVerdicts)]
  BY DEF IInv, ShapesOK
<1>3. rows' = IF rows[v.txn] = <<>> THEN [rows EXCEPT ![v.txn] = <<v>>] ELSE rows
  BY DEF Record
<1>4. <<v>> # <<>>
  OBVIOUS
<1> HIDE DEF v
<1>5. CASE rows[v.txn] = <<>>
  BY <1>1, <1>2, <1>3, <1>4, <1>5 DEF v
<1>6. CASE rows[v.txn] # <<>>
  BY <1>1, <1>3, <1>6
<1>7. QED  BY <1>5, <1>6

\* A row leaves the ledger only in a restore, and a restore is not forgotten.
LEMMA LedgerKeeps ==
    ASSUME IInv, [Next]_vars, NEW t \in Txns,
           rows[t] # <<>> \/ restore # "never"
    PROVE  rows'[t] # <<>> \/ restore' # "never"
<1>1. ASSUME NEW i \in Reached("ledger"), Record(i), UNCHANGED scriptVars
      PROVE  rows'[t] # <<>> \/ restore' # "never"
  BY <1>1, RecordKeepsRows DEF scriptVars
<1>2. Terminate \/ LoadRows => restore' # "never"
  BY DEF Terminate, LoadRows, ScriptStep
<1>3. QED  BY <1>1, <1>2, RowsStep DEF scriptVars

\* So does every other account.
LEMMA AccountsStay ==
    ASSUME IInv, [Next]_vars, NEW s \in Stages, NEW t \in Txns, Accounted(s, t)
    PROVE  Accounted(s, t)'
<1>1. CASE t \in buried[s]
  BY <1>1, BuriedStep DEF Accounted
<1>2. CASE s = "payment" /\ Out(s, t)
  <2>1. Quiet \/ \E q, m : Sends(q, m)
    BY Sending
  <2>2. /\ Len(log["processed"]) \in Nat /\ Len(log'["processed"]) \in Nat
        /\ Len(log'["processed"]) >= Len(log["processed"])
        /\ \A i \in 1..Len(log["processed"]) : log'["processed"][i] = log["processed"][i]
    BY <2>1, TopicsGrow DEF IInv, Topics
  <2>3. PICK j \in 1..Len(log.processed) : log.processed[j].request.txn = t
    BY <1>2 DEF Out
  <2>4. j \in 1..Len(log'.processed) /\ log'.processed[j].request.txn = t
    BY <2>2, <2>3
  <2>5. QED  BY <1>2, <2>4 DEF Accounted, Out
<1>3. CASE s = "fraud" /\ Out(s, t)
  <2>1. VerdictsOn(t)' # {}
    BY <1>3, VerdictsGrow DEF Out
  <2>2. QED  BY <1>3, <2>1 DEF Accounted, Out
<1>4. CASE s = "ledger" /\ Out(s, t)
  <2>1. rows'[t] # <<>> \/ restore' # "never"
    BY <1>4, LedgerKeeps DEF Out
  <2>2. QED  BY <1>4, <2>1 DEF Accounted, Out
<1>5. CASE s = "audit" /\ Out(s, t)
  <2>1. docs[t] # None /\ docs \in [Txns -> AllVerdicts \cup {None}]
    BY <1>5 DEF Out, IInv, TypeOK
  <2>2. ASSUME NEW i \in Reached("audit"), Index(i)
        PROVE  docs'[t] # None
    <3>1. Messages("audit")[i] \in AllVerdicts
      BY HeldVerdict DEF IInv
    <3>2. Messages("audit")[i] # None
      BY <3>1, VerdictType
    <3>3. docs' = [docs EXCEPT ![Messages("audit")[i].txn] = Messages("audit")[i]]
      BY <2>2 DEF Index
    <3>4. QED  BY <2>1, <3>2, <3>3
  <2>3. docs'[t] # None
    BY <2>1, <2>2, DocsStep
  <2>4. QED  BY <1>5, <2>3 DEF Accounted, Out
<1>6. QED  BY <1>1, <1>2, <1>3, <1>4, <1>5 DEF Accounted, Stages

\* A message a stage has settled is accounted for: it was handed on, skipped
\* because it had been, or buried.
LEMMA HandlingAccounts ==
    ASSUME IInv, [Next]_vars, NEW s \in Stages, NEW i \in Reached(s),
           Handle(s, i) \/ Bury(s, i)
    PROVE  Accounted(s, TxnOf(s, i))'
<1> DEFINE t == TxnOf(s, i)
<1>1. t \in Txns /\ TxnOf(s, i)' = t
  BY HeldTxn, ProgressStep DEF IInv, Reached
<1>2. CASE Bury(s, i)
  <2>1. t \in buried'[s]
    BY <1>2 DEF Bury, IInv, TypeOK
  <2>2. QED  BY <1>1, <2>1 DEF Accounted
<1>3. CASE s = "payment" /\ Process(i)
  <2>0. log.initiated[i] \in Requests /\ Messages("payment") = log.initiated
    BY <1>3, StageTopics DEF IInv, TypeOK, Reached
  <2>1. /\ Append1("processed", ProcessTransaction(log.initiated[i]))
        /\ ProcessTransaction(log.initiated[i]) \in ProcessedEvents
        /\ ProcessTransaction(log.initiated[i]).request.txn = t
    BY <1>3, <2>0, ResultKeepsRequest DEF Process, TxnOf
  <2>2. log["processed"] \in Seq(ProcessedEvents) /\ "processed" \in Topics
    BY DEF IInv, TypeOK, Topics
  <2>3. /\ Len(log'["processed"]) = Len(log["processed"]) + 1
        /\ log'["processed"][Len(log["processed"]) + 1]
               = ProcessTransaction(log.initiated[i])
    BY <2>1, <2>2, AppendEffect DEF IInv
  <2>4. Len(log["processed"]) \in Nat
    BY <2>2
  <2>5. \E j \in 1..Len(log'.processed) : log'.processed[j].request.txn = t
    BY <2>1, <2>3, <2>4
  <2>6. QED  BY <1>1, <1>3, <2>5 DEF Accounted, Out
<1>4. CASE s = "fraud" /\ Evaluate(i)
  <2>1. PICK v \in AllVerdicts : Append1("evaluated", v) /\ v.txn = t
    <3>1. Messages("fraud") = log.processed /\ log.processed \in Seq(ProcessedEvents)
      BY StageTopics DEF IInv, TypeOK
    <3>2. log.processed[i].request \in Requests
      BY <1>4, <3>1, EventHasRequest DEF Reached
    <3>3. PICK status \in Outcomes(log.processed[i]) :
              Append1("evaluated", Verdict(log.processed[i].request, status))
      BY <1>4, <3>1 DEF Evaluate
    <3>4. QED
      BY <1>4, <3>1, <3>2, <3>3, OutcomeType, VerdictOfRequest DEF TxnOf
  <2>2. log["evaluated"] \in Seq(AllVerdicts) /\ "evaluated" \in Topics
    BY DEF IInv, TypeOK, Topics
  <2>3. /\ Len(log'["evaluated"]) = Len(log["evaluated"]) + 1
        /\ log'["evaluated"][Len(log["evaluated"]) + 1] = v
    BY <2>1, <2>2, AppendEffect DEF IInv
  <2>4. Len(log["evaluated"]) \in Nat
    BY <2>2
  <2>5. VerdictsOn(t)' # {}
    <3>1. Len(log["evaluated"]) + 1 \in VerdictsOn(t)'
      BY <2>1, <2>3, <2>4, <1>1 DEF VerdictsOn
    <3>2. QED  BY <3>1
  <2>6. QED  BY <1>1, <1>4, <2>5 DEF Accounted, Out, VerdictsOn
<1>5. CASE s = "fraud" /\ (Mark(i) \/ Skip(i))
  <2>1. VerdictsOn(t) # {}
    <3>1. CASE Mark(i)
      BY <1>5, <3>1 DEF Mark, VerdictsOn
    <3>2. CASE Skip(i)
      BY <1>5, <3>2 DEF Skip, IInv, MarkedIsPublished
    <3>3. QED  BY <1>5, <3>1, <3>2
  <2>2. Accounted(s, t)
    BY <1>5, <2>1 DEF Accounted, Out
  <2>3. Accounted(s, t)'
    BY <1>1, <1>5, <2>1, VerdictsGrow DEF Accounted, Out, VerdictsOn
  <2>4. QED  BY <1>1, <2>3 DEF Accounted, Out, VerdictsOn
<1>6. CASE s = "ledger" /\ Record(i)
  <2>1. rows'[t] # <<>>
    BY <1>6, RecordKeepsRows
  <2>2. QED  BY <1>1, <1>6, <2>1 DEF Accounted, Out
<1>7. CASE s = "audit" /\ Index(i)
  <2>1. Messages("audit")[i] \in AllVerdicts /\ Messages("audit")[i].txn = t
    BY <1>7, HeldVerdict DEF IInv
  <2>2. Messages("audit")[i] # None
    BY <2>1, VerdictType
  <2>3. docs' = [docs EXCEPT ![t] = Messages("audit")[i]]
    BY <1>7, <2>1 DEF Index
  <2>4. docs'[t] # None
    BY <1>1, <2>2, <2>3 DEF IInv, TypeOK
  <2>5. QED  BY <1>1, <1>7, <2>4 DEF Accounted, Out
<1>8. QED  BY <1>2, <1>3, <1>4, <1>5, <1>6, <1>7 DEF Handle

\* Only what is accounted for is passed.
LEMMA PassedIsAccountedStep == IInv /\ [Next]_vars => PassedIsAccounted'
<1> SUFFICES ASSUME IInv, [Next]_vars, NEW s \in Stages, NEW i \in Past(s)'
             PROVE  Accounted(s, TxnOf(s, i))'
  BY DEF PassedIsAccounted
<1>1. /\ i \in 1..Len(Messages(s)')
      /\ i <= done'[s] \/ (i = done'[s] + 1 /\ next'[s] = "settled")
  BY DEF Past, IsNext
<1>2. /\ done'[s] \in 0..Len(Messages(s)') /\ Len(Messages(s)) \in Nat
      /\ next'[s] # "new" => done'[s] < Len(Messages(s)')
      /\ Len(Messages(s)') \in Nat /\ Len(Messages(s)') >= Len(Messages(s))
      /\ \A k \in 1..Len(Messages(s)) : TxnOf(s, k)' = TxnOf(s, k)
  BY ProgressStep
<1>3. done[s] \in 0..Len(Messages(s))
  BY TopicTypes DEF IInv
<1>4. ASSUME i \in Past(s)
      PROVE  Accounted(s, TxnOf(s, i))'
  <2>1. i \in 1..Len(Messages(s)) /\ Accounted(s, TxnOf(s, i))
    BY <1>4 DEF IInv, PassedIsAccounted, Past
  <2>2. TxnOf(s, i)' = TxnOf(s, i) /\ TxnOf(s, i) \in Txns
    BY <1>2, <2>1, TopicTypes DEF IInv
  <2>3. PICK t \in Txns : t = TxnOf(s, i)
    BY <2>2
  <2>4. Accounted(s, t)'
    BY <2>1, <2>3, AccountsStay
  <2>5. t = TxnOf(s, i)'
    BY <2>2, <2>3
  <2>6. QED  BY <2>4, <2>5 DEF Accounted, Out, VerdictsOn
<1>5. ASSUME i \notin Past(s)
      PROVE  i = done[s] + 1 /\ i \in Reached(s)
             /\ (Handle(s, i) \/ Bury(s, i))
  <2>1. Stays(s) \/ Works(s) \/ Passes(s) \/ LetsGo(s)
    BY StageStep DEF Moves
  <2>2. CASE Stays(s)
    <3>1. done'[s] = done[s] /\ next'[s] = next[s]
      BY <2>2 DEF Stays
    <3>2. CASE i <= done[s]
      BY <1>1, <1>3, <1>5, <3>2, <1>2 DEF Past
    <3>3. CASE i = done[s] + 1 /\ next[s] = "settled"
      <4>1. done[s] < Len(Messages(s))
        BY <3>3 DEF IInv, NextExists
      <4>2. i \in 1..Len(Messages(s))
        BY <1>2, <1>3, <3>3, <4>1
      <4>3. QED  BY <1>5, <3>3, <4>2 DEF Past, IsNext
    <3>4. QED  BY <1>1, <3>1, <3>2, <3>3
  <2>3. CASE Passes(s)
    <3>1. next[s] = "settled" /\ done'[s] = done[s] + 1 /\ next'[s] = "new"
      BY <2>3 DEF Passes
    <3>2. done[s] < Len(Messages(s))
      BY <3>1 DEF IInv, NextExists
    <3>3. i <= done[s] + 1 /\ i \in 1..Len(Messages(s))
      BY <1>1, <1>2, <1>3, <3>1, <3>2
    <3>4. i <= done[s] \/ i = done[s] + 1
      BY <1>2, <1>3, <3>3
    <3>5. QED  BY <1>5, <3>1, <3>3, <3>4 DEF Past, IsNext
  <2>4. CASE Works(s)
    <3>1. /\ done'[s] = done[s] /\ done[s] + 1 \in Reached(s)
          /\ Handle(s, done[s] + 1) \/ Bury(s, done[s] + 1)
      BY <2>4 DEF Works
    <3>2. ~(i <= done[s])
      BY <1>1, <1>2, <1>3, <1>5 DEF Past
    <3>3. i = done[s] + 1
      BY <1>1, <3>1, <3>2
    <3>4. QED  BY <3>1, <3>3
  <2>5. CASE LetsGo(s)
    <3>1. i <= done[s]
      BY <1>1, <2>5 DEF LetsGo
    <3>2. QED  BY <1>1, <1>2, <1>3, <1>5, <3>1 DEF Past
  <2>6. QED  BY <2>1, <2>2, <2>3, <2>4, <2>5
<1>6. ASSUME i \notin Past(s)
      PROVE  Accounted(s, TxnOf(s, i))'
  BY <1>5, <1>6, HandlingAccounts
<1>7. QED  BY <1>4, <1>6

\* A mark is set behind a verdict only.
LEMMA MarkedIsPublishedStep == IInv /\ [Next]_vars => MarkedIsPublished'
<1> SUFFICES ASSUME IInv, [Next]_vars, NEW t \in marked'
             PROVE  VerdictsOn(t)' # {}
  BY DEF MarkedIsPublished
<1>1. marked' \subseteq marked \/ \E i \in Reached("fraud") : Mark(i)
  BY DEF Next, Submit, Handle, Process, Evaluate, Skip, Record, Index, Bury,
         Commit, Forget, Dump, Restore, Terminate, Drop, DropRefused, Create,
         LoadTables, LoadRows, ScriptFails, ConsumerEnds, LedgerCrash,
         LedgerStarts, ScriptStep, storeVars, vars
<1>2. CASE t \in marked
  BY <1>2, VerdictsGrow DEF IInv, MarkedIsPublished
<1>3. CASE t \notin marked
  <2>1. PICK i \in Reached("fraud") : Mark(i)
    BY <1>1, <1>3
  <2>2. t = TxnOf("fraud", i) /\ VerdictsOn(t) # {}
    BY <1>3, <2>1 DEF Mark, VerdictsOn
  <2>3. QED  BY <2>2, VerdictsGrow
<1>4. QED  BY <1>2, <1>3

\* Joining the rows of the dump to those there are loses none of the dump's.
LEMMA JoinKeeps ==
    ASSUME NEW a \in Seq(AllVerdicts), NEW b \in Seq(AllVerdicts), b # <<>>
    PROVE  a \o b # <<>>
<1>1. Len(a) \in Nat /\ Len(b) \in Nat /\ Len(b) > 0
  OBVIOUS
<1>2. Len(a \o b) = Len(a) + Len(b)
  OBVIOUS
<1>3. QED  BY <1>1, <1>2

\* What a complete restore has brought back stays.
LEMMA RestoredFromDumpStep == IInv /\ [Next]_vars => RestoredFromDump'
<1> SUFFICES ASSUME IInv, [Next]_vars, restore' = "complete",
                    NEW t \in Txns, dump'[1][t] # <<>>
             PROVE  rows'[t] # <<>>
  BY DEF RestoredFromDump
<1>1. restore = "complete" /\ dump[1][t] # <<>> => rows[t] # <<>>
  BY DEF IInv, RestoredFromDump
<1>2. CASE UNCHANGED <<rows, scriptVars>>
  BY <1>1, <1>2 DEF scriptVars
<1>3. ASSUME NEW i \in Reached("ledger"), Record(i), UNCHANGED scriptVars
      PROVE  rows'[t] # <<>>
  BY <1>1, <1>3, RecordKeepsRows DEF scriptVars
<1>4. CASE Dump /\ UNCHANGED <<rows, restore>>
  BY <1>4 DEF Dump
<1>5. CASE LoadRows
  <2>1. restore = "copy" /\ dump[1] \in [Txns -> Seq(AllVerdicts)]
        /\ dump' = dump
    BY <1>5 DEF LoadRows, ScriptStep, IInv, ShapesOK
  <2>2. rows'[t] = rows[t] \o dump[1][t]
    BY <1>5 DEF LoadRows
  <2>3. rows[t] \in Seq(AllVerdicts) /\ dump[1][t] \in Seq(AllVerdicts)
    BY <2>1 DEF IInv, ShapesOK
  <2>4. QED  BY <2>1, <2>2, <2>3, JoinKeeps
<1>6. CASE Terminate
  BY <1>6 DEF Terminate, ScriptStep
<1>7. QED  BY <1>2, <1>3, <1>4, <1>5, <1>6, RowsStep

\* Before the first restore only the ledger service writes rows.
LEMMA BeforeRestore ==
    ASSUME IInv, [Next]_vars, restore' = "never"
    PROVE  restore = "never" /\ (UNCHANGED rows \/ \E i \in Reached("ledger") : Record(i))
BY RowsStep DEF scriptVars, Dump, Terminate, LoadRows, ScriptStep

\* What the ledger records is a verdict of the topic.
LEMMA RecordedVerdict ==
    ASSUME IInv, NEW i \in Reached("ledger")
    PROVE  /\ i \in VerdictsOn(TxnOf("ledger", i))
           /\ Messages("ledger")[i] = log.evaluated[i]
           /\ i <= done["ledger"] + 1 /\ TxnOf("ledger", i) \in Txns
BY StageTopics, HeldTxn, HeldVerdict
   DEF Reached, VerdictsOn, IInv, Stages

\* Every step keeps the rows among the verdicts of the topic.
LEMMA RowsHaveVerdictsStep == IInv /\ [Next]_vars => RowsHaveVerdicts'
<1> SUFFICES ASSUME IInv, [Next]_vars, restore' = "never",
                    NEW t \in Txns, rows'[t] # <<>>
             PROVE  VerdictsOn(t)' # {}
  BY DEF RowsHaveVerdicts
<1>1. restore = "never" /\ (UNCHANGED rows \/ \E i \in Reached("ledger") : Record(i))
  BY BeforeRestore
<1>2. CASE rows[t] # <<>>
  <2>1. VerdictsOn(t) # {}
    BY <1>1, <1>2 DEF IInv, RowsHaveVerdicts
  <2>2. QED  BY <2>1, VerdictsGrow
<1>3. CASE rows[t] = <<>>
  <2>1. PICK i \in Reached("ledger") : Record(i)
    BY <1>1, <1>3
  <2>2. t = TxnOf("ledger", i)
    BY <1>3, <2>1, RecordKeepsRows
  <2>3. VerdictsOn(t) # {}
    BY <2>2, RecordedVerdict
  <2>4. QED  BY <2>3, VerdictsGrow
<1>4. QED  BY <1>2, <1>3

\* The ledger records the first verdict of a transaction, and never another.
LEMMA FirstVerdictStep == IInv /\ [Next]_vars => FirstVerdictStands'
<1> SUFFICES ASSUME IInv, [Next]_vars, NEW t \in Txns, t \notin buried'["ledger"],
                    restore' = "never", rows'[t] # <<>>,
                    NEW j \in VerdictsOn(t)', \A k \in VerdictsOn(t)' : j <= k
             PROVE  rows'[t] = <<log'.evaluated[j]>>
  BY DEF FirstVerdictStands
<1>1. restore = "never" /\ (UNCHANGED rows \/ \E i \in Reached("ledger") : Record(i))
  BY BeforeRestore
<1>2. t \notin buried["ledger"]
  BY BuriedStep DEF Stages
<1>3. /\ Len(log["evaluated"]) \in Nat
      /\ \A i \in 1..Len(log["evaluated"]) : log'["evaluated"][i] = log["evaluated"][i]
  <2>1. Quiet \/ \E q, m : Sends(q, m)
    BY Sending
  <2>2. QED  BY <2>1, TopicsGrow DEF IInv, Topics
<1>4. VerdictsOn(t) \subseteq VerdictsOn(t)' /\ j \in Nat
  BY VerdictsGrow DEF VerdictsOn
<1>5. ASSUME NEW i \in VerdictsOn(t)
      PROVE  /\ j \in VerdictsOn(t) /\ log'.evaluated[j] = log.evaluated[j]
             /\ j <= i /\ i \in Nat /\ \A k \in VerdictsOn(t) : j <= k
  <2>1. j <= i /\ i \in 1..Len(log.evaluated)
    BY <1>4 DEF VerdictsOn
  <2>2. j \in 1..Len(log.evaluated)
    BY <1>3, <2>1 DEF VerdictsOn
  <2>3. QED  BY <1>3, <1>4, <2>1, <2>2 DEF VerdictsOn
<1>6. CASE rows[t] # <<>>
  <2>1. rows'[t] = rows[t]
    BY <1>1, <1>6, RecordKeepsRows
  <2>2. PICK i : i \in VerdictsOn(t)
    BY <1>1, <1>6 DEF IInv, RowsHaveVerdicts
  <2>3. /\ j \in VerdictsOn(t) /\ log'.evaluated[j] = log.evaluated[j]
        /\ \A k \in VerdictsOn(t) : j <= k
    BY <1>5, <2>2
  <2>4. rows[t] = <<log.evaluated[j]>>
    BY <1>1, <1>2, <1>6, <2>3 DEF IInv, FirstVerdictStands
  <2>5. QED  BY <2>1, <2>3, <2>4
<1>7. CASE rows[t] = <<>>
  <2>1. PICK i \in Reached("ledger") : Record(i)
    BY <1>1, <1>7
  <2>2. t = TxnOf("ledger", i) /\ rows'[t] = <<Messages("ledger")[i]>>
    BY <1>7, <2>1, RecordKeepsRows
  <2>3. /\ i \in VerdictsOn(t) /\ Messages("ledger")[i] = log.evaluated[i]
        /\ i <= done["ledger"] + 1
    BY <2>2, RecordedVerdict
  <2>4. /\ j \in VerdictsOn(t) /\ log'.evaluated[j] = log.evaluated[j]
        /\ j <= i /\ i \in Nat
    BY <1>5, <2>3
  <2>5. ASSUME j < i
        PROVE  FALSE
    <3>1. done["ledger"] \in Nat /\ j <= done["ledger"]
      BY <2>3, <2>4, <2>5, <1>4 DEF IInv, ShapesOK, Stages
    <3>2. j \in Past("ledger") /\ TxnOf("ledger", j) = t
      BY <2>4, <3>1, StageTopics DEF Past, VerdictsOn, TxnOf
    <3>3. Accounted("ledger", t)
      BY <3>2 DEF IInv, PassedIsAccounted, Stages
    <3>4. QED  BY <1>1, <1>2, <1>7, <3>3 DEF Accounted, Out
  <2>6. j = i
    BY <2>4, <2>5, <1>4
  <2>7. QED  BY <2>2, <2>3, <2>4, <2>6
<1>8. QED  BY <1>6, <1>7

\* Before the first request there is nothing to lose.
LEMMA InitIInv == Init => IInv
<1> SUFFICES ASSUME Init
             PROVE  IInv
  OBVIOUS
<1>1. /\ log = [q \in Topics |-> <<>>] /\ done = [s \in Stages |-> 0]
      /\ next = [s \in Stages |-> "new"] /\ buried = [s \in Stages |-> {}]
      /\ marked = {} /\ rows = NoRows /\ docs = [t \in Txns |-> None]
      /\ database = "up" /\ consumer = "running"
      /\ dump = <<>> /\ restore = "never" /\ faults = 0
  BY DEF Init
<1>2. \A s \in Stages : Messages(s) = <<>> /\ Len(Messages(s)) = 0
  BY <1>1, StageTopics
<1>3. \A t \in Txns : rows[t] = <<>> /\ NoRows[t] = <<>>
  BY <1>1 DEF NoRows
<1>4. ShapesOK
  BY <1>1 DEF ShapesOK, NoRows
<1>5. TypeOK
  <2>1. \A q \in Topics : log[q] = <<>>
    BY <1>1
  <2>2. log.initiated = <<>> /\ log.processed = <<>> /\ log.evaluated = <<>>
    BY <2>1 DEF Topics
  <2>3. \A s \in Stages : done[s] \in 0..Len(Messages(s))
    BY <1>1, <1>2
  <2>4. \A t \in Txns : rows[t] \in Seq(AllVerdicts)
    BY <1>4 DEF ShapesOK
  <2>5. /\ log.initiated \in Seq(Requests)
        /\ log.processed \in Seq(ProcessedEvents)
        /\ log.evaluated \in Seq(AllVerdicts)
    BY <2>2
  <2>6. /\ next \in [Stages -> {"new", "published", "settled"}]
        /\ buried \in [Stages -> SUBSET Txns] /\ marked \subseteq Txns
        /\ docs \in [Txns -> AllVerdicts \cup {None}]
    BY <1>1
  <2>7. faults \in 0..MaxFaults
    BY <1>1, PaymentFlowAssumption
  <2>8. QED  BY <1>1, <2>3, <2>4, <2>5, <2>6, <2>7 DEF TypeOK
<1>6. NextExists /\ PassedIsAccounted
  BY <1>1, <1>2 DEF NextExists, PassedIsAccounted, Past
<1>7. MarkedIsPublished /\ RestoredFromDump /\ RowsHaveVerdicts /\ FirstVerdictStands
  BY <1>1, <1>3
     DEF MarkedIsPublished, RestoredFromDump, RowsHaveVerdicts, FirstVerdictStands
<1>8. QED  BY <1>4, <1>5, <1>6, <1>7 DEF IInv

\* Every step keeps all of it.
LEMMA IInvStep == IInv /\ [Next]_vars => IInv'
BY TypeStep, PassedIsAccountedStep, MarkedIsPublishedStep, RestoredFromDumpStep,
   RowsHaveVerdictsStep, FirstVerdictStep
   DEF IInv

-----------------------------------------------------------------------------
(* What the invariant says of the whole flow                                *)

\* The invariant of the flow holds whatever is redelivered and restored.
THEOREM Invariance == SafeSpec => []IInv
BY InitIInv, IInvStep, PTL DEF SafeSpec

\* A message of a stage is still before it, or accounted for.
LEMMA BeforeOrAccounted ==
    ASSUME IInv, NEW s \in Stages, NEW i \in 1..Len(Messages(s))
    PROVE  \/ i \in (done[s] + 1)..Len(Messages(s))
           \/ Accounted(s, TxnOf(s, i))
<1>1. done[s] \in 0..Len(Messages(s)) /\ Len(Messages(s)) \in Nat
  BY TopicTypes DEF IInv
<1>2. CASE i <= done[s]
  BY <1>2 DEF IInv, PassedIsAccounted, Past
<1>3. CASE ~(i <= done[s])
  BY <1>1, <1>3
<1>4. QED  BY <1>2, <1>3

\* A verdict of the topic is on its way to the sink, buried there, or in it.
LEMMA AtTheSink ==
    ASSUME IInv, NEW sink \in {"ledger", "audit"}, NEW t \in Txns,
           VerdictsOn(t) # {}
    PROVE  OnTheWayTo(sink, t) \/ BuriedBefore(sink, t) \/ Out(sink, t)
<1>1. PICK k \in 1..Len(log.evaluated) : log.evaluated[k].txn = t
  BY DEF VerdictsOn
<1>2. /\ sink \in Stages /\ Messages(sink) = log.evaluated
      /\ k \in 1..Len(Messages(sink)) /\ TxnOf(sink, k) = t
  BY <1>1, StageTopics DEF Stages, TxnOf
<1>3. \/ k \in (done[sink] + 1)..Len(Messages(sink))
      \/ t \in buried[sink] \/ Out(sink, t)
  BY <1>2, BeforeOrAccounted DEF Accounted
<1>4. QED  BY <1>2, <1>3 DEF OnTheWayTo, BuriedBefore

\* So is a request, through the stages before.
LEMMA OnTheWay ==
    ASSUME IInv, NEW i \in 1..Len(log.initiated),
           NEW sink \in {"ledger", "audit"}
    PROVE  LET t == log.initiated[i].txn IN
           OnTheWayTo(sink, t) \/ BuriedBefore(sink, t) \/ Out(sink, t)
<1> DEFINE t == log.initiated[i].txn
<1>1. /\ "payment" \in Stages /\ Messages("payment") = log.initiated
      /\ i \in 1..Len(Messages("payment")) /\ TxnOf("payment", i) = t
  BY StageTopics DEF Stages, TxnOf
<1>2. t \in Txns
  BY <1>1, TopicTypes DEF IInv
<1> HIDE DEF t
<1>3. \/ i \in (done["payment"] + 1)..Len(Messages("payment"))
      \/ t \in buried["payment"] \/ Out("payment", t)
  BY <1>1, BeforeOrAccounted DEF Accounted
<1>4. CASE Out("payment", t)
  <2>1. PICK j \in 1..Len(log.processed) : log.processed[j].request.txn = t
    BY <1>4 DEF Out
  <2>2. /\ "fraud" \in Stages /\ Messages("fraud") = log.processed
        /\ j \in 1..Len(Messages("fraud")) /\ TxnOf("fraud", j) = t
    BY <2>1, StageTopics DEF Stages, TxnOf
  <2>3. \/ j \in (done["fraud"] + 1)..Len(Messages("fraud"))
        \/ t \in buried["fraud"] \/ Out("fraud", t)
    BY <2>2, BeforeOrAccounted DEF Accounted
  <2>4. CASE Out("fraud", t)
    <3>1. VerdictsOn(t) # {}
      BY <2>4 DEF Out
    <3>2. QED  BY <1>2, <3>1, AtTheSink DEF t
  <2>5. QED  BY <2>2, <2>3, <2>4 DEF OnTheWayTo, BuriedBefore, t
<1>5. QED  BY <1>1, <1>3, <1>4 DEF OnTheWayTo, BuriedBefore, t

\* A payment the gateway queued is at every moment in a topic before a stage,
\* in a dead-letter topic, or in ledger and index; only a restore takes it from
\* the ledger, and a complete one only if the dump did not have it.
THEOREM NoPaymentVanishes == SafeSpec => []FlowInv
<1>1. IInv => NothingVanishes
  <2> SUFFICES ASSUME IInv, NEW i \in 1..Len(log.initiated)
               PROVE  LET t == log.initiated[i].txn IN
                      /\ \/ OnTheWayTo("ledger", t) \/ BuriedBefore("ledger", t)
                         \/ rows[t] # <<>>
                         \/ restore # "never"
                            /\ (restore = "complete" => dump[1][t] = <<>>)
                      /\ \/ OnTheWayTo("audit", t) \/ BuriedBefore("audit", t)
                         \/ docs[t] # None
    BY DEF NothingVanishes
  <2> DEFINE t == log.initiated[i].txn
  <2>1. t \in Txns
    <3>1. TxnOf("payment", i) = t /\ i \in 1..Len(Messages("payment"))
      BY StageTopics DEF TxnOf
    <3>2. QED  BY <3>1, TopicTypes DEF IInv, Stages
  <2>2. /\ OnTheWayTo("ledger", t) \/ BuriedBefore("ledger", t) \/ Out("ledger", t)
        /\ OnTheWayTo("audit", t) \/ BuriedBefore("audit", t) \/ Out("audit", t)
    BY OnTheWay
  <2> HIDE DEF t
  <2>3. Out("ledger", t) => \/ rows[t] # <<>>
                            \/ restore # "never"
                               /\ (restore = "complete" => dump[1][t] = <<>>)
    BY <2>1 DEF Out, IInv, RestoredFromDump
  <2>4. Out("audit", t) => docs[t] # None
    BY DEF Out
  <2>5. QED  BY <2>2, <2>3, <2>4 DEF t
<1>2. IInv => FlowInv
  BY <1>1 DEF IInv, FlowInv
<1>3. QED  BY <1>2, Invariance, PTL

-----------------------------------------------------------------------------
(* What a verdict costs                                                     *)

\* The next message of the fraud stage is about t, and its verdict is out.
Decided(t) == next["fraud"] = "published" /\ TxnOf("fraud", done["fraud"] + 1) = t

\* One more verdict on t is free as long as neither the mark nor the worker
\* stands in its way.
Free(t) == IF t \in marked \/ Decided(t) THEN 0 ELSE 1

VerdictsInv ==
    \A t \in Txns : Cardinality(VerdictsOn(t)) + Free(t) <= 1 + faults

\* The verdicts on a transaction are finitely many.
LEMMA VerdictsFinite ==
    ASSUME TypeOK, NEW t
    PROVE  IsFiniteSet(VerdictsOn(t)) /\ Cardinality(VerdictsOn(t)) \in Nat
<1>1. Len(log.evaluated) \in Int /\ 1 \in Int
  BY DEF TypeOK
<1>2. IsFiniteSet(1..Len(log.evaluated))
  BY <1>1, FS_Interval
<1>3. VerdictsOn(t) \in SUBSET (1..Len(log.evaluated))
  BY DEF VerdictsOn
<1>4. QED  BY <1>2, <1>3, FS_Subset, FS_CardinalityType

\* The next message of the fraud stage stays the same until it is passed.
LEMMA NextTxn ==
    ASSUME IInv, [Next]_vars, next["fraud"] # "new" \/ done["fraud"] + 1 \in Reached("fraud"),
           done'["fraud"] = done["fraud"]
    PROVE  TxnOf("fraud", done["fraud"] + 1)' = TxnOf("fraud", done["fraud"] + 1)
<1>1. done["fraud"] + 1 \in 1..Len(Messages("fraud"))
  <2>1. done["fraud"] \in Nat /\ Len(Messages("fraud")) \in Nat
    BY TopicTypes DEF IInv, ShapesOK, Stages
  <2>2. done["fraud"] < Len(Messages("fraud")) \/ done["fraud"] + 1 \in Reached("fraud")
    BY DEF IInv, NextExists, Stages
  <2>3. QED  BY <2>1, <2>2 DEF Reached
<1>2. PICK k : k = done["fraud"] + 1
  OBVIOUS
<1>3. TxnOf("fraud", k)' = TxnOf("fraud", k)
  BY <1>1, <1>2, ProgressStep DEF Stages
<1>4. Messages("fraud")'[k] = Messages("fraud")[k]
  BY <1>1, <1>2, ProgressStep DEF Stages
<1>5. k = done'["fraud"] + 1
  BY <1>2
<1>6. QED  BY <1>2, <1>4, <1>5 DEF TxnOf

\* A decided transaction stays decided, is marked, or costs a failure.
LEMMA DecidedStep ==
    ASSUME IInv, [Next]_vars, NEW t, Decided(t)
    PROVE  Decided(t)' \/ t \in marked' \/ Fault
<1>1. next["fraud"] = "published" /\ TxnOf("fraud", done["fraud"] + 1) = t
  BY DEF Decided
<1>2. Stays("fraud") \/ Works("fraud") \/ Passes("fraud")
  BY StageStep DEF Stages, Moves, LetsGo
<1>3. CASE Stays("fraud")
  BY <1>1, <1>3, NextTxn DEF Stays, Decided
<1>4. CASE Works("fraud")
  <2>1. /\ done'["fraud"] = done["fraud"] /\ done["fraud"] + 1 \in Reached("fraud")
        /\ next'["fraud"] \in {"published", "settled"}
        /\ Handle("fraud", done["fraud"] + 1) \/ Bury("fraud", done["fraud"] + 1)
    BY <1>4 DEF Works
  <2>2. CASE Evaluate(done["fraud"] + 1)
    <3>1. next'["fraud"] = "published"
      BY <1>1, <2>2 DEF Evaluate, Becomes, IsNext, IInv, TypeOK
    <3>2. QED  BY <1>1, <2>1, <3>1, NextTxn DEF Decided
  <2>3. CASE Mark(done["fraud"] + 1)
    BY <1>1, <2>3 DEF Mark
  <2>4. CASE Skip(done["fraud"] + 1)
    BY <1>1, <2>4 DEF Skip
  <2>5. CASE Bury("fraud", done["fraud"] + 1)
    BY <2>5 DEF Bury
  <2>6. QED  BY <2>1, <2>2, <2>3, <2>4, <2>5 DEF Handle
<1>5. CASE Passes("fraud")
  BY <1>1, <1>5 DEF Passes
<1>6. QED  BY <1>2, <1>3, <1>4, <1>5

\* A verdict becomes free only by a failure.
LEMMA FreeStep ==
    ASSUME IInv, [Next]_vars, NEW t \in Txns
    PROVE  Free(t)' <= Free(t) \/ Fault
<1>1. marked \subseteq marked' \/ \E u \in Txns : Forget(u)
  BY DEF Next, Submit, Handle, Process, Evaluate, Mark, Skip, Record, Index,
         Bury, Commit, Dump, Restore, Terminate, Drop, DropRefused, Create,
         LoadTables, LoadRows, ScriptFails, ConsumerEnds, LedgerCrash,
         LedgerStarts, ScriptStep, storeVars, vars
<1>2. marked \subseteq marked' \/ Fault
  BY <1>1 DEF Forget
<1>3. QED  BY <1>2, DecidedStep DEF Free

\* A verdict that is not free costs a failure; the free one is used up.
LEMMA EvaluateStep ==
    ASSUME IInv, [Next]_vars, NEW i \in Reached("fraud"), Evaluate(i), NEW t \in Txns
    PROVE  /\ Free(t)' <= Free(t)
           /\ t = TxnOf("fraud", i) =>
                 Fault \/ (UNCHANGED faults /\ Free(t) = 1 /\ Free(t)' = 0)
<1>1. /\ UNCHANGED marked /\ done' = done /\ Becomes("fraud", i, "published")
      /\ Deliver("fraud", i)
      /\ IsNext("fraud", i) /\ next["fraud"] = "new" => TxnOf("fraud", i) \notin marked
  BY DEF Evaluate, storeVars, TxnOf
<1>2. ASSUME Decided(t)
      PROVE  Decided(t)'
  <2>1. next["fraud"] = "published" /\ TxnOf("fraud", done["fraud"] + 1) = t
    BY <1>2 DEF Decided
  <2>2. next'["fraud"] = "published"
    BY <1>1, <2>1 DEF Becomes, IInv, TypeOK
  <2>3. QED  BY <1>1, <2>1, <2>2, NextTxn DEF Decided
<1>3. ASSUME t = TxnOf("fraud", i), ~Fault
      PROVE  UNCHANGED faults /\ Free(t) = 1 /\ Free(t)' = 0
  <2>1. IsNext("fraud", i) /\ next["fraud"] = "new" /\ UNCHANGED faults
    BY <1>1, <1>3 DEF Deliver
  <2>2. t \notin marked /\ ~Decided(t)
    BY <1>1, <1>3, <2>1 DEF Decided
  <2>3. i = done["fraud"] + 1 /\ next'["fraud"] = "published"
    BY <1>1, <2>1 DEF IsNext, Becomes, IInv, TypeOK, Stages
  <2>4. Decided(t)'
    BY <1>1, <1>3, <2>3, NextTxn DEF Decided
  <2>5. QED  BY <2>1, <2>2, <2>4 DEF Free
<1>4. QED  BY <1>1, <1>2, <1>3 DEF Free

\* Only the fraud stage adds a verdict, one at a time.
LEMMA VerdictsStep ==
    ASSUME IInv, [Next]_vars, NEW t \in Txns
    PROVE  \/ VerdictsOn(t)' = VerdictsOn(t)
           \/ \E i \in Reached("fraud") :
                 /\ Evaluate(i) /\ t = TxnOf("fraud", i)
                 /\ \E n : VerdictsOn(t)' = VerdictsOn(t) \cup {n}
<1>0. log["evaluated"] \in Seq(AllVerdicts) /\ Len(log["evaluated"]) \in Nat
      /\ Topics = {"initiated", "processed", "evaluated"}
  BY DEF IInv, TypeOK, Topics
<1>1. CASE log'["evaluated"] = log["evaluated"]
  BY <1>1 DEF VerdictsOn
<1>2. ASSUME NEW q, NEW m, Sends(q, m), q # "evaluated"
      PROVE  log'["evaluated"] = log["evaluated"]
  BY <1>0, <1>2 DEF Sends, Append1, IInv, ShapesOK
<1>3. ASSUME NEW i \in Reached("fraud"), NEW v \in AllVerdicts, Evaluate(i),
             Sends("evaluated", v), v.txn = TxnOf("fraud", i)
      PROVE  \/ VerdictsOn(t)' = VerdictsOn(t)
             \/ /\ t = TxnOf("fraud", i)
                /\ \E n : VerdictsOn(t)' = VerdictsOn(t) \cup {n}
  <2>1. /\ Len(log'["evaluated"]) = Len(log["evaluated"]) + 1
        /\ \A k \in 1..Len(log["evaluated"]) : log'["evaluated"][k] = log["evaluated"][k]
        /\ log'["evaluated"][Len(log["evaluated"]) + 1] = v
    BY <1>0, <1>3, AppendEffect DEF Sends, IInv
  <2>2. CASE v.txn = t
    <3>1. VerdictsOn(t)' = VerdictsOn(t) \cup {Len(log["evaluated"]) + 1}
      BY <1>0, <2>1, <2>2 DEF VerdictsOn
    <3>2. QED  BY <1>3, <2>2, <3>1
  <2>3. CASE v.txn # t
    <3>1. VerdictsOn(t)' = VerdictsOn(t)
      BY <1>0, <2>1, <2>3 DEF VerdictsOn
    <3>2. QED  BY <3>1
  <2>4. QED  BY <2>2, <2>3
<1>4. QED  BY <1>1, <1>2, <1>3, Sending DEF Quiet

\* One element more adds at most one.
LEMMA OneMore ==
  ASSUME NEW A, IsFiniteSet(A), NEW n
  PROVE  /\ Cardinality(A \cup {n}) \in Nat
         /\ Cardinality(A \cup {n}) <= Cardinality(A) + 1
<1>1. Cardinality(A) \in Nat
  BY FS_CardinalityType
<1>2. \/ Cardinality(A \cup {n}) = Cardinality(A)
      \/ Cardinality(A \cup {n}) = Cardinality(A) + 1
  BY FS_AddElement
<1>3. QED  BY <1>1, <1>2

\* Every step keeps the account of the verdicts.
LEMMA VerdictsInvStep == IInv /\ IInv' /\ VerdictsInv /\ [Next]_vars => VerdictsInv'
<1> SUFFICES ASSUME IInv, TypeOK', VerdictsInv, [Next]_vars, NEW t \in Txns
             PROVE  Cardinality(VerdictsOn(t)') + Free(t)' <= 1 + faults'
  BY DEF VerdictsInv, IInv, VerdictsOn
<1>1. /\ Cardinality(VerdictsOn(t)) + Free(t) <= 1 + faults
      /\ IsFiniteSet(VerdictsOn(t)) /\ Cardinality(VerdictsOn(t)) \in Nat
  BY VerdictsFinite DEF VerdictsInv, IInv
<1>2. Free(t) \in {0, 1} /\ Free(t)' \in {0, 1}
  BY DEF Free
<1>3. faults \in Nat /\ (faults' = faults \/ faults' = faults + 1)
  BY FaultsStep, PaymentFlowAssumption DEF IInv, TypeOK
<1>4. Fault => faults' = faults + 1
  BY DEF Fault
<1>5. CASE VerdictsOn(t)' = VerdictsOn(t)
  BY <1>1, <1>2, <1>3, <1>4, <1>5, FreeStep
<1>6. ASSUME NEW i \in Reached("fraud"), Evaluate(i), t = TxnOf("fraud", i),
             NEW n, VerdictsOn(t)' = VerdictsOn(t) \cup {n}
      PROVE  Cardinality(VerdictsOn(t)') + Free(t)' <= 1 + faults'
  <2>1. Cardinality(VerdictsOn(t)') <= Cardinality(VerdictsOn(t)) + 1
        /\ Cardinality(VerdictsOn(t)') \in Nat
    <3>1. /\ Cardinality(VerdictsOn(t) \cup {n}) \in Nat
          /\ Cardinality(VerdictsOn(t) \cup {n}) <= Cardinality(VerdictsOn(t)) + 1
      BY <1>1, OneMore
    <3>2. QED  BY <1>6, <3>1
  <2>2. /\ Free(t)' <= Free(t)
        /\ Fault \/ (UNCHANGED faults /\ Free(t) = 1 /\ Free(t)' = 0)
    BY <1>6, EvaluateStep
  <2>3. QED  BY <1>1, <1>2, <1>3, <1>4, <2>1, <2>2
<1>7. QED  BY <1>5, <1>6, VerdictsStep

\* The stores downstream see one verdict on a payment and at most one more per
\* failure, and the ledger keeps the first of them until it is restored or
\* gives one up.
THEOREM StoresKeepToVerdicts == SafeSpec => []StoresFollowVerdicts
<1>1. Init => VerdictsInv
  <2> SUFFICES ASSUME Init, NEW t \in Txns
               PROVE  Cardinality(VerdictsOn(t)) + Free(t) <= 1 + faults
    BY DEF VerdictsInv
  <2>1. log.evaluated = <<>> /\ faults = 0
    BY DEF Init, Topics
  <2>2. VerdictsOn(t) = {}
    BY <2>1 DEF VerdictsOn
  <2>3. Cardinality(VerdictsOn(t)) = 0
    BY <2>2, FS_EmptySet
  <2>4. QED  BY <2>1, <2>3 DEF Free
<1>2. IInv /\ VerdictsInv => StoresFollowVerdicts
  <2> SUFFICES ASSUME IInv, VerdictsInv, NEW t \in Txns
               PROVE  Cardinality(VerdictsOn(t)) <= 1 + faults
    BY DEF StoresFollowVerdicts, VerdictsCostFailures, IInv
  <2>1. Cardinality(VerdictsOn(t)) \in Nat /\ faults \in Nat
    BY VerdictsFinite, PaymentFlowAssumption DEF IInv, TypeOK
  <2>2. Cardinality(VerdictsOn(t)) + Free(t) <= 1 + faults /\ Free(t) \in {0, 1}
    BY DEF VerdictsInv, Free
  <2>3. QED  BY <2>1, <2>2
<1>3. QED
  BY <1>1, <1>2, InitIInv, IInvStep, VerdictsInvStep, PTL DEF SafeSpec

-----------------------------------------------------------------------------
(* The stages as their services promise them to be                          *)

\* The topic of stage s as its promise sees it.
Seen(s) == [i \in 1..Len(Messages(s)) |-> TxnOf(s, i)]

Keeps(s) == UNCHANGED Promise(s)!vars \/ Promise(s)!Next

\* The steps of the promise, in the words of the flow: nothing, ...
LEMMA StageStutters ==
    ASSUME NEW s \in Stages, Seen(s)' = Seen(s), done'[s] = done[s],
           HandedOn(s)' = HandedOn(s), buried'[s] = buried[s]
    PROVE  Keeps(s)
BY DEF Keeps, Promise!vars, Seen

\* ... a message arrives, ...
LEMMA StageArrives ==
    ASSUME NEW s \in Stages, NEW m \in Txns, Seen(s)' = Append(Seen(s), m),
           UNCHANGED done, HandedOn(s)' = HandedOn(s), UNCHANGED buried
    PROVE  Keeps(s)
<1>1. Promise(s)!Arrive(s, m)
  BY DEF Promise!Arrive, Seen
<1>2. QED  BY <1>1 DEF Keeps, Promise!Next

\* ... one the group has reached is handled ...
LEMMA StageHandles ==
    ASSUME NEW s \in Stages, NEW i \in Reached(s), Seen(s)' = Seen(s),
           UNCHANGED done, HandedOn(s)' = HandedOn(s) \cup {TxnOf(s, i)},
           UNCHANGED buried, Len(Messages(s)) \in Nat
    PROVE  Keeps(s)
<1>1. Len(Seen(s)) = Len(Messages(s)) /\ Seen(s)[i] = TxnOf(s, i)
  BY DEF Seen, Reached
<1>2. i \in Promise(s)!Reached(s)
  BY <1>1 DEF Promise!Reached, Reached, Seen
<1>3. Promise(s)!Handle(s, i)
  BY <1>1, <1>2 DEF Promise!Handle, Seen
<1>4. QED  BY <1>2, <1>3 DEF Keeps, Promise!Next

\* ... or buried, ...
LEMMA StageBuries ==
    ASSUME NEW s \in Stages, NEW i \in Reached(s), Seen(s)' = Seen(s),
           UNCHANGED done, HandedOn(s)' = HandedOn(s),
           buried'[s] = buried[s] \cup {TxnOf(s, i)}, Len(Messages(s)) \in Nat
    PROVE  Keeps(s)
<1>1. Len(Seen(s)) = Len(Messages(s)) /\ Seen(s)[i] = TxnOf(s, i)
  BY DEF Seen, Reached
<1>2. i \in Promise(s)!Reached(s)
  BY <1>1 DEF Promise!Reached, Reached, Seen
<1>3. Promise(s)!Bury(s, i)
  BY <1>1, <1>2 DEF Promise!Bury, Seen
<1>4. QED  BY <1>2, <1>3 DEF Keeps, Promise!Next

\* ... and the next one is passed.
LEMMA StageAdvances ==
    ASSUME NEW s \in Stages, Seen(s)' = Seen(s), done'[s] = done[s] + 1,
           HandedOn(s)' = HandedOn(s), UNCHANGED buried,
           Len(Messages(s)) \in Nat, done[s] \in 0..Len(Messages(s)) - 1,
           TxnOf(s, done[s] + 1) \in HandedOn(s) \cup buried[s]
    PROVE  Keeps(s)
<1>1. /\ Len(Seen(s)) = Len(Messages(s))
      /\ Seen(s)[done[s] + 1] = TxnOf(s, done[s] + 1)
  BY DEF Seen
<1>2. Promise(s)!Advance(s)
  BY <1>1 DEF Promise!Advance, Seen
<1>3. QED  BY <1>2 DEF Keeps, Promise!Next

\* A topic that nothing is appended to looks the same.
LEMMA SeenStays ==
    ASSUME NEW s \in Stages, log'[InputTopic[s]] = log[InputTopic[s]]
    PROVE  Seen(s)' = Seen(s)
BY DEF Seen, Messages, TxnOf

\* One that grows has a transaction more.
LEMMA SeenGrows ==
    ASSUME IInv, NEW s \in Stages, NEW m, Sends(InputTopic[s], m)
    PROVE  \E t \in Txns : Seen(s)' = Append(Seen(s), t)
<1> DEFINE q == InputTopic[s]
           n == Len(Messages(s))
           t == IF s = "fraud" THEN m.request.txn ELSE m.txn
<1>1. q \in Topics /\ m \in Holds(q) /\ Append1(q, m)
  BY DEF Sends
<1>2. log[q] \in Seq(Holds(q)) /\ Messages(s) = log[q] /\ n \in Nat
  BY <1>1, HoldsType DEF IInv, Messages
<1>3. /\ Len(log'[q]) = n + 1
      /\ \A i \in 1..n : log'[q][i] = log[q][i]
      /\ log'[q][n + 1] = m
  BY <1>1, <1>2, AppendEffect DEF IInv
<1>4. /\ Len(Messages(s)') = n + 1
      /\ \A i \in 1..n : TxnOf(s, i)' = TxnOf(s, i)
      /\ \A i : i = n + 1 => TxnOf(s, i)' = t
  <2>1. Messages(s)' = log'[q]
    BY DEF Messages
  <2>2. QED  BY <1>2, <1>3, <2>1 DEF TxnOf
<1>5. t \in Txns
  <2>1. CASE s = "payment"
    BY <1>1, <1>4, <2>1 DEF Holds, InputTopic, Txns
  <2>2. CASE s = "fraud"
    BY <1>1, <1>4, <2>2, EventHasRequest DEF Holds, InputTopic, Txns
  <2>3. CASE s = "ledger" \/ s = "audit"
    BY <1>1, <1>4, <2>3, VerdictType DEF Holds, InputTopic
  <2>4. QED  BY <2>1, <2>2, <2>3 DEF Stages
<1>6. Seen(s)' = Append(Seen(s), t)
  <2>1. /\ Seen(s) \in Seq(Txns) /\ Len(Seen(s)) = n
        /\ \A i \in 1..n : Seen(s)[i] = TxnOf(s, i)
    BY <1>2, TopicTypes DEF Seen, IInv
  <2>2. Seen(s)' = [i \in 1..(n + 1) |-> TxnOf(s, i)']
    BY <1>4 DEF Seen
  <2>3. Append(Seen(s), t) = [i \in 1..(n + 1) |-> IF i <= n THEN Seen(s)[i] ELSE t]
    BY <1>2, <1>5, <2>1
  <2>4. ASSUME NEW i \in 1..(n + 1)
        PROVE  TxnOf(s, i)' = IF i <= n THEN Seen(s)[i] ELSE t
    <3>1. CASE i <= n
      BY <1>2, <1>4, <2>1, <3>1
    <3>2. CASE ~(i <= n)
      <4>1. i = n + 1
        BY <1>2, <3>2
      <4>2. QED  BY <1>4, <3>2, <4>1
    <3>3. QED  BY <3>1, <3>2
  <2>5. QED  BY <2>2, <2>3, <2>4
<1>7. QED  BY <1>5, <1>6

\* What a stage has handed on is read from the next topic or from its store.
LEMMA HandedOnStays ==
    ASSUME NEW s \in Stages,
           s = "payment" => log'["processed"] = log["processed"],
           s = "fraud" => log'["evaluated"] = log["evaluated"],
           s = "ledger" => UNCHANGED rows,
           s = "audit" => UNCHANGED docs
    PROVE  HandedOn(s)' = HandedOn(s)
BY DEF HandedOn, VerdictsOn, Stages

\* A message more at the end of topic q, and of no other.
LEMMA SendsEffect ==
    ASSUME IInv, NEW q \in Topics, NEW m, Sends(q, m)
    PROVE  /\ Len(log[q]) \in Nat /\ Len(log'[q]) = Len(log[q]) + 1
           /\ \A i \in 1..Len(log[q]) : log'[q][i] = log[q][i]
           /\ log'[q][Len(log[q]) + 1] = m
           /\ \A o \in Topics \ {q} : log'[o] = log[o]
<1>1. log[q] \in Seq(Holds(q)) /\ m \in Holds(q) /\ Append1(q, m)
  BY HoldsType DEF IInv, Sends
<1>2. QED  BY <1>1, AppendEffect DEF IInv

\* A stage that handles a message hands its transaction on.
LEMMA ProcessHandsOn ==
    ASSUME IInv, NEW i \in Reached("payment"), Process(i)
    PROVE  HandedOn("payment")' = HandedOn("payment") \cup {TxnOf("payment", i)}
<1> DEFINE m == ProcessTransaction(log.initiated[i])
           n == Len(log["processed"])
<1>1. Sends("processed", m) /\ m.request.txn = TxnOf("payment", i)
  BY ProcessSends
<1>2. /\ n \in Nat /\ Len(log'["processed"]) = n + 1
      /\ \A j \in 1..n : log'["processed"][j] = log["processed"][j]
      /\ log'["processed"][n + 1] = m
  BY <1>1, SendsEffect DEF Topics
<1>3. TxnOf("payment", i) \in Txns
  BY HeldTxn DEF IInv, Stages
<1> HIDE DEF m, n
<1>4. ASSUME NEW t
      PROVE  (\E j \in 1..(n + 1) : log'["processed"][j].request.txn = t)
             <=> \/ \E j \in 1..n : log["processed"][j].request.txn = t
                 \/ t = TxnOf("payment", i)
  <2>1. 1..(n + 1) = 1..n \cup {n + 1}
    BY <1>2
  <2>2. QED  BY <1>1, <1>2, <2>1
<1>5. QED  BY <1>2, <1>3, <1>4 DEF HandedOn, n

LEMMA EvaluateHandsOn ==
    ASSUME IInv, NEW i \in Reached("fraud"), Evaluate(i)
    PROVE  HandedOn("fraud")' = HandedOn("fraud") \cup {TxnOf("fraud", i)}
<1> DEFINE n == Len(log["evaluated"])
<1>1. PICK v \in AllVerdicts : Sends("evaluated", v) /\ v.txn = TxnOf("fraud", i)
  BY EvaluateSends
<1>2. /\ n \in Nat /\ Len(log'["evaluated"]) = n + 1
      /\ \A j \in 1..n : log'["evaluated"][j] = log["evaluated"][j]
      /\ log'["evaluated"][n + 1] = v
  BY <1>1, SendsEffect DEF Topics
<1>3. TxnOf("fraud", i) \in Txns
  BY HeldTxn DEF IInv, Stages
<1> HIDE DEF n
<1>4. ASSUME NEW t
      PROVE  (\E j \in 1..(n + 1) : log'["evaluated"][j].txn = t)
             <=> \/ \E j \in 1..n : log["evaluated"][j].txn = t
                 \/ t = TxnOf("fraud", i)
  <2>1. 1..(n + 1) = 1..n \cup {n + 1}
    BY <1>2
  <2>2. QED  BY <1>1, <1>2, <2>1
<1>5. \A t : VerdictsOn(t)' # {} <=> VerdictsOn(t) # {} \/ t = TxnOf("fraud", i)
  BY <1>2, <1>4 DEF VerdictsOn, n
<1>6. QED  BY <1>3, <1>5 DEF HandedOn

LEMMA RecordHandsOn ==
    ASSUME IInv, NEW i \in Reached("ledger"), Record(i)
    PROVE  HandedOn("ledger")' = HandedOn("ledger") \cup {TxnOf("ledger", i)}
<1>1. TxnOf("ledger", i) \in Txns
  BY HeldTxn DEF IInv, Stages
<1>2. \A t \in Txns : rows'[t] # <<>> <=> rows[t] # <<>> \/ t = TxnOf("ledger", i)
  BY <1>1, RecordKeepsRows
<1>3. QED  BY <1>1, <1>2 DEF HandedOn

LEMMA IndexHandsOn ==
    ASSUME IInv, NEW i \in Reached("audit"), Index(i)
    PROVE  HandedOn("audit")' = HandedOn("audit") \cup {TxnOf("audit", i)}
<1> DEFINE v == Messages("audit")[i]
<1>1. v \in AllVerdicts /\ v.txn \in Txns /\ TxnOf("audit", i) = v.txn
  BY HeldVerdict DEF IInv
<1>2. v # None
  BY <1>1, VerdictType
<1>3. docs' = [docs EXCEPT ![v.txn] = v]
  BY DEF Index
<1>4. docs \in [Txns -> AllVerdicts \cup {None}]
  BY DEF IInv, TypeOK
<1> HIDE DEF v
<1>5. \A t \in Txns : docs'[t] # None <=> docs[t] # None \/ t = v.txn
  BY <1>1, <1>2, <1>3, <1>4
<1>6. QED  BY <1>1, <1>5 DEF HandedOn

\* Before the first restore the ledger has handed on or buried what it owes, and
\* every other stage always.
LEMMA OutIsHandedOn ==
    ASSUME NEW s \in Stages, s = "ledger" => restore = "never", NEW t \in Txns,
           Out(s, t)
    PROVE  t \in HandedOn(s)
BY DEF Out, HandedOn, Stages

\* What is done with a message of another stage arrives, or is not noticed.
LEMMA OthersKeepPromise ==
    ASSUME IInv, NEW s \in Stages, NEW o \in Stages \ {s}, NEW i \in Reached(o),
           Handle(o, i) \/ Bury(o, i)
    PROVE  Keeps(s)
<1>1. UNCHANGED done
  BY HandlingMoves
<1>2. InputTopic[s] \in Topics
  BY StageTopics
<1>3. CASE Bury(o, i)
  <2>1. buried'[s] = buried[s]
    BY <1>3 DEF Bury, IInv, TypeOK
  <2>2. Seen(s)' = Seen(s) /\ HandedOn(s)' = HandedOn(s)
    BY <1>3, SeenStays, HandedOnStays DEF Bury, ledgerVars, storeVars
  <2>3. QED  BY <1>1, <2>1, <2>2, StageStutters
<1>4. CASE o = "payment" /\ Process(i)
  <2>1. PICK m : Sends("processed", m)
    BY <1>4, ProcessSends
  <2>2. \A q \in Topics \ {"processed"} : log'[q] = log[q]
    BY <2>1, SendsEffect DEF Sends
  <2>3. UNCHANGED <<buried, rows, docs>>
    BY <1>4 DEF Process, ledgerVars, storeVars
  <2>4. HandedOn(s)' = HandedOn(s)
    BY <1>4, <2>2, <2>3, HandedOnStays DEF Topics
  <2>5. CASE s = "fraud"
    <3>1. \E t \in Txns : Seen(s)' = Append(Seen(s), t)
      BY <2>1, <2>5, SeenGrows DEF InputTopic
    <3>2. QED  BY <1>1, <2>3, <2>4, <3>1, StageArrives
  <2>6. CASE s # "fraud"
    <3>1. Seen(s)' = Seen(s)
      BY <1>2, <2>2, <2>6, SeenStays DEF InputTopic, Stages
    <3>2. QED  BY <1>1, <2>3, <2>4, <3>1, StageStutters
  <2>7. QED  BY <2>5, <2>6
<1>5. CASE o = "fraud" /\ Evaluate(i)
  <2>1. PICK m : Sends("evaluated", m)
    BY <1>5, EvaluateSends
  <2>2. \A q \in Topics \ {"evaluated"} : log'[q] = log[q]
    BY <2>1, SendsEffect DEF Sends
  <2>3. UNCHANGED <<buried, rows, docs>>
    BY <1>5 DEF Evaluate, ledgerVars, storeVars
  <2>4. HandedOn(s)' = HandedOn(s)
    BY <1>5, <2>2, <2>3, HandedOnStays DEF Topics
  <2>5. CASE s \in {"ledger", "audit"}
    <3>1. \E t \in Txns : Seen(s)' = Append(Seen(s), t)
      BY <2>1, <2>5, SeenGrows DEF InputTopic
    <3>2. QED  BY <1>1, <2>3, <2>4, <3>1, StageArrives
  <2>6. CASE s \notin {"ledger", "audit"}
    <3>1. Seen(s)' = Seen(s)
      BY <1>2, <2>2, <2>6, SeenStays DEF InputTopic, Stages
    <3>2. QED  BY <1>1, <2>3, <2>4, <3>1, StageStutters
  <2>7. QED  BY <2>5, <2>6
<1>6. ASSUME UNCHANGED <<log, buried>>, s = "ledger" => UNCHANGED rows,
             s = "audit" => UNCHANGED docs
      PROVE  Keeps(s)
  <2>1. Seen(s)' = Seen(s) /\ HandedOn(s)' = HandedOn(s)
    BY <1>6, SeenStays, HandedOnStays
  <2>2. QED  BY <1>1, <1>6, <2>1, StageStutters
<1>7. CASE o = "fraud" /\ (Mark(i) \/ Skip(i))
  BY <1>6, <1>7 DEF Mark, Skip, ledgerVars, storeVars
<1>8. CASE o = "ledger" /\ Record(i)
  BY <1>6, <1>8 DEF Record, storeVars
<1>9. CASE o = "audit" /\ Index(i)
  BY <1>6, <1>9 DEF Index, ledgerVars
<1>10. QED  BY <1>3, <1>4, <1>5, <1>7, <1>8, <1>9 DEF Handle

\* What is done with one of its own is handling it, burying it, or nothing.
LEMMA OwnKeepsPromise ==
    ASSUME IInv, NEW s \in Stages, NEW i \in Reached(s),
           Handle(s, i) \/ Bury(s, i)
    PROVE  Keeps(s)
<1>1. UNCHANGED done /\ Len(Messages(s)) \in Nat /\ InputTopic[s] \in Topics
  BY HandlingMoves, TopicTypes, StageTopics DEF IInv
<1>2. ASSUME Seen(s)' = Seen(s), UNCHANGED buried,
             HandedOn(s)' = HandedOn(s) \cup {TxnOf(s, i)}
      PROVE  Keeps(s)
  BY <1>1, <1>2, StageHandles
<1>3. CASE Bury(s, i)
  <2>1. buried'[s] = buried[s] \cup {TxnOf(s, i)}
    BY <1>3 DEF Bury, IInv, TypeOK
  <2>2. Seen(s)' = Seen(s) /\ HandedOn(s)' = HandedOn(s)
    BY <1>3, SeenStays, HandedOnStays DEF Bury, ledgerVars, storeVars
  <2>3. QED  BY <1>1, <2>1, <2>2, StageBuries
<1>4. CASE s = "payment" /\ Process(i)
  <2>1. PICK m : Sends("processed", m)
    BY <1>4, ProcessSends
  <2>2. log'["initiated"] = log["initiated"]
    BY <2>1, SendsEffect DEF Sends, Topics
  <2>3. Seen(s)' = Seen(s)
    BY <1>4, <2>2, SeenStays DEF InputTopic
  <2>4. QED  BY <1>2, <1>4, <2>3, ProcessHandsOn DEF Process
<1>5. CASE s = "fraud" /\ Evaluate(i)
  <2>1. PICK m : Sends("evaluated", m)
    BY <1>5, EvaluateSends
  <2>2. log'["processed"] = log["processed"]
    BY <2>1, SendsEffect DEF Sends, Topics
  <2>3. Seen(s)' = Seen(s)
    BY <1>5, <2>2, SeenStays DEF InputTopic
  <2>4. QED  BY <1>2, <1>5, <2>3, EvaluateHandsOn DEF Evaluate
<1>6. CASE s = "fraud" /\ (Mark(i) \/ Skip(i))
  <2>1. UNCHANGED <<log, buried>>
    BY <1>6 DEF Mark, Skip
  <2>2. Seen(s)' = Seen(s) /\ HandedOn(s)' = HandedOn(s)
    BY <1>6, <2>1, SeenStays, HandedOnStays
  <2>3. QED  BY <1>1, <2>1, <2>2, StageStutters
<1>7. CASE s = "ledger" /\ Record(i)
  <2>1. Seen(s)' = Seen(s)
    BY <1>7, SeenStays DEF Record
  <2>2. QED  BY <1>2, <1>7, <2>1, RecordHandsOn DEF Record
<1>8. CASE s = "audit" /\ Index(i)
  <2>1. Seen(s)' = Seen(s)
    BY <1>8, SeenStays DEF Index
  <2>2. QED  BY <1>2, <1>8, <2>1, IndexHandsOn DEF Index
<1>9. QED  BY <1>3, <1>4, <1>5, <1>6, <1>7, <1>8 DEF Handle

\* A message is passed behind what was made of it.
LEMMA PassingKeepsPromise ==
    ASSUME IInv, NEW s \in Stages, s = "ledger" => restore = "never",
           NEW o \in Stages, Commit(o)
    PROVE  Keeps(s)
<1>1. /\ next[o] = "settled" /\ done' = [done EXCEPT ![o] = @ + 1]
      /\ UNCHANGED <<log, buried, rows, docs>>
  BY DEF Commit, ledgerVars, storeVars
<1>2. done \in [Stages -> Nat]
  BY DEF IInv, ShapesOK
<1>3. Seen(s)' = Seen(s) /\ HandedOn(s)' = HandedOn(s)
  BY <1>1, SeenStays, HandedOnStays
<1>4. CASE o # s
  <2>1. done'[s] = done[s]
    BY <1>1, <1>2, <1>4
  <2>2. QED  BY <1>1, <1>3, <2>1, StageStutters
<1>5. CASE o = s
  <2>1. done'[s] = done[s] + 1
    BY <1>1, <1>2, <1>5
  <2>2. Len(Messages(s)) \in Nat /\ done[s] \in 0..Len(Messages(s)) - 1
    BY <1>1, <1>5, TopicTypes DEF IInv, NextExists
  <2>3. done[s] + 1 \in Past(s)
    BY <1>1, <1>5, <2>2 DEF Past, IsNext
  <2>4. PICK t \in Txns : t = TxnOf(s, done[s] + 1)
    BY <2>2, TopicTypes DEF IInv
  <2>5. Accounted(s, TxnOf(s, done[s] + 1))
    BY <2>3 DEF IInv, PassedIsAccounted
  <2>6. t \in HandedOn(s) \cup buried[s]
    BY <2>4, <2>5, OutIsHandedOn DEF Accounted
  <2>7. QED  BY <1>1, <1>3, <2>1, <2>2, <2>4, <2>6, StageAdvances
<1>6. QED  BY <1>4, <1>5

\* So does everything else: a request arrives; a mark that is lost, a dump and a
\* restore concern no stage but the ledger, which has left the promise then; and
\* a consumer that goes or comes passes nothing.
LEMMA PromiseStep ==
    ASSUME IInv, [Next]_vars, NEW s \in Stages,
           s = "ledger" => restore' = "never"
    PROVE  Keeps(s)
<1>1. ASSUME NEW r \in Requests, Submit(r)
      PROVE  Keeps(s)
  <2>1. Sends("initiated", r)
    BY <1>1 DEF Submit, Sends, Holds, Topics
  <2>2. \A q \in Topics \ {"initiated"} : log'[q] = log[q]
    BY <2>1, SendsEffect DEF Sends
  <2>3. UNCHANGED <<done, buried, rows, docs>>
    BY <1>1 DEF Submit, ledgerVars, storeVars
  <2>4. HandedOn(s)' = HandedOn(s)
    BY <2>2, <2>3, HandedOnStays DEF Topics
  <2>5. CASE s = "payment"
    <3>1. \E t \in Txns : Seen(s)' = Append(Seen(s), t)
      BY <2>1, <2>5, SeenGrows DEF InputTopic
    <3>2. QED  BY <2>3, <2>4, <3>1, StageArrives
  <2>6. CASE s # "payment"
    <3>1. Seen(s)' = Seen(s)
      BY <2>2, <2>6, SeenStays DEF InputTopic, Stages, Topics
    <3>2. QED  BY <2>3, <2>4, <3>1, StageStutters
  <2>7. QED  BY <2>5, <2>6
<1>2. ASSUME NEW o \in Stages, NEW i \in Reached(o), Handle(o, i) \/ Bury(o, i)
      PROVE  Keeps(s)
  <2>1. CASE o = s
    BY <1>2, <2>1, OwnKeepsPromise
  <2>2. CASE o # s
    BY <1>2, <2>2, OthersKeepPromise
  <2>3. QED  BY <2>1, <2>2
<1>3. ASSUME NEW o \in Stages, Commit(o)
      PROVE  Keeps(s)
  BY <1>3, PassingKeepsPromise DEF Commit, scriptVars
<1>4. CASE /\ UNCHANGED <<log, done, buried, docs>>
           /\ restore' = "never" => UNCHANGED rows
  <2>1. Seen(s)' = Seen(s) /\ HandedOn(s)' = HandedOn(s)
    BY <1>4, SeenStays, HandedOnStays
  <2>2. QED  BY <1>4, <2>1, StageStutters
<1>5. ASSUME NEW t \in Txns, Forget(t)
      PROVE  Keeps(s)
  BY <1>4, <1>5 DEF Forget, topicVars, ledgerVars
<1>6. CASE Dump \/ Restore \/ UNCHANGED vars
  BY <1>4, <1>6
     DEF Dump, Restore, Terminate, Drop, DropRefused, Create, LoadTables,
         LoadRows, ScriptFails, ScriptStep, topicVars, storeVars, ledgerVars, vars
<1>7. CASE ConsumerEnds \/ LedgerCrash \/ LedgerStarts
  BY <1>4, <1>7
     DEF ConsumerEnds, LedgerCrash, LedgerStarts, topicVars, storeVars
<1>8. QED  BY <1>1, <1>2, <1>3, <1>5, <1>6, <1>7 DEF Next

\* Every stage implements the promise its service was shown to keep: an arrival,
\* a handling, a dead letter, a passed offset, or nothing, whatever the other
\* stages and the restore do; the ledger as long as it is not restored.
THEOREM StagesAreAtLeastOnce == SafeSpec => StagesKeepPromises
<1>1. ASSUME Init, NEW s \in Stages
      PROVE  Promise(s)!Init
  <2>1. Messages(s) = <<>> /\ Len(Messages(s)) = 0 /\ done[s] = 0 /\ buried[s] = {}
    BY <1>1, StageTopics DEF Init
  <2>2. Seen(s) = <<>>
    BY <2>1 DEF Seen
  <2>3. HandedOn(s) = {}
    <3>1. \A t \in Txns : rows[t] = <<>> /\ docs[t] = None
      BY <1>1 DEF Init, NoRows
    <3>2. log["processed"] = <<>> /\ log["evaluated"] = <<>>
      BY <1>1 DEF Init, Topics
    <3>3. Len(log["processed"]) = 0 /\ Len(log["evaluated"]) = 0
      BY <3>2
    <3>4. 1..Len(log["processed"]) = {} /\ 1..Len(log["evaluated"]) = {}
      BY <3>3
    <3>5. \A t : VerdictsOn(t) = {}
      BY <3>4 DEF VerdictsOn
    <3>6. QED  BY <3>1, <3>4, <3>5 DEF HandedOn, Stages
  <2>4. QED  BY <2>1, <2>2, <2>3 DEF Promise!Init, Seen
<1>2. Init => \A s \in Stages : Promise(s)!Init
  BY <1>1
<1>3. IInv /\ [Next]_vars
      => [\A s \in Stages : (s = "ledger" => restore' = "never")
              => UNCHANGED Promise(s)!vars \/ Promise(s)!Next]_vars
  BY PromiseStep DEF Keeps
<1>4. QED
  BY <1>2, <1>3, Invariance, PTL DEF SafeSpec, StagesKeepPromises

=============================================================================
