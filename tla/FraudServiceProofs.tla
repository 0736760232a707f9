-------------------------- MODULE FraudServiceProofs --------------------------
(***************************************************************************)
(* Proofs about FraudService, for any number of replicas, partitions,       *)
(* payments, users, retries and failures, and any velocity limit.           *)
(***************************************************************************)
EXTENDS FraudService, ConsumerLoopProofs

\* The steps between the velocity check and the verdict.
Inner == {"incr", "expire", "geo_get", "geo_set"}

\* A worker's dict is the message it holds, with fields added.
HoldsItsMessage ==
    \A w \in Workers : Busy(w) => txn[w].request = Message(w).request

\* A transaction the processor or an earlier attempt declined is not
\* evaluated again.
UndecidedInside ==
    \A w \in Workers :
        pc[w] \in Inner => txn[w].final_status # "declined"

\* A worker marks, commits or skips only what is published, and commits a
\* dead letter only when it is in the dead-letter topic.
SettledBeforeCommit ==
    \A w \in Workers :
        /\ pc[w] \in {"mark", "commit", "skip_commit"} => TxnOf(w) \in Published
        /\ pc[w] = "dead_commit" => TxnOf(w) \in dlq

\* The variables TypeOK describes by their elements are functions.
ShapesOK ==
    /\ output \in [Partitions -> Seq(Held)]
    /\ txn \in [Workers -> Held \cup {NoEvent}]
    /\ faults \in Nat

\* The inductive invariant.
IInv ==
    /\ LoopTypeOK(ProcessedEvents, Steps) /\ ShapesOK /\ TypeOK
    /\ Positions
    /\ HoldsItsMessage
    /\ UndecidedInside
    /\ SettledBeforeCommit
    /\ MarkedIsPublished

-----------------------------------------------------------------------------
(* Lemmas about the data                                                    *)

\* process_transaction keeps the request and sets a status of its own.
LEMMA ProcessedFields ==
    ASSUME NEW e \in ProcessedEvents
    PROVE  /\ e.request \in Requests
           /\ e.request.txn \in Txns /\ e.request.user \in Users
           /\ e.request.place \in Places
           /\ PartitionOf[e.request.txn] \in Partitions
           /\ e.final_status \in {"declined", "pending_fraud_review"}
           /\ e.reason \in {"amount", "type", "p2p", "accepted"}
<1>1. PICK r \in Requests : e = ProcessTransaction(r)
  BY DEF ProcessedEvents
<1>2. /\ e.request = r
      /\ e.final_status \in {"declined", "pending_fraud_review"}
      /\ e.reason \in {"amount", "type", "p2p", "accepted"}
  <2>1. r.amount \in Int
    BY PaymentsAssumption
  <2>2. CASE r.amount <= 0
    BY <1>1, <2>2 DEF ProcessTransaction, Rejected, Processed
  <2>3. CASE r.amount > 0 /\ r.payment_type \notin SupportedTypes
    BY <1>1, <2>1, <2>3 DEF ProcessTransaction, Rejected, Processed
  <2>4. CASE /\ r.amount > 0 /\ r.payment_type \in SupportedTypes
             /\ r.amount > P2PLimit /\ r.payment_type = "p2p"
    BY <1>1, <2>1, <2>4 DEF ProcessTransaction, Rejected, Processed
  <2>5. CASE /\ r.amount > 0 /\ r.payment_type \in SupportedTypes
             /\ ~(r.amount > P2PLimit /\ r.payment_type = "p2p")
    BY <1>1, <2>1, <2>5 DEF ProcessTransaction, Processed
  <2>6. QED  BY <2>1, <2>2, <2>3, <2>4, <2>5
<1>3. QED  BY <1>2, FraudServiceAssumption DEF Txns, Users, Places

\* What a worker holds came from a processed event.
LEMMA HeldFields ==
    ASSUME NEW h \in Held
    PROVE  /\ h.request.txn \in Txns /\ h.request.user \in Users
           /\ h.request.place \in Places
           /\ PartitionOf[h.request.txn] \in Partitions
           /\ h.final_status \in FinalStatuses
           /\ h.reason \in Reasons
           /\ h # NoEvent
<1>1. PICK e \in ProcessedEvents, final \in FinalStatuses,
           fraud \in FraudStatuses, reason \in Reasons :
              h = Evaluated(e, final, fraud, reason)
  BY DEF Held
<1>2. /\ h.request = e.request /\ h.final_status = final
      /\ h.reason = reason
  BY <1>1 DEF Evaluated
<1>3. NoEvent.final_status = "none"
  BY DEF NoEvent
<1>4. final # "none"
  BY DEF FinalStatuses
<1>5. QED  BY <1>2, <1>3, <1>4, ProcessedFields

\* Evaluating a held event gives an event of the same request.
LEMMA EvaluatedIsHeld ==
    ASSUME NEW h \in Held, NEW final \in FinalStatuses,
           NEW fraud \in FraudStatuses, NEW reason \in Reasons
    PROVE  /\ Evaluated(h, final, fraud, reason) \in Held
           /\ Evaluated(h, final, fraud, reason).request = h.request
           /\ Evaluated(h, final, fraud, reason).final_status = final
<1>1. PICK e \in ProcessedEvents, final0 \in FinalStatuses,
           fraud0 \in FraudStatuses, reason0 \in Reasons :
              h = Evaluated(e, final0, fraud0, reason0)
  BY DEF Held
<1>2. /\ h.request = e.request /\ h.high_value = e.high_value
      /\ h.processor_status = e.processor_status
  BY <1>1 DEF Evaluated
<1>3. Evaluated(h, final, fraud, reason) = Evaluated(e, final, fraud, reason)
  BY <1>2 DEF Evaluated
<1>4. Evaluated(e, final, fraud, reason) \in Held
  BY DEF Held
<1>5. QED  BY <1>3, <1>4 DEF Evaluated

\* A decoded event is held with its status and no fraud_status yet.
LEMMA DecodedIsHeld ==
    ASSUME NEW e \in ProcessedEvents
    PROVE  Decoded(e) \in Held /\ Decoded(e).request = e.request
<1>1. e.final_status \in FinalStatuses /\ "unset" \in FraudStatuses
  BY ProcessedFields DEF FinalStatuses, FraudStatuses
<1>2. e.reason \in Reasons
  BY ProcessedFields DEF Reasons
<1>3. Evaluated(e, e.final_status, "unset", e.reason) \in Held
  BY <1>1, <1>2 DEF Held
<1>4. QED  BY <1>3 DEF Decoded, Evaluated

\* What IInv says of the dict of a busy worker.
LEMMA TxnType ==
    ASSUME IInv, NEW w \in Workers, Busy(w)
    PROVE  /\ txn[w] \in Held
           /\ TxnOf(w) \in Txns /\ UserOf(w) \in Users
           /\ txn[w].request.place \in Places
           /\ PartitionOf[TxnOf(w)] \in Partitions
           /\ txn[w].final_status \in FinalStatuses
           /\ txn[w].reason \in Reasons
<1>1. txn[w] \in Held
  BY DEF IInv, TypeOK
<1>2. QED  BY <1>1, HeldFields DEF TxnOf, UserOf

-----------------------------------------------------------------------------
(* Every step is a step of the loop.                                        *)

\* The steps of the body.
LEMMA StepsOfBody ==
    /\ {"idle", "down"} \subseteq Steps \cap Outside
    /\ Steps \cap Outside = {"idle", "down"}
    /\ {"check", "skip_commit", "evaluate", "incr", "expire", "geo_get",
        "geo_set", "publish", "mark", "commit", "dead_letter",
        "dead_commit"} \subseteq Steps \ Outside
BY DEF Steps, Outside

\* Each handler is, for the loop, an arrival, a fetch, a step inside the body
\* or a letting go.
LEMMA NextIsLoopStep ==
    ASSUME IInv, Next
    PROVE  LoopStep(ProcessedEvents, Steps)
<1> DEFINE Goal == LoopStep(ProcessedEvents, Steps)
<1>1. LoopTypeOK(ProcessedEvents, Steps) /\ Positions
  BY DEF IInv
<1>2. ASSUME NEW e \in ProcessedEvents, Arrive(e)
      PROVE  Goal
  <2>1. PartitionOf[e.request.txn] \in Partitions
    BY ProcessedFields
  <2>2. Arrives(ProcessedEvents)
    BY <1>2, <2>1 DEF Arrive, Arrives
  <2>3. QED  BY <2>2 DEF LoopStep
<1>3. ASSUME NEW w \in Workers, Fetch(w)
      PROVE  Goal
  BY <1>3, StepsOfBody DEF Fetch, LoopStep
<1>4. ASSUME NEW w \in Workers, NEW step \in Steps \ Outside,
             pc[w] \in Steps \ Outside, Goto(w, step),
             UNCHANGED <<input, committed, owner>>
      PROVE  Goal
  BY <1>1, <1>4, GotoStep, BusyPc
<1>5. ASSUME NEW w \in Workers,
             \/ CheckMark(w) \/ Evaluate(w) \/ Publish(w) \/ Mark(w)
             \/ DeadLetter(w)
      PROVE  Goal
  BY <1>4, <1>5, StepsOfBody
     DEF CheckMark, Evaluate, SkipDeclined, VelocityGet, VelocityIncr,
         VelocityExpire, GeoGet, GeoSet, Inside, Publish, Mark, DeadLetter
<1>6. ASSUME NEW w \in Workers, pc[w] \in Steps \ Outside,
             RetryOrGiveUp(w, "evaluate"), CommitUnknown(w),
             UNCHANGED <<input, owner>>
      PROVE  Goal
  <2>1. Busy(w)
    BY <1>6, BusyPc
  <2>2. "evaluate" \in Steps \ Outside /\ "dead_letter" \in Steps
    BY StepsOfBody
  <2>3. QED  BY <1>1, <1>6, <2>1, <2>2, RetryStep
<1>7. ASSUME NEW w \in Workers,
             RedisRaises(w) \/ PublishRaises(w) \/ MarkRaises(w)
      PROVE  Goal
  BY <1>6, <1>7, StepsOfBody
     DEF RedisRaises, PublishRaises, MarkRaises, CommitUnknown
<1>8. ASSUME NEW w \in Workers, CommitRaises(w)
      PROVE  Goal
  BY <1>6, <1>8, StepsOfBody DEF CommitRaises, CommitRaisesAt
<1>9. ASSUME NEW w \in Workers, CheckMarkRaises(w) \/ DeadLetterRaises(w)
      PROVE  Goal
  BY <1>9, ReleaseStep, StepsOfBody DEF CheckMarkRaises, DeadLetterRaises
<1>10. ASSUME NEW w \in Workers,
              \/ SkipCommit(w) \/ Commit(w) \/ DeadCommit(w)
              \/ SkipCommitRaises(w) \/ DeadCommitRaises(w)
       PROVE  Goal
  BY <1>10, CommitStep, StepsOfBody
     DEF SkipCommit, Commit, DeadCommit, SkipCommitRaises, DeadCommitRaises
<1>11. ASSUME \/ Group \/ \E w \in Workers : CrashWorker(w)
       PROVE  Goal
  BY <1>1, <1>11, GroupStep, StepsOfBody DEF Group, CrashWorker
<1>12. ASSUME \/ \E u \in Users : WindowEnds(u) \/ LocationExpires(u)
              \/ \E t \in Txns : MarkExpires(t)
       PROVE  Goal
  BY <1>12
     DEF WindowEnds, LocationExpires, MarkExpires, loopVars, LoopStep
<1>13. QED
  BY <1>2, <1>3, <1>5, <1>7, <1>8, <1>9, <1>10, <1>11, <1>12
     DEF Next, WorkerStep, Failure

-----------------------------------------------------------------------------
(* What a step does to one worker.                                          *)

\* v lets go of its message, or has none and takes none.
GoesFree(v) == pc'[v] \in Outside /\ txn'[v] = NoEvent

\* v takes a message and decodes it.
Takes(v) ==
    \E p \in Partitions : /\ Begin(v, p, "check")
                          /\ txn'[v] = Decoded(input[p][committed[p] + 1])

\* v decides on its transaction; what was declined stays declined.
Decides(v) ==
    /\ Busy(v) /\ pc'[v] = "publish"
    /\ \E final \in FinalStatuses, fraud \in FraudStatuses, reason \in Reasons :
          /\ txn'[v] = Evaluated(txn[v], final, fraud, reason)
          /\ txn[v].final_status = "declined" => final = "declined"

\* v goes on with its transaction as it is.
GoesOn(v) ==
    /\ Busy(v) /\ txn'[v] = txn[v]
    /\ \/ pc'[v] = pc[v]
       \/ pc'[v] \in {"evaluate", "dead_letter"}
       \/ pc[v] = "check" /\ pc'[v] = "skip_commit" /\ TxnOf(v) \in marked
       \/ /\ pc[v] = "evaluate" /\ pc'[v] = "incr"
          /\ txn[v].final_status # "declined"
          /\ velocity[UserOf(v)] < VelocityLimit
          /\ UNCHANGED redisVars
       \/ pc[v] = "incr" /\ pc'[v] = "expire" /\ CountOne(v) /\ UNCHANGED timed
       \/ pc[v] = "expire" /\ pc'[v] = "geo_get"
       \/ pc[v] = "geo_get" /\ pc'[v] = "geo_set"
       \/ pc[v] = "publish" /\ pc'[v] = "mark" /\ AppendVerdict(v)
       \/ pc[v] = "mark" /\ pc'[v] = "commit"
       \/ pc[v] = "dead_letter" /\ pc'[v] = "dead_commit" /\ Bury(v)

Edge(v) == GoesFree(v) \/ Takes(v) \/ Decides(v) \/ GoesOn(v)

\* The step is w's: no other worker's place or dict changes.
OnlyMoves(w) ==
    /\ \E step : pc' = [pc EXCEPT ![w] = step]
    /\ txn' = txn \/ \E e : txn' = [txn EXCEPT ![w] = e]

\* A worker that stays where it is goes on or stays free.
LEMMA StayingIsAnEdge ==
    ASSUME IInv, NEW v \in Workers, pc'[v] = pc[v], txn'[v] = txn[v]
    PROVE  Edge(v)
<1>1. CASE Busy(v)
  BY <1>1 DEF Edge, GoesOn
<1>2. CASE ~Busy(v)
  BY <1>2, BusyPc DEF IInv, TypeOK, Edge, GoesFree
<1>3. QED  BY <1>1, <1>2

\* The handlers touch only their own worker.
LEMMA HandlersAreLocal ==
    ASSUME NEW w \in Workers, WorkerStep(w) \/ Failure(w)
    PROVE  OnlyMoves(w)
<1>1. ASSUME \/ Fetch(w) \/ CheckMark(w) \/ Publish(w) \/ Mark(w)
             \/ DeadLetter(w) \/ Evaluate(w)
      PROVE  OnlyMoves(w)
  BY <1>1
     DEF Fetch, Begin, CheckMark, Publish, Mark, DeadLetter, Evaluate,
         SkipDeclined, VelocityGet, VelocityIncr, VelocityExpire, GeoGet,
         GeoSet, Inside, Goto, Decide, Flag, CheckReputation, localVars,
         OnlyMoves
<1>2. ASSUME \/ SkipCommit(w) \/ Commit(w) \/ DeadCommit(w)
             \/ CheckMarkRaises(w) \/ SkipCommitRaises(w)
             \/ DeadLetterRaises(w) \/ DeadCommitRaises(w) \/ CrashWorker(w)
      PROVE  OnlyMoves(w)
  BY <1>2
     DEF SkipCommit, Commit, DeadCommit, CommitAt, CommitKillsAt,
         CheckMarkRaises, SkipCommitRaises, DeadLetterRaises,
         DeadCommitRaises, CrashWorker, Crash, Release, Forget, OnlyMoves
<1>3. ASSUME \/ RedisRaises(w) \/ PublishRaises(w) \/ MarkRaises(w)
             \/ CommitRaises(w)
      PROVE  OnlyMoves(w)
  BY <1>3
     DEF RedisRaises, PublishRaises, MarkRaises, CommitRaises,
         CommitRaisesAt, RetryOrGiveUp, localVars, OnlyMoves
<1>4. QED  BY <1>1, <1>2, <1>3 DEF WorkerStep, Failure

\* Whoever does not move stays where it is.
LEMMA OthersStay ==
    ASSUME IInv, NEW w \in Workers, OnlyMoves(w), NEW v \in Workers, v # w
    PROVE  pc'[v] = pc[v] /\ txn'[v] = txn[v]
BY DEF IInv, LoopTypeOK, ShapesOK, OnlyMoves

\* The mover takes one of the edges.
LEMMA MoverTakesAnEdge ==
    ASSUME IInv, NEW w \in Workers, WorkerStep(w) \/ Failure(w)
    PROVE  Edge(w)
<1>1. pc \in [Workers -> Steps] /\ txn \in [Workers -> Held \cup {NoEvent}]
  BY DEF IInv, LoopTypeOK, ShapesOK
<1>2. ASSUME Fetch(w)
      PROVE  Edge(w)
  BY <1>1, <1>2 DEF Fetch, Edge, Takes
<1>3. ASSUME NEW step, Goto(w, step)
      PROVE  pc'[w] = step
  BY <1>1, <1>3 DEF Goto
<1>4. ASSUME CheckMark(w) \/ Publish(w) \/ Mark(w) \/ DeadLetter(w)
      PROVE  Edge(w)
  BY <1>3, <1>4
     DEF CheckMark, Publish, Mark, DeadLetter, Inside, localVars, Busy, Live,
         Edge, GoesOn
<1>5. ASSUME NEW final \in FinalStatuses, NEW fraud \in FraudStatuses,
             NEW reason \in Reasons, Busy(w), Goto(w, "publish"),
             Decide(w, final, fraud, reason),
             txn[w].final_status = "declined" => final = "declined"
      PROVE  Edge(w)
  <2>1. txn'[w] = Evaluated(txn[w], final, fraud, reason)
    BY <1>1, <1>5 DEF Decide
  <2>2. QED  BY <1>3, <1>5, <2>1 DEF Edge, Decides
<1>6. /\ {"declined", "approved"} \subseteq FinalStatuses
      /\ {"skipped", "flagged", "cleared"} \subseteq FraudStatuses
      /\ {"velocity", "no location", "geo", "ip", "cleared"} \subseteq Reasons
  BY DEF FinalStatuses, FraudStatuses, Reasons
<1>7. ASSUME SkipDeclined(w)
      PROVE  Edge(w)
  <2>1. Busy(w)
    BY <1>7 DEF SkipDeclined, Inside, Busy, Live
  <2>2. txn[w].reason \in Reasons
    BY <2>1, TxnType
  <2>3. QED  BY <1>5, <1>6, <1>7, <2>1, <2>2 DEF SkipDeclined, Inside
<1>8. ASSUME VelocityGet(w)
      PROVE  Edge(w)
  <2>1. Busy(w)
    BY <1>8 DEF VelocityGet, Busy, Live
  <2>2. CASE Goto(w, "publish") /\ Flag(w, "velocity")
    BY <1>5, <1>6, <2>1, <2>2 DEF Flag
  <2>3. CASE /\ velocity[UserOf(w)] < VelocityLimit
             /\ Inside(w, "evaluate", "incr") /\ UNCHANGED txn
    BY <1>3, <1>8, <2>1, <2>3 DEF VelocityGet, Inside, Edge, GoesOn
  <2>4. QED  BY <1>8, <2>2, <2>3 DEF VelocityGet, Inside
<1>9. ASSUME VelocityIncr(w) \/ GeoGet(w)
      PROVE  Edge(w)
  BY <1>3, <1>9
     DEF VelocityIncr, GeoGet, Inside, localVars, Busy, Live, Edge, GoesOn
<1>10. ASSUME Busy(w), Goto(w, "publish"), CheckReputation(w),
              txn[w].final_status # "declined"
       PROVE  Edge(w)
  BY <1>5, <1>6, <1>10 DEF CheckReputation, Flag
<1>11. ASSUME Busy(w), Goto(w, "publish"), NEW reason \in Reasons,
              Flag(w, reason)
       PROVE  Edge(w)
  BY <1>5, <1>6, <1>11 DEF Flag
<1>12. ASSUME VelocityExpire(w) \/ GeoSet(w)
       PROVE  Edge(w)
  <2>1. Busy(w) /\ txn[w].final_status # "declined"
    BY <1>12 DEF VelocityExpire, GeoSet, Inside, Busy, Live, IInv,
                UndecidedInside, Inner
  <2>2. CASE VelocityExpire(w) /\ Inside(w, "expire", "geo_get")
             /\ UNCHANGED txn
    BY <1>3, <2>1, <2>2 DEF Inside, Edge, GoesOn
  <2>3. CASE /\ Goto(w, "publish")
             /\ \/ Flag(w, "no location") \/ Flag(w, "geo")
                \/ CheckReputation(w)
    BY <1>6, <1>10, <1>11, <2>1, <2>3
  <2>4. QED
    BY <1>12, <2>2, <2>3 DEF VelocityExpire, GeoSet, Inside
<1>13. ASSUME NEW step \in Outside, Release(w, step), Forget(w)
       PROVE  Edge(w)
  BY <1>1, <1>13 DEF Release, Forget, Edge, GoesFree
<1>14. ASSUME \/ SkipCommit(w) \/ Commit(w) \/ DeadCommit(w)
              \/ CheckMarkRaises(w) \/ SkipCommitRaises(w)
              \/ DeadLetterRaises(w) \/ DeadCommitRaises(w) \/ CrashWorker(w)
       PROVE  Edge(w)
  BY <1>13, <1>14
     DEF SkipCommit, Commit, DeadCommit, CommitAt, CommitKillsAt,
         CheckMarkRaises, SkipCommitRaises, DeadLetterRaises,
         DeadCommitRaises, CrashWorker, Crash, Outside
<1>15. ASSUME Busy(w), RetryOrGiveUp(w, "evaluate"), UNCHANGED txn
       PROVE  Edge(w)
  BY <1>1, <1>15 DEF RetryOrGiveUp, Edge, GoesOn
<1>16. ASSUME \/ RedisRaises(w) \/ PublishRaises(w) \/ MarkRaises(w)
              \/ CommitRaises(w)
       PROVE  Edge(w)
  BY <1>15, <1>16
     DEF RedisRaises, PublishRaises, MarkRaises, CommitRaises,
         CommitRaisesAt, localVars, Busy, Live
<1>17. QED
  BY <1>2, <1>4, <1>7, <1>8, <1>9, <1>12, <1>14, <1>16
     DEF WorkerStep, Failure, Evaluate

\* Every step takes every worker along an edge.
LEMMA StepsAreEdges ==
    ASSUME IInv, Next
    PROVE  \A v \in Workers : Edge(v)
<1> SUFFICES ASSUME NEW v \in Workers
             PROVE  Edge(v)
  OBVIOUS
<1>1. ASSUME NEW w \in Workers, WorkerStep(w) \/ Failure(w)
      PROVE  Edge(v)
  BY <1>1, HandlersAreLocal, MoverTakesAnEdge, OthersStay, StayingIsAnEdge
<1>2. ASSUME NEW w \in Workers, Restart(w), UNCHANGED txn
      PROVE  Edge(v)
  <2>1. CASE v # w
    BY <1>2, <2>1, StayingIsAnEdge DEF Restart, IInv, LoopTypeOK
  <2>2. CASE v = w
    <3>1. ~Busy(v)
      BY <1>2, <2>2 DEF Restart, Busy, Live
    <3>2. pc'[v] = "idle" /\ txn'[v] = NoEvent
      BY <1>2, <2>2, <3>1 DEF Restart, IInv, LoopTypeOK, TypeOK
    <3>3. QED  BY <3>2 DEF Edge, GoesFree, Outside
  <2>3. QED  BY <2>1, <2>2
<1>3. ASSUME UNCHANGED <<pc, txn>>
      PROVE  Edge(v)
  BY <1>3, StayingIsAnEdge
<1>4. ASSUME Group
      PROVE  Edge(v)
  BY <1>2, <1>3, <1>4 DEF Group, localVars, Rebalance, Takeover, workerVars
<1>5. ASSUME \/ \E e \in ProcessedEvents : Arrive(e)
             \/ \E u \in Users : WindowEnds(u) \/ LocationExpires(u)
             \/ \E t \in Txns : MarkExpires(t)
      PROVE  Edge(v)
  BY <1>3, <1>5
     DEF Arrive, WindowEnds, LocationExpires, MarkExpires, loopVars,
         workerVars, localVars
<1>6. QED  BY <1>1, <1>4, <1>5 DEF Next

-----------------------------------------------------------------------------
(* What a step does to the topics and to Redis.                             *)

\* Only an arrival changes the input.
LEMMA InputSteps ==
    ASSUME [Next]_vars
    PROVE  UNCHANGED input \/ \E e \in ProcessedEvents : Arrive(e)
<1>1. ASSUME NEW w \in Workers, WorkerStep(w)
      PROVE  UNCHANGED input
  <2>1. ASSUME Evaluate(w)
        PROVE  UNCHANGED input
    <3>1. CASE SkipDeclined(w) \/ VelocityIncr(w) \/ GeoGet(w) \/ GeoSet(w)
      BY <3>1 DEF SkipDeclined, VelocityIncr, GeoGet, GeoSet, Inside
    <3>2. CASE VelocityGet(w)
      BY <3>2 DEF VelocityGet, Inside
    <3>3. CASE VelocityExpire(w)
      BY <3>3, Zenon DEF VelocityExpire, Inside
    <3>4. QED  BY <2>1, <3>1, <3>2, <3>3 DEF Evaluate
  <2>2. ASSUME \/ Fetch(w) \/ CheckMark(w) \/ SkipCommit(w) \/ Publish(w)
               \/ Mark(w) \/ Commit(w) \/ DeadLetter(w) \/ DeadCommit(w)
        PROVE  UNCHANGED input
    BY <2>2
       DEF Fetch, Begin, CheckMark, SkipCommit, Inside, Publish, Mark, Commit,
           CommitAt, DeadLetter, DeadCommit
  <2>3. QED  BY <1>1, <2>1, <2>2 DEF WorkerStep
<1>2. ASSUME NEW w \in Workers, Failure(w)
      PROVE  UNCHANGED input
  BY <1>2
     DEF Failure, CheckMarkRaises, SkipCommitRaises, CommitKillsAt,
         RedisRaises, PublishRaises, MarkRaises, CommitRaises, CommitRaisesAt,
         DeadLetterRaises, DeadCommitRaises, CrashWorker, Crash
<1>3. ASSUME \/ Group \/ UNCHANGED vars
             \/ \E u \in Users : WindowEnds(u) \/ LocationExpires(u)
             \/ \E t \in Txns : MarkExpires(t)
      PROVE  UNCHANGED input
  BY <1>3
     DEF Group, Restart, Rebalance, Takeover, vars, loopVars, WindowEnds,
         LocationExpires, MarkExpires
<1>4. QED  BY <1>1, <1>2, <1>3 DEF Next

\* Verdicts are appended by workers at their publish, and only there.
LEMMA OutputSteps ==
    ASSUME IInv, [Next]_vars
    PROVE  \/ UNCHANGED output
           \/ \E w \in Workers : /\ Busy(w) /\ AppendVerdict(w)
                                 /\ UNCHANGED <<input, committed, dlq>>
<1>1. ASSUME NEW w \in Workers, Publish(w) \/ PublishRaises(w)
      PROVE  \/ UNCHANGED output
             \/ Busy(w) /\ AppendVerdict(w) /\ UNCHANGED <<input, committed, dlq>>
  BY <1>1 DEF Publish, PublishRaises, Busy, Live
<1>2. ASSUME NEW w \in Workers,
             \/ Fetch(w) \/ CheckMark(w) \/ SkipCommit(w) \/ Evaluate(w)
             \/ Mark(w) \/ Commit(w) \/ DeadLetter(w) \/ DeadCommit(w)
      PROVE  UNCHANGED output
  BY <1>2
     DEF Fetch, CheckMark, SkipCommit, Evaluate, SkipDeclined, VelocityGet,
         VelocityIncr, VelocityExpire, GeoGet, GeoSet, Inside, Mark, Commit,
         DeadLetter, DeadCommit, topicVars
<1>3. ASSUME NEW w \in Workers,
             \/ CheckMarkRaises(w) \/ SkipCommitRaises(w) \/ RedisRaises(w)
             \/ MarkRaises(w) \/ CommitRaises(w) \/ DeadLetterRaises(w)
             \/ DeadCommitRaises(w) \/ CrashWorker(w)
      PROVE  UNCHANGED output
  BY <1>3
     DEF CheckMarkRaises, SkipCommitRaises, RedisRaises, MarkRaises,
         CommitRaises, DeadLetterRaises, DeadCommitRaises, CrashWorker,
         topicVars
<1>4. ASSUME \/ Group \/ UNCHANGED vars
             \/ \E e \in ProcessedEvents : Arrive(e)
             \/ \E u \in Users : WindowEnds(u) \/ LocationExpires(u)
             \/ \E t \in Txns : MarkExpires(t)
      PROVE  UNCHANGED output
  BY <1>4
     DEF Group, vars, Arrive, WindowEnds, LocationExpires, MarkExpires,
         topicVars
<1>5. QED  BY <1>1, <1>2, <1>3, <1>4 DEF Next, WorkerStep, Failure

\* Dead letters are written by workers at their dead letter, and only there.
LEMMA DlqSteps ==
    ASSUME IInv, [Next]_vars
    PROVE  \/ UNCHANGED dlq
           \/ \E w \in Workers : /\ Busy(w) /\ Bury(w)
                                 /\ UNCHANGED <<input, committed, output>>
<1>1. ASSUME NEW w \in Workers, DeadLetter(w) \/ DeadLetterRaises(w)
      PROVE  \/ UNCHANGED dlq
             \/ Busy(w) /\ Bury(w) /\ UNCHANGED <<input, committed, output>>
  BY <1>1 DEF DeadLetter, DeadLetterRaises, Busy, Live
<1>2. ASSUME NEW w \in Workers,
             \/ Fetch(w) \/ CheckMark(w) \/ SkipCommit(w) \/ Evaluate(w)
             \/ Publish(w) \/ Mark(w) \/ Commit(w) \/ DeadCommit(w)
      PROVE  UNCHANGED dlq
  BY <1>2
     DEF Fetch, CheckMark, SkipCommit, Evaluate, SkipDeclined, VelocityGet,
         VelocityIncr, VelocityExpire, GeoGet, GeoSet, Inside, Publish, Mark,
         Commit, DeadCommit, topicVars
<1>3. ASSUME NEW w \in Workers,
             \/ CheckMarkRaises(w) \/ SkipCommitRaises(w) \/ RedisRaises(w)
             \/ PublishRaises(w) \/ MarkRaises(w) \/ CommitRaises(w)
             \/ DeadCommitRaises(w) \/ CrashWorker(w)
      PROVE  UNCHANGED dlq
  BY <1>3
     DEF CheckMarkRaises, SkipCommitRaises, RedisRaises, PublishRaises,
         MarkRaises, CommitRaises, DeadCommitRaises, CrashWorker, topicVars
<1>4. ASSUME \/ Group \/ UNCHANGED vars
             \/ \E e \in ProcessedEvents : Arrive(e)
             \/ \E u \in Users : WindowEnds(u) \/ LocationExpires(u)
             \/ \E t \in Txns : MarkExpires(t)
      PROVE  UNCHANGED dlq
  BY <1>4
     DEF Group, vars, Arrive, WindowEnds, LocationExpires, MarkExpires,
         topicVars
<1>5. QED  BY <1>1, <1>2, <1>3, <1>4 DEF Next, WorkerStep, Failure

\* Only a worker at its mark adds one, and it adds its own.
LEMMA MarkSteps ==
    ASSUME IInv, [Next]_vars
    PROVE  \/ marked' \subseteq marked
           \/ \E w \in Workers : pc[w] = "mark" /\ SetMark(w)
<1>1. ASSUME NEW w \in Workers, Mark(w) \/ MarkRaises(w)
      PROVE  marked' \subseteq marked \/ (pc[w] = "mark" /\ SetMark(w))
  BY <1>1 DEF Mark, Inside, MarkRaises
<1>2. ASSUME NEW w \in Workers,
             \/ Fetch(w) \/ CheckMark(w) \/ SkipCommit(w) \/ Evaluate(w)
             \/ Publish(w) \/ Commit(w) \/ DeadLetter(w) \/ DeadCommit(w)
      PROVE  UNCHANGED marked
  BY <1>2
     DEF Fetch, CheckMark, SkipCommit, Evaluate, SkipDeclined, VelocityGet,
         VelocityIncr, VelocityExpire, GeoGet, GeoSet, Publish, Commit,
         DeadLetter, DeadCommit, redisVars
<1>3. ASSUME NEW w \in Workers,
             \/ CheckMarkRaises(w) \/ SkipCommitRaises(w) \/ RedisRaises(w)
             \/ PublishRaises(w) \/ CommitRaises(w) \/ DeadLetterRaises(w)
             \/ DeadCommitRaises(w) \/ CrashWorker(w)
      PROVE  UNCHANGED marked
  BY <1>3
     DEF CheckMarkRaises, SkipCommitRaises, RedisRaises, PublishRaises,
         CommitRaises, DeadLetterRaises, DeadCommitRaises, CrashWorker,
         redisVars
<1>4. ASSUME \/ Group \/ UNCHANGED vars
             \/ \E e \in ProcessedEvents : Arrive(e)
             \/ \E u \in Users : WindowEnds(u) \/ LocationExpires(u)
             \/ \E t \in Txns : MarkExpires(t)
      PROVE  marked' \subseteq marked
  BY <1>4
     DEF Group, vars, Arrive, WindowEnds, LocationExpires, MarkExpires,
         redisVars
<1>5. QED  BY <1>1, <1>2, <1>3, <1>4 DEF Next, WorkerStep, Failure

\* The counters and locations: what each step does to them.
CounterSteps ==
    \/ UNCHANGED <<velocity, timed>>
    \/ \E w \in Workers : /\ pc[w] = "incr" /\ CountOne(w)
                          /\ UNCHANGED timed
    \/ \E w \in Workers : /\ pc[w] = "expire" /\ SetTimer(w)
                          /\ UNCHANGED velocity
    \/ \E u \in Users : WindowEnds(u)

LocationSteps ==
    \/ UNCHANGED location
    \/ \E w \in Workers : pc[w] = "geo_set" /\ Locate(w)
    \/ \E u \in Users : LocationExpires(u)

\* previous is reset, or read from the location of the worker's user.
PreviousSteps ==
    \/ UNCHANGED previous
    \/ \E w \in Workers : previous' = [previous EXCEPT ![w] = NoPlace]
    \/ \E w \in Workers : /\ pc[w] = "geo_get"
                          /\ previous' = [previous EXCEPT
                                             ![w] = location[UserOf(w)]]

\* Every step treats them in one of these ways.
LEMMA RedisSteps ==
    ASSUME IInv, [Next]_vars
    PROVE  CounterSteps /\ LocationSteps /\ PreviousSteps
<1> DEFINE Goal == CounterSteps /\ LocationSteps /\ PreviousSteps
<1>1. ASSUME NEW w \in Workers, Evaluate(w)
      PROVE  Goal
  BY <1>1
     DEF Evaluate, SkipDeclined, VelocityGet, VelocityIncr, VelocityExpire,
         GeoGet, GeoSet, Inside, redisVars, localVars, CounterSteps,
         LocationSteps, PreviousSteps
<1>2. ASSUME NEW w \in Workers, RedisRaises(w)
      PROVE  Goal
  BY <1>2
     DEF RedisRaises, redisVars, CounterSteps, LocationSteps, PreviousSteps
<1>3. ASSUME UNCHANGED <<velocity, timed, location>>,
             \/ UNCHANGED previous
             \/ \E w \in Workers : previous' = [previous EXCEPT ![w] = NoPlace]
      PROVE  Goal
  BY <1>3 DEF CounterSteps, LocationSteps, PreviousSteps
<1>4. ASSUME NEW w \in Workers,
             \/ Fetch(w) \/ CheckMark(w) \/ SkipCommit(w) \/ Publish(w)
             \/ Mark(w) \/ Commit(w) \/ DeadLetter(w) \/ DeadCommit(w)
      PROVE  Goal
  BY <1>3, <1>4
     DEF Fetch, CheckMark, SkipCommit, Publish, Mark, Inside, Commit,
         DeadLetter, DeadCommit, Forget, redisVars, localVars
<1>5. ASSUME NEW w \in Workers,
             \/ CheckMarkRaises(w) \/ SkipCommitRaises(w)
             \/ PublishRaises(w) \/ MarkRaises(w) \/ CommitRaises(w)
             \/ DeadLetterRaises(w) \/ DeadCommitRaises(w) \/ CrashWorker(w)
      PROVE  Goal
  BY <1>3, <1>5
     DEF CheckMarkRaises, SkipCommitRaises, PublishRaises, MarkRaises,
         CommitRaises, DeadLetterRaises, DeadCommitRaises, CrashWorker,
         Forget, redisVars, localVars
<1>6. ASSUME \/ Group \/ UNCHANGED vars
             \/ \E e \in ProcessedEvents : Arrive(e)
             \/ \E t \in Txns : MarkExpires(t)
      PROVE  Goal
  BY <1>3, <1>6 DEF Group, vars, Arrive, MarkExpires, redisVars, localVars
<1>7. ASSUME NEW u \in Users, WindowEnds(u) \/ LocationExpires(u)
      PROVE  Goal
  <2>1. CASE WindowEnds(u)
    BY <2>1
       DEF WindowEnds, localVars, CounterSteps, LocationSteps, PreviousSteps
  <2>2. CASE LocationExpires(u)
    BY <2>2 DEF LocationExpires, localVars, CounterSteps, LocationSteps,
                PreviousSteps
  <2>3. QED  BY <1>7, <2>1, <2>2
<1>8. QED
  BY <1>1, <1>2, <1>4, <1>5, <1>6, <1>7 DEF Next, WorkerStep, Failure

\* Only failures are counted.
LEMMA FaultSteps ==
    ASSUME IInv, [Next]_vars
    PROVE  faults' \in Nat /\ faults' >= faults
<1>1. faults \in Nat
  BY DEF IInv, ShapesOK
<1>2. ASSUME UNCHANGED faults \/ Fault
      PROVE  faults' \in Nat /\ faults' >= faults
  BY <1>1, <1>2 DEF Fault
<1>3. ASSUME NEW w \in Workers, WorkerStep(w)
      PROVE  UNCHANGED faults
  BY <1>3
     DEF WorkerStep, Fetch, Begin, CheckMark, SkipCommit, Evaluate,
         SkipDeclined, VelocityGet, VelocityIncr, VelocityExpire, GeoGet,
         GeoSet, Inside, Publish, Mark, Commit, DeadLetter, DeadCommit,
         CommitAt, NoFault
<1>4. ASSUME NEW w \in Workers, Failure(w)
      PROVE  Fault
  BY <1>4
     DEF Failure, CheckMarkRaises, SkipCommitRaises, RedisRaises,
         PublishRaises, MarkRaises, CommitRaises, CommitRaisesAt,
         DeadLetterRaises, DeadCommitRaises, CommitKillsAt, CrashWorker, Crash
<1>5. ASSUME \/ Group \/ UNCHANGED vars
             \/ \E e \in ProcessedEvents : Arrive(e)
             \/ \E u \in Users : WindowEnds(u) \/ LocationExpires(u)
             \/ \E t \in Txns : MarkExpires(t)
      PROVE  UNCHANGED faults \/ Fault
  BY <1>5
     DEF Group, Restart, Rebalance, Takeover, vars, loopVars, Arrive,
         WindowEnds, LocationExpires, MarkExpires
<1>6. QED  BY <1>2, <1>3, <1>4, <1>5 DEF Next

-----------------------------------------------------------------------------
(* Published grows by what a worker appends.                                *)

\* A set of verdicts is there when one of its events is.
LEMMA PublishedDef ==
    ASSUME NEW t \in Txns
    PROVE  t \in Published <=> \E j \in 1..Len(output[PartitionOf[t]]) :
                                  output[PartitionOf[t]][j].request.txn = t
BY DEF Published, Verdicts

\* ... and after a step.
LEMMA PublishedDefNext ==
    ASSUME NEW t \in Txns
    PROVE  t \in Published' <=> \E j \in 1..Len(output'[PartitionOf[t]]) :
                                   output'[PartitionOf[t]][j].request.txn = t
BY DEF Published, Verdicts

\* Appending w's event publishes its transaction, and no other.
LEMMA AppendingPublishes ==
    ASSUME IInv, NEW w \in Workers, Busy(w), AppendVerdict(w)
    PROVE  /\ Published' = Published \cup {TxnOf(w)}
           /\ output' \in [Partitions -> Seq(Held)]
<1> DEFINE q == PartitionOf[TxnOf(w)]
<1>1. /\ TxnOf(w) \in Txns /\ txn[w] \in Held /\ q \in Partitions
      /\ txn[w].request.txn = TxnOf(w)
  BY TxnType DEF TxnOf
<1>2. output \in [Partitions -> Seq(Held)]
  BY DEF IInv, ShapesOK
<1>3. output' = [output EXCEPT ![q] = Append(@, txn[w])]
  BY DEF AppendVerdict
<1> HIDE DEF q
<1>4. /\ output'[q] = Append(output[q], txn[w])
      /\ Append(output[q], txn[w]) \in Seq(Held)
      /\ Len(output[q]) \in Nat
      /\ Len(output'[q]) = Len(output[q]) + 1
      /\ output'[q][Len(output[q]) + 1] = txn[w]
      /\ \A j \in 1..Len(output[q]) : output'[q][j] = output[q][j]
  BY <1>1, <1>2, <1>3, AppendKeeps
<1>5. output' \in [Partitions -> Seq(Held)]
  BY <1>1, <1>2, <1>3, <1>4
<1>6. ASSUME NEW t \in Txns
      PROVE  t \in Published' <=> (t \in Published \/ t = TxnOf(w))
  <2>1. PartitionOf[t] \in Partitions
    BY FraudServiceAssumption
  <2>2. CASE PartitionOf[t] # q
    <3>1. output'[PartitionOf[t]] = output[PartitionOf[t]]
      BY <1>2, <1>3, <2>1, <2>2
    <3>2. t # TxnOf(w)
      BY <2>2 DEF q
    <3>3. QED  BY <3>1, <3>2, PublishedDef, PublishedDefNext
  <2>3. CASE PartitionOf[t] = q /\ t = TxnOf(w)
    <3>1. Len(output[q]) + 1 \in 1..Len(output'[q])
      BY <1>4
    <3>2. QED  BY <1>1, <1>4, <2>3, <3>1, PublishedDefNext
  <2>4. CASE PartitionOf[t] = q /\ t # TxnOf(w)
    <3>1. ASSUME NEW j \in 1..Len(output'[q]),
                 output'[q][j].request.txn = t
          PROVE  j \in 1..Len(output[q]) /\ output[q][j].request.txn = t
      <4>1. j \in 1..Len(output[q])
        BY <1>1, <1>4, <2>4, <3>1
      <4>2. QED  BY <1>4, <3>1, <4>1
    <3>2. ASSUME NEW j \in 1..Len(output[q]),
                 output[q][j].request.txn = t
          PROVE  j \in 1..Len(output'[q]) /\ output'[q][j].request.txn = t
      BY <1>4, <3>2
    <3>3. QED  BY <2>4, <3>1, <3>2, PublishedDef, PublishedDefNext
  <2>5. QED  BY <2>2, <2>3, <2>4
<1>7. Published \subseteq Txns /\ Published' \subseteq Txns
  BY DEF Published
<1>8. QED  BY <1>1, <1>5, <1>6, <1>7

\* Nothing published or dead-lettered is ever taken back.
LEMMA SettledStays ==
    ASSUME IInv, [Next]_vars
    PROVE  Published \subseteq Published' /\ dlq \subseteq dlq'
<1>1. UNCHANGED output => Published' = Published
  BY DEF Published, Verdicts
<1>2. Published \subseteq Published'
  BY <1>1, OutputSteps, AppendingPublishes
<1>3. dlq \subseteq dlq'
  BY DlqSteps DEF Bury
<1>4. QED  BY <1>2, <1>3

-----------------------------------------------------------------------------
(* The invariant is inductive.                                              *)

\* The loop keeps its types and its places.
LEMMA LoopInvStep ==
    ASSUME IInv, [Next]_vars
    PROVE  /\ LoopStep(ProcessedEvents, Steps)
           /\ LoopTypeOK(ProcessedEvents, Steps)'
           /\ Positions'
<1>1. LoopTypeOK(ProcessedEvents, Steps) /\ Positions
  BY DEF IInv
<1>2. LoopStep(ProcessedEvents, Steps)
  BY NextIsLoopStep DEF vars, loopVars, LoopStep
<1>3. "idle" \in Steps
  BY DEF Steps
<1>4. QED
  BY <1>1, <1>2, <1>3, LoopStepKeepsTypes, LoopStepKeepsPositions

\* Every worker is on an edge, also in a stuttering step.
LEMMA EdgesTaken ==
    ASSUME IInv, [Next]_vars, NEW v \in Workers
    PROVE  Edge(v)
BY StepsAreEdges, StayingIsAnEdge DEF vars, loopVars, workerVars, localVars

\* The message an idle worker takes is a processed event of its partition.
LEMMA TakenIsProcessed ==
    ASSUME IInv, NEW v \in Workers, NEW p \in Partitions,
           Begin(v, p, "check")
    PROVE  /\ input[p][committed[p] + 1] \in ProcessedEvents
           /\ Message(v)' = input[p][committed[p] + 1]
<1>1. /\ committed[p] \in Nat /\ input[p] \in Seq(ProcessedEvents)
      /\ committed[p] < Len(input[p])
  BY DEF Begin, IInv, LoopTypeOK
<1>2. committed[p] + 1 \in 1..Len(input[p])
  BY <1>1
<1>3. part'[v] = p /\ offset'[v] = committed[p] + 1 /\ input' = input
  BY DEF Begin, IInv, LoopTypeOK
<1>4. QED  BY <1>1, <1>2, <1>3 DEF Message

\* txn stays a function of the workers.
LEMMA TxnIsFunction ==
    ASSUME IInv, [Next]_vars
    PROVE  txn' \in [Workers -> Held \cup {NoEvent}]
<1>1. txn \in [Workers -> Held \cup {NoEvent}]
  BY DEF IInv, ShapesOK
<1>2. ASSUME NEW w \in Workers, Edge(w)
      PROVE  txn'[w] \in Held \cup {NoEvent}
  <2>1. ASSUME Takes(w)
        PROVE  txn'[w] \in Held
    BY <2>1, TakenIsProcessed, DecodedIsHeld DEF Takes
  <2>2. ASSUME Decides(w)
        PROVE  txn'[w] \in Held
    BY <2>2, TxnType, EvaluatedIsHeld DEF Decides
  <2>3. QED  BY <1>1, <1>2, <2>1, <2>2 DEF Edge, GoesFree, GoesOn
<1>3. ASSUME NEW w \in Workers, OnlyMoves(w), Edge(w)
      PROVE  txn' \in [Workers -> Held \cup {NoEvent}]
  BY <1>1, <1>2, <1>3 DEF OnlyMoves
<1>4. ASSUME UNCHANGED txn
      PROVE  txn' \in [Workers -> Held \cup {NoEvent}]
  BY <1>1, <1>4
<1>5. ASSUME \/ Group \/ UNCHANGED vars
             \/ \E e \in ProcessedEvents : Arrive(e)
             \/ \E u \in Users : WindowEnds(u) \/ LocationExpires(u)
             \/ \E t \in Txns : MarkExpires(t)
      PROVE  UNCHANGED txn
  BY <1>5
     DEF Group, vars, Arrive, WindowEnds, LocationExpires, MarkExpires,
         localVars
<1>6. QED
  BY <1>3, <1>4, <1>5, HandlersAreLocal, MoverTakesAnEdge DEF Next

\* The shapes of the topic, the dicts and the fault counter.
LEMMA ShapesStep == IInv /\ [Next]_vars => ShapesOK'
<1> SUFFICES ASSUME IInv, [Next]_vars
             PROVE  ShapesOK'
  OBVIOUS
<1>1. output' \in [Partitions -> Seq(Held)]
  BY OutputSteps, AppendingPublishes DEF IInv, ShapesOK
<1>2. QED  BY <1>1, TxnIsFunction, FaultSteps DEF ShapesOK

\* The counters, locations and marks keep their types.
LEMMA RedisTypes ==
    ASSUME IInv, [Next]_vars
    PROVE  /\ dlq' \subseteq Txns /\ marked' \subseteq Txns
           /\ timed' \subseteq Users
           /\ velocity' \in [Users -> Nat]
           /\ location' \in [Users -> Places]
           /\ previous' \in [Workers -> Places]
<1>1. /\ dlq \subseteq Txns /\ marked \subseteq Txns /\ timed \subseteq Users
      /\ velocity \in [Users -> Nat] /\ location \in [Users -> Places]
      /\ previous \in [Workers -> Places] /\ pc \in [Workers -> Steps]
  BY DEF IInv, TypeOK
<1>2. NoPlace \in Places
  BY DEF Places
<1>3. ASSUME NEW w \in Workers, pc[w] \in {"incr", "expire", "geo_get",
                                           "geo_set", "mark"}
      PROVE  /\ UserOf(w) \in Users /\ TxnOf(w) \in Txns
             /\ txn[w].request.place \in Places
  BY <1>3, TxnType DEF Busy, Live
<1>4. dlq' \subseteq Txns
  BY <1>1, DlqSteps, TxnType DEF Bury
<1>5. marked' \subseteq Txns
  BY <1>1, <1>3, MarkSteps DEF SetMark
<1>6. timed' \subseteq Users /\ velocity' \in [Users -> Nat]
  <2>1. ASSUME NEW u \in Users, WindowEnds(u)
        PROVE  timed' \subseteq Users /\ velocity' \in [Users -> Nat]
    BY <1>1, <2>1 DEF WindowEnds
  <2>2. ASSUME NEW w \in Workers, pc[w] = "incr", CountOne(w)
        PROVE  velocity' \in [Users -> Nat]
    <3>1. UserOf(w) \in Users /\ velocity[UserOf(w)] \in Nat
      BY <1>1, <1>3, <2>2
    <3>2. velocity[UserOf(w)] + 1 \in Nat
      BY <3>1
    <3>3. QED  BY <1>1, <2>2, <3>2 DEF CountOne
  <2>3. ASSUME NEW w \in Workers, pc[w] = "expire", SetTimer(w)
        PROVE  timed' \subseteq Users
    BY <1>1, <1>3, <2>3 DEF SetTimer
  <2>4. QED  BY <1>1, <2>1, <2>2, <2>3, RedisSteps DEF CounterSteps
<1>7. location' \in [Users -> Places]
  <2>1. ASSUME NEW u \in Users, LocationExpires(u)
        PROVE  location' \in [Users -> Places]
    BY <1>1, <1>2, <2>1 DEF LocationExpires
  <2>2. ASSUME NEW w \in Workers, pc[w] = "geo_set", Locate(w)
        PROVE  location' \in [Users -> Places]
    BY <1>1, <1>3, <2>2 DEF Locate
  <2>3. QED  BY <1>1, <2>1, <2>2, RedisSteps DEF LocationSteps
<1>8. previous' \in [Workers -> Places]
  <2>1. ASSUME NEW w \in Workers, pc[w] = "geo_get"
        PROVE  location[UserOf(w)] \in Places
    BY <1>1, <1>3, <2>1
  <2>2. QED  BY <1>1, <1>2, <2>1, RedisSteps DEF PreviousSteps
<1>9. QED  BY <1>4, <1>5, <1>6, <1>7, <1>8

\* Types are kept.
LEMMA TypeStep == IInv /\ [Next]_vars => TypeOK'
<1> SUFFICES ASSUME IInv, [Next]_vars
             PROVE  TypeOK'
  OBVIOUS
<1>1. /\ input' \in [Partitions -> Seq(ProcessedEvents)]
      /\ pc' \in [Workers -> Steps]
  BY LoopInvStep DEF LoopTypeOK
<1>2. output' \in [Partitions -> Seq(Held)]
  BY ShapesStep DEF ShapesOK
<1>3. ASSUME NEW p \in Partitions, NEW i \in 1..Len(input'[p])
      PROVE  input'[p][i] \in ProcessedEvents
  BY <1>1
<1>4. ASSUME NEW p \in Partitions, NEW j \in 1..Len(output'[p])
      PROVE  output'[p][j] \in Held
  BY <1>2
<1>5. ASSUME NEW w \in Workers
      PROVE  /\ txn'[w] \in Held \cup {NoEvent}
             /\ Busy(w)' <=> txn'[w] # NoEvent
  <2>1. Edge(w)
    BY EdgesTaken
  <2>2. txn'[w] \in Held \cup {NoEvent}
    BY TxnIsFunction
  <2>3. CASE GoesFree(w)
    BY <2>3, BusyPcNext DEF GoesFree
  <2>4. CASE Takes(w)
    <3>1. pc'[w] = "check"
      BY <2>4 DEF Takes, Begin, IInv, LoopTypeOK
    <3>2. txn'[w] \in Held
      BY <2>4, TakenIsProcessed, DecodedIsHeld DEF Takes
    <3>3. QED  BY <2>2, <3>1, <3>2, HeldFields, BusyPcNext DEF Outside
  <2>5. CASE Decides(w)
    <3>1. txn'[w] \in Held
      BY <2>5, TxnType, EvaluatedIsHeld DEF Decides
    <3>2. QED  BY <2>2, <2>5, <3>1, HeldFields, BusyPcNext DEF Decides, Outside
  <2>6. CASE GoesOn(w)
    <3>1. txn'[w] \in Held
      BY <2>6, TxnType DEF GoesOn
    <3>2. pc'[w] \notin Outside
      BY <2>6, BusyPc DEF GoesOn, Outside
    <3>3. QED  BY <2>2, <3>1, <3>2, HeldFields, BusyPcNext
  <2>7. QED  BY <2>1, <2>3, <2>4, <2>5, <2>6 DEF Edge
<1>6. QED  BY <1>1, <1>3, <1>4, <1>5, RedisTypes DEF TypeOK

\* The dict in a worker's hands stays the one of its message.
LEMMA HoldsItsMessageStep == IInv /\ [Next]_vars => HoldsItsMessage'
<1> SUFFICES ASSUME IInv, [Next]_vars, NEW v \in Workers, Busy(v)'
             PROVE  txn'[v].request = Message(v)'.request
  BY DEF HoldsItsMessage
<1>1. Edge(v) /\ LoopStep(ProcessedEvents, Steps)
  BY EdgesTaken, LoopInvStep
<1>2. Stays(v) \/ \E q \in Partitions : Begin(v, q, pc'[v])
  BY <1>1, BusyStaysOrBegins DEF IInv
<1>3. pc'[v] \notin Outside
  BY BusyPcNext
<1>4. CASE Takes(v)
  <2>1. PICK p \in Partitions :
            Begin(v, p, "check") /\ txn'[v] = Decoded(input[p][committed[p] + 1])
    BY <1>4 DEF Takes
  <2>2. QED  BY <2>1, TakenIsProcessed, DecodedIsHeld
<1>5. CASE Busy(v)
  <2>1. pc[v] # "idle"
    BY <1>5 DEF Busy
  <2>2. Stays(v)
    BY <1>2, <2>1 DEF Begin
  <2>3. txn[v].request = Message(v).request
    BY <1>5 DEF IInv, HoldsItsMessage
  <2>4. txn'[v].request = txn[v].request
    <3>1. CASE Decides(v)
      BY <1>5, <3>1, TxnType, EvaluatedIsHeld DEF Decides
    <3>2. CASE GoesOn(v)
      BY <3>2 DEF GoesOn
    <3>3. ~GoesFree(v) /\ ~Takes(v)
      BY <1>3, <2>1 DEF GoesFree, Takes, Begin
    <3>4. QED  BY <1>1, <3>1, <3>2, <3>3 DEF Edge
  <2>5. QED  BY <2>2, <2>3, <2>4 DEF Stays
<1>6. QED  BY <1>1, <1>3, <1>4, <1>5 DEF Edge, GoesFree, Decides, GoesOn

\* Only an undecided transaction gets past the velocity check.
LEMMA UndecidedInsideStep == IInv /\ [Next]_vars => UndecidedInside'
<1> SUFFICES ASSUME IInv, [Next]_vars, NEW v \in Workers, pc'[v] \in Inner
             PROVE  txn'[v].final_status # "declined"
  BY DEF UndecidedInside
<1>1. pc[v] \in Inner => txn[v].final_status # "declined"
  BY DEF IInv, UndecidedInside
<1>2. ~Takes(v) /\ ~GoesFree(v) /\ ~Decides(v)
  BY DEF Takes, Begin, GoesFree, Decides, Inner, Outside, IInv, LoopTypeOK
<1>3. GoesOn(v)
  BY <1>2, EdgesTaken DEF Edge
<1>4. QED  BY <1>1, <1>3 DEF GoesOn, Inner

\* A worker reaches its mark, its commit and its skip with the verdict in the
\* topic, and the commit of a dead letter with the dead letter in its topic.
LEMMA SettledBeforeCommitStep == IInv /\ [Next]_vars => SettledBeforeCommit'
<1> SUFFICES ASSUME IInv, [Next]_vars, NEW v \in Workers
             PROVE  /\ pc'[v] \in {"mark", "commit", "skip_commit"} =>
                          TxnOf(v)' \in Published'
                    /\ pc'[v] = "dead_commit" => TxnOf(v)' \in dlq'
  BY DEF SettledBeforeCommit
<1> SUFFICES ASSUME pc'[v] \in {"mark", "commit", "skip_commit",
                                "dead_commit"}
             PROVE  /\ pc'[v] # "dead_commit" => TxnOf(v)' \in Published'
                    /\ pc'[v] = "dead_commit" => TxnOf(v)' \in dlq'
  OBVIOUS
<1>1. ~Takes(v) /\ ~GoesFree(v) /\ ~Decides(v)
  BY DEF Takes, Begin, GoesFree, Decides, Outside, IInv, LoopTypeOK
<1>2. GoesOn(v)
  BY <1>1, EdgesTaken DEF Edge
<1>3. Busy(v) /\ TxnOf(v)' = TxnOf(v)
  BY <1>2 DEF GoesOn, TxnOf
<1>4. Published \subseteq Published' /\ dlq \subseteq dlq'
  BY SettledStays
<1>5. /\ pc[v] \in {"mark", "commit", "skip_commit"} => TxnOf(v) \in Published
      /\ pc[v] = "dead_commit" => TxnOf(v) \in dlq
      /\ marked \subseteq Published
  BY DEF IInv, SettledBeforeCommit, MarkedIsPublished
<1>6. AppendVerdict(v) => TxnOf(v) \in Published'
  BY <1>3, AppendingPublishes
<1>7. Bury(v) => TxnOf(v) \in dlq'
  BY DEF Bury
<1>8. QED  BY <1>2, <1>3, <1>4, <1>5, <1>6, <1>7 DEF GoesOn

\* A mark is set only behind the publication.
LEMMA MarkedIsPublishedStep == IInv /\ [Next]_vars => MarkedIsPublished'
<1> SUFFICES ASSUME IInv, [Next]_vars
             PROVE  marked' \subseteq Published'
  BY DEF MarkedIsPublished
<1>1. marked \subseteq Published /\ Published \subseteq Published'
  BY SettledStays DEF IInv, MarkedIsPublished
<1>2. ASSUME NEW w \in Workers, pc[w] = "mark"
      PROVE  TxnOf(w) \in Published
  BY <1>2 DEF IInv, SettledBeforeCommit
<1>3. QED  BY <1>1, <1>2, MarkSteps DEF SetMark

\* consume() starts with the invariant.
LEMMA InitIInv == Init => IInv
<1> SUFFICES ASSUME Init
             PROVE  IInv
  OBVIOUS
<1>1. LoopTypeOK(ProcessedEvents, Steps)
  BY AnyPartitionType DEF Init, LoopInit, LoopTypeOK, Steps
<1>2. /\ \A p \in Partitions : /\ input[p] = <<>> /\ output[p] = <<>>
                               /\ committed[p] = 0
      /\ \A w \in Workers : /\ pc[w] = "idle" /\ leased[w] = FALSE
                            /\ txn[w] = NoEvent
  BY DEF Init, LoopInit
<1>3. \A w \in Workers : ~Busy(w)
  BY <1>2 DEF Busy, Live
<1>4. Positions
  BY <1>2, <1>3 DEF Positions, CommittedInLog
<1>5. TypeOK
  BY <1>2, <1>3 DEF Init, LoopInit, TypeOK, Steps, Places
<1>6. ShapesOK
  BY DEF Init, LoopInit, ShapesOK
<1>7. /\ HoldsItsMessage /\ UndecidedInside /\ SettledBeforeCommit
      /\ MarkedIsPublished
  BY <1>2, <1>3
     DEF Init, HoldsItsMessage, UndecidedInside, Inner, SettledBeforeCommit,
         MarkedIsPublished
<1>8. QED  BY <1>1, <1>4, <1>5, <1>6, <1>7 DEF IInv

\* Every step keeps the invariant.
LEMMA NextIInv == IInv /\ [Next]_vars => IInv'
BY LoopInvStep, ShapesStep, TypeStep, HoldsItsMessageStep,
   UndecidedInsideStep, SettledBeforeCommitStep, MarkedIsPublishedStep
   DEF IInv

\* The inductive invariant of the fraud service holds in every reachable
\* state.
THEOREM Invariance == SafeSpec => []IInv
BY InitIInv, NextIInv, PTL DEF SafeSpec

\* Types are kept: a worker has a transaction exactly while it is busy, and it
\* is one the processor made, with a verdict of this service.
THEOREM TypeCorrect == SafeSpec => []TypeOK
<1>1. IInv => TypeOK
  BY DEF IInv
<1>2. QED  BY <1>1, Invariance, PTL

\* mark_processed stands behind send_and_wait: whoever finds the mark of a
\* transaction may skip it, for its verdict is in fraud-evaluated.
THEOREM MarksArePromises == SafeSpec => []MarkedIsPublished
<1>1. IInv => MarkedIsPublished
  BY DEF IInv
<1>2. QED  BY <1>1, Invariance, PTL

\* Within one delivery a declined transaction stays declined, whatever the
\* retries find in Redis.
THEOREM DeclinesAreFinal == SafeSpec => DeclineSticks
<1>1. ASSUME IInv, [Next]_vars, NEW w \in Workers, Busy(w), Busy(w)',
             txn[w].final_status = "declined"
      PROVE  txn'[w].final_status = "declined"
  <2>1. Edge(w)
    BY <1>1, EdgesTaken
  <2>2. ~GoesFree(w) /\ ~Takes(w)
    BY <1>1, BusyPcNext DEF GoesFree, Takes, Begin, Busy
  <2>3. CASE Decides(w)
    BY <1>1, <2>3, TxnType, EvaluatedIsHeld DEF Decides
  <2>4. CASE GoesOn(w)
    BY <1>1, <2>4 DEF GoesOn
  <2>5. QED  BY <2>1, <2>2, <2>3, <2>4 DEF Edge
<1>2. IInv /\ [Next]_vars =>
          [\A w \in Workers :
              /\ Busy(w) /\ Busy(w)' /\ UNCHANGED <<part[w], offset[w]>>
              /\ txn[w].final_status = "declined"
              => txn'[w].final_status = "declined"]_vars
  BY <1>1
<1>3. QED  BY <1>2, Invariance, PTL DEF SafeSpec, DeclineSticks

-----------------------------------------------------------------------------
(* Counting the calls under way: how far the shared counter can go.         *)

\* The workers at one of the two counter calls, for user u.
At(step, u) == {w \in Workers : pc[w] = step /\ UserOf(w) = u}

\* What has passed the check and is not yet counted is within the limit too.
VelocityInv ==
    /\ \A w \in Workers : pc[w] = "incr" => VelocityLimit > 0
    /\ \A u \in Users :
          velocity[u] + Cardinality(At("incr", u))
              <= VelocityLimit + Cardinality(Workers) - 1

CounterInv == VelocityInv /\ UntimedCostsFailures

\* How a worker's step moves it past the two calls, and what it does to the
\* counter and its timer meanwhile.
CounterMove(w) ==
    \/ /\ pc[w] \notin {"incr", "expire"} /\ pc'[w] \notin {"incr", "expire"}
       /\ UNCHANGED <<velocity, timed>>
    \/ /\ pc[w] = "evaluate" /\ pc'[w] = "incr" /\ txn'[w] = txn[w]
       /\ velocity[UserOf(w)] < VelocityLimit
       /\ UNCHANGED <<velocity, timed>>
    \/ /\ pc[w] = "incr" /\ pc'[w] = "expire" /\ txn'[w] = txn[w]
       /\ CountOne(w) /\ UNCHANGED timed
    \/ /\ pc[w] = "incr" /\ pc'[w] \notin {"incr", "expire"} /\ Fault
       /\ CountOne(w) \/ UNCHANGED velocity
       /\ UNCHANGED timed
    \/ /\ pc[w] = "expire" /\ pc'[w] \notin {"incr", "expire"}
       /\ SetTimer(w) \/ (Fault /\ UNCHANGED timed)
       /\ UNCHANGED velocity

\* Every handler passes the calls in one of these ways.
LEMMA HandlersMoveCounters ==
    ASSUME IInv, NEW w \in Workers, WorkerStep(w) \/ Failure(w)
    PROVE  CounterMove(w)
<1>1. pc \in [Workers -> Steps] /\ txn \in [Workers -> Held \cup {NoEvent}]
  BY DEF IInv, LoopTypeOK, ShapesOK
<1>2. ASSUME UNCHANGED <<velocity, timed>>,
             pc[w] \notin {"incr", "expire"},
             NEW step, step \notin {"incr", "expire"},
             pc' = [pc EXCEPT ![w] = step]
      PROVE  CounterMove(w)
  BY <1>1, <1>2 DEF CounterMove
<1>3. ASSUME \/ Fetch(w) \/ CheckMark(w) \/ Publish(w) \/ Mark(w)
             \/ DeadLetter(w) \/ SkipCommit(w) \/ Commit(w) \/ DeadCommit(w)
      PROVE  CounterMove(w)
  BY <1>2, <1>3
     DEF Fetch, Begin, CheckMark, Publish, Mark, Inside, Goto, DeadLetter,
         SkipCommit, Commit, DeadCommit, CommitAt, Release, redisVars
<1>4. ASSUME SkipDeclined(w) \/ GeoGet(w) \/ GeoSet(w)
      PROVE  CounterMove(w)
  BY <1>2, <1>4 DEF SkipDeclined, GeoGet, GeoSet, Inside, Goto, redisVars
<1>5. ASSUME VelocityGet(w)
      PROVE  CounterMove(w)
  BY <1>1, <1>5 DEF VelocityGet, Inside, Goto, redisVars, CounterMove
<1>6. ASSUME VelocityIncr(w)
      PROVE  CounterMove(w)
  BY <1>1, <1>6 DEF VelocityIncr, Inside, Goto, localVars, CounterMove
<1>7. ASSUME VelocityExpire(w)
      PROVE  CounterMove(w)
  BY <1>1, <1>7 DEF VelocityExpire, Inside, Goto, CounterMove
<1>8. ASSUME NEW step, step \notin {"incr", "expire"}, Fault,
             pc' = [pc EXCEPT ![w] = step],
             UNCHANGED <<velocity, timed>>
      PROVE  CounterMove(w)
  BY <1>1, <1>8 DEF CounterMove
<1>9. ASSUME \/ CheckMarkRaises(w) \/ SkipCommitRaises(w)
             \/ DeadLetterRaises(w) \/ DeadCommitRaises(w) \/ CrashWorker(w)
      PROVE  CounterMove(w)
  BY <1>8, <1>9
     DEF CheckMarkRaises, SkipCommitRaises, DeadLetterRaises,
         DeadCommitRaises, CommitKillsAt, CrashWorker, Crash, Release,
         redisVars
<1>10. ASSUME PublishRaises(w) \/ MarkRaises(w) \/ CommitRaises(w)
       PROVE  CounterMove(w)
  BY <1>8, <1>10
     DEF PublishRaises, MarkRaises, CommitRaises, CommitRaisesAt,
         RetryOrGiveUp, redisVars
<1>11. ASSUME RedisRaises(w)
       PROVE  CounterMove(w)
  <2>1. pc'[w] \in {"evaluate", "dead_letter"} /\ Fault
    BY <1>1, <1>11 DEF RedisRaises, RetryOrGiveUp
  <2>2. QED  BY <1>11, <2>1 DEF RedisRaises, redisVars, CounterMove
<1>12. QED
  BY <1>3, <1>4, <1>5, <1>6, <1>7, <1>9, <1>10, <1>11
     DEF WorkerStep, Failure, Evaluate

\* Every other step leaves the workers at their calls, and the counters alone
\* or at the end of their window.
LEMMA EnvironmentMovesCounters ==
    ASSUME IInv, [Next]_vars,
           ~ \E w \in Workers : WorkerStep(w) \/ Failure(w)
    PROVE  /\ \A step \in {"incr", "expire"}, u \in Users :
                At(step, u)' = At(step, u)
           /\ \A w \in Workers : pc'[w] = "incr" => pc[w] = "incr"
           /\ \/ UNCHANGED <<velocity, timed>>
              \/ \E u \in Users : WindowEnds(u)
<1>1. pc \in [Workers -> Steps]
  BY DEF IInv, LoopTypeOK
<1>2. UNCHANGED txn
  BY DEF Next, Group, Arrive, WindowEnds, LocationExpires, MarkExpires, vars,
         localVars
<1>3. ASSUME NEW w \in Workers, NEW step \in {"incr", "expire"}
      PROVE  pc'[w] = step <=> pc[w] = step
  <2>1. ASSUME NEW v \in Workers, Restart(v)
        PROVE  pc'[w] = step <=> pc[w] = step
    BY <1>1, <2>1 DEF Restart
  <2>2. ASSUME UNCHANGED pc
        PROVE  pc'[w] = step <=> pc[w] = step
    BY <2>2
  <2>3. QED
    BY <2>1, <2>2
       DEF Next, Group, Rebalance, Takeover, Arrive, WindowEnds,
           LocationExpires, MarkExpires, vars, loopVars, workerVars
<1>4. \/ UNCHANGED <<velocity, timed>>
      \/ \E u \in Users : WindowEnds(u)
  BY DEF Next, Group, Arrive, LocationExpires, MarkExpires, vars, redisVars
<1>5. QED  BY <1>2, <1>3, <1>4 DEF At, UserOf

\* The workers at a call after a step of w.
LEMMA AtSets ==
    ASSUME IInv, NEW w \in Workers, OnlyMoves(w), NEW step, NEW u \in Users
    PROVE  /\ pc[w] # step /\ pc'[w] # step => At(step, u)' = At(step, u)
           /\ pc[w] # step /\ pc'[w] = step /\ txn'[w] = txn[w] =>
                 At(step, u)' = IF UserOf(w) = u THEN At(step, u) \cup {w}
                                                 ELSE At(step, u)
           /\ pc[w] = step /\ pc'[w] # step =>
                 At(step, u)' = At(step, u) \ {w}
<1>1. \A v \in Workers : v # w => pc'[v] = pc[v] /\ txn'[v] = txn[v]
  BY OthersStay
<1>2. At(step, u)' = {v \in Workers : pc'[v] = step
                                      /\ txn'[v].request.user = u}
  BY DEF At, UserOf
<1>3. At(step, u) = {v \in Workers : pc[v] = step
                                     /\ txn[v].request.user = u}
  BY DEF At, UserOf
<1>4. QED  BY <1>1, <1>2, <1>3 DEF UserOf

\* ... and how many they are.
LEMMA AtCounts ==
    ASSUME IInv, NEW w \in Workers, OnlyMoves(w), NEW step, NEW u \in Users
    PROVE  /\ Cardinality(At(step, u)) \in Nat
           /\ Cardinality(At(step, u)) <= Cardinality(Workers)
           /\ pc[w] # step /\ pc'[w] # step =>
                 Cardinality(At(step, u))' = Cardinality(At(step, u))
           /\ pc[w] # step /\ pc'[w] = step /\ txn'[w] = txn[w] =>
                 Cardinality(At(step, u))' =
                     IF UserOf(w) = u THEN Cardinality(At(step, u)) + 1
                                      ELSE Cardinality(At(step, u))
           /\ pc[w] = step /\ pc'[w] # step =>
                 Cardinality(At(step, u))' =
                     IF UserOf(w) = u THEN Cardinality(At(step, u)) - 1
                                      ELSE Cardinality(At(step, u))
<1>1. /\ At(step, u) \in SUBSET Workers
      /\ w \in At(step, u) <=> pc[w] = step /\ UserOf(w) = u
  BY DEF At
<1>2. /\ Cardinality(At(step, u)) \in Nat
      /\ Cardinality(At(step, u)) <= Cardinality(Workers)
  BY <1>1, SomeWorkers
<1>3. /\ w \notin At(step, u) =>
            Cardinality(At(step, u) \cup {w}) = Cardinality(At(step, u)) + 1
      /\ w \in At(step, u) =>
            Cardinality(At(step, u) \ {w}) = Cardinality(At(step, u)) - 1
  BY <1>1, OneWorkerMore
<1>4. w \notin At(step, u) => At(step, u) \ {w} = At(step, u)
  OBVIOUS
<1> DEFINE Before == At(step, u)
           After  == At(step, u)'
<1>5. /\ pc[w] # step /\ pc'[w] # step => After = Before
      /\ pc[w] # step /\ pc'[w] = step /\ txn'[w] = txn[w] =>
            After = IF UserOf(w) = u THEN Before \cup {w} ELSE Before
      /\ pc[w] = step /\ pc'[w] # step => After = Before \ {w}
  BY AtSets
<1>6. Cardinality(At(step, u))' = Cardinality(After)
  OBVIOUS
<1> HIDE DEF Before, After
<1>7. QED  BY <1>1, <1>2, <1>3, <1>4, <1>5, <1>6 DEF Before

\* The counter and those about to increment it stay within the bound.
LEMMA VelocityStep == IInv /\ CounterInv /\ [Next]_vars => VelocityInv'
<1> SUFFICES ASSUME IInv, CounterInv, [Next]_vars
             PROVE  VelocityInv'
  OBVIOUS
<1> DEFINE Bound == VelocityLimit + Cardinality(Workers) - 1
           Inv(u) == velocity[u] + Cardinality(At("incr", u)) <= Bound
<1>1. /\ velocity \in [Users -> Nat] /\ velocity' \in [Users -> Nat]
      /\ VelocityLimit \in Nat
      /\ Cardinality(Workers) \in Nat /\ Cardinality(Workers) >= 1
  <2>1. {} \in SUBSET Workers
    OBVIOUS
  <2>2. QED
    BY <2>1, RedisTypes, FraudServiceAssumption, SomeWorkers DEF IInv, TypeOK
<1>2. \A u \in Users : Inv(u)
  BY DEF CounterInv, VelocityInv
<1>3. \A w \in Workers : pc[w] = "incr" => VelocityLimit > 0
  BY DEF CounterInv, VelocityInv
<1>4. ASSUME NEW w \in Workers, WorkerStep(w) \/ Failure(w)
      PROVE  VelocityInv'
  <2>1. OnlyMoves(w) /\ CounterMove(w)
    BY <1>4, HandlersAreLocal, HandlersMoveCounters
  <2>2. pc[w] \in {"evaluate", "incr", "expire"} => UserOf(w) \in Users
    BY TxnType DEF Busy, Live
  <2>3. ASSUME NEW v \in Workers, pc'[v] = "incr"
        PROVE  VelocityLimit > 0
    <3>1. CASE v # w
      BY <1>3, <2>1, <2>3, <3>1, OthersStay
    <3>2. CASE v = w
      <4>1. velocity[UserOf(w)] \in Nat /\ velocity[UserOf(w)] < VelocityLimit
        BY <1>1, <2>1, <2>2, <2>3, <3>2 DEF CounterMove
      <4>2. QED  BY <1>1, <4>1
    <3>3. QED  BY <3>1, <3>2
  <2>4. ASSUME NEW u \in Users
        PROVE  velocity'[u] + Cardinality(At("incr", u))' <= Bound
    <3>1. /\ Cardinality(At("incr", u)) \in Nat
          /\ Cardinality(At("incr", u)) <= Cardinality(Workers)
          /\ velocity[u] \in Nat
      BY <1>1, <2>1, AtCounts
    <3>2. Inv(u)
      BY <1>2
    <3>3. CASE pc[w] # "incr" /\ pc'[w] # "incr" /\ UNCHANGED velocity
      BY <2>1, <3>2, <3>3, AtCounts
    <3>4. CASE /\ pc[w] = "evaluate" /\ pc'[w] = "incr"
               /\ txn'[w] = txn[w] /\ UNCHANGED velocity
               /\ velocity[UserOf(w)] < VelocityLimit
      <4>1. CASE UserOf(w) = u
        <5>1. /\ Cardinality(At("incr", u))' \in Nat
              /\ Cardinality(At("incr", u))' <= Cardinality(Workers)
          <6>1. At("incr", u)' \in SUBSET Workers
            BY DEF At
          <6>2. QED  BY <6>1, SomeWorkers
        <5>2. QED  BY <1>1, <3>1, <3>4, <4>1, <5>1
      <4>2. CASE UserOf(w) # u
        BY <2>1, <3>2, <3>4, <4>2, AtCounts
      <4>3. QED  BY <4>1, <4>2
    <3>5. CASE pc[w] = "incr" /\ pc'[w] # "incr"
      <4>1. Cardinality(At("incr", u))' =
                IF UserOf(w) = u THEN Cardinality(At("incr", u)) - 1
                                 ELSE Cardinality(At("incr", u))
        BY <2>1, <3>5, AtCounts
      <4>2. CountOne(w) \/ UNCHANGED velocity
        BY <2>1, <3>5 DEF CounterMove
      <4>3. CASE UserOf(w) = u
        <5>1. velocity'[u] <= velocity[u] + 1
          BY <1>1, <3>1, <4>2, <4>3 DEF CountOne
        <5>2. QED  BY <1>1, <3>1, <3>2, <4>1, <4>3, <5>1
      <4>4. CASE UserOf(w) # u
        <5>1. velocity'[u] = velocity[u]
          BY <1>1, <4>2, <4>4 DEF CountOne
        <5>2. QED  BY <3>2, <4>1, <4>4, <5>1
      <4>5. QED  BY <4>3, <4>4
    <3>6. QED  BY <2>1, <3>3, <3>4, <3>5 DEF CounterMove
  <2>5. QED  BY <2>3, <2>4 DEF VelocityInv
<1>5. ASSUME ~ \E w \in Workers : WorkerStep(w) \/ Failure(w)
      PROVE  VelocityInv'
  <2>1. /\ \A u \in Users : At("incr", u)' = At("incr", u)
        /\ \A w \in Workers : pc'[w] = "incr" => pc[w] = "incr"
        /\ \/ UNCHANGED <<velocity, timed>>
           \/ \E u \in Users : WindowEnds(u)
    BY <1>5, EnvironmentMovesCounters
  <2>2. ASSUME NEW u \in Users
        PROVE  velocity'[u] <= velocity[u]
    <3>1. CASE UNCHANGED velocity
      BY <1>1, <3>1
    <3>2. ASSUME NEW x \in Users, WindowEnds(x)
          PROVE  velocity'[u] <= velocity[u]
      <4>1. velocity'[u] = IF u = x THEN 0 ELSE velocity[u]
        BY <1>1, <3>2 DEF WindowEnds
      <4>2. QED  BY <1>1, <4>1
    <3>3. QED  BY <2>1, <3>1, <3>2
  <2>3. ASSUME NEW u \in Users
        PROVE  velocity'[u] + Cardinality(At("incr", u))' <= Bound
    <3>1. Cardinality(At("incr", u)) \in Nat
      <4>1. At("incr", u) \in SUBSET Workers
        BY DEF At
      <4>2. QED  BY <4>1, SomeWorkers
    <3>2. QED  BY <1>1, <1>2, <2>1, <2>2, <3>1
  <2>4. QED  BY <1>3, <2>1, <2>3 DEF VelocityInv
<1>6. QED  BY <1>4, <1>5

\* A counter without a timer holds what is between the two calls, and one for
\* each failure there.
LEMMA UntimedStep == IInv /\ CounterInv /\ [Next]_vars => UntimedCostsFailures'
<1> SUFFICES ASSUME IInv, CounterInv, [Next]_vars,
                    NEW u \in Users, u \notin timed'
             PROVE  velocity'[u] <= faults' + Cardinality(At("expire", u))'
  BY DEF UntimedCostsFailures, At
<1>1. /\ velocity \in [Users -> Nat]
      /\ faults \in Nat /\ faults' \in Nat /\ faults' >= faults
  BY FaultSteps DEF IInv, TypeOK, ShapesOK
<1>2. u \notin timed => velocity[u] <= faults + Cardinality(At("expire", u))
  BY DEF CounterInv, UntimedCostsFailures, At
<1>3. /\ Cardinality(At("expire", u)) \in Nat
      /\ Cardinality(At("expire", u))' \in Nat
  <2>1. At("expire", u) \in SUBSET Workers /\ At("expire", u)' \in SUBSET Workers
    BY DEF At
  <2>2. QED  BY <2>1, SomeWorkers
<1>4. ASSUME NEW w \in Workers, WorkerStep(w) \/ Failure(w)
      PROVE  velocity'[u] <= faults' + Cardinality(At("expire", u))'
  <2>1. OnlyMoves(w) /\ CounterMove(w)
    BY <1>4, HandlersAreLocal, HandlersMoveCounters
  <2>2. pc[w] \in {"incr", "expire"} => UserOf(w) \in Users
    BY TxnType DEF Busy, Live
  <2>3. CASE /\ pc[w] # "expire" /\ pc'[w] # "expire"
             /\ UNCHANGED <<velocity, timed>>
    BY <1>1, <1>2, <1>3, <2>1, <2>3, AtCounts
  <2>4. CASE /\ pc[w] = "incr" /\ pc'[w] = "expire" /\ txn'[w] = txn[w]
             /\ CountOne(w) /\ UNCHANGED timed
    <3>1. Cardinality(At("expire", u))' =
              IF UserOf(w) = u THEN Cardinality(At("expire", u)) + 1
                               ELSE Cardinality(At("expire", u))
      BY <2>1, <2>4, AtCounts
    <3>2. velocity'[u] = IF UserOf(w) = u THEN velocity[u] + 1 ELSE velocity[u]
      BY <1>1, <2>4 DEF CountOne
    <3>3. velocity[u] <= faults + Cardinality(At("expire", u))
      BY <1>2, <2>4
    <3>4. velocity[u] \in Nat
      BY <1>1
    <3>5. QED  BY <1>1, <1>3, <3>1, <3>2, <3>3, <3>4
  <2>5. CASE /\ pc[w] = "incr" /\ pc'[w] # "expire" /\ Fault
             /\ CountOne(w) \/ UNCHANGED velocity
             /\ UNCHANGED timed
    <3>1. Cardinality(At("expire", u))' = Cardinality(At("expire", u))
      BY <2>1, <2>5, AtCounts
    <3>2. velocity'[u] <= velocity[u] + 1 /\ velocity[u] \in Nat
                                          /\ velocity'[u] \in Nat
      <4>1. velocity[u] \in Nat
        BY <1>1
      <4>2. velocity'[u] = velocity[u] \/ velocity'[u] = velocity[u] + 1
        BY <1>1, <2>5 DEF CountOne
      <4>3. QED  BY <4>1, <4>2
    <3>3. faults' = faults + 1
      BY <2>5 DEF Fault
    <3>4. velocity[u] <= faults + Cardinality(At("expire", u))
      BY <1>2, <2>5
    <3>5. QED  BY <1>1, <1>3, <3>1, <3>2, <3>3, <3>4
  <2>6. CASE pc[w] = "expire" /\ pc'[w] # "expire" /\ UNCHANGED velocity
    <3>1. Cardinality(At("expire", u))' =
              IF UserOf(w) = u THEN Cardinality(At("expire", u)) - 1
                               ELSE Cardinality(At("expire", u))
      BY <2>1, <2>6, AtCounts
    <3>2. velocity[u] \in Nat /\ velocity'[u] = velocity[u]
      BY <1>1, <2>6
    <3>3. CASE SetTimer(w)
      <4>1. u \notin timed
        BY <3>3 DEF SetTimer
      <4>2. UserOf(w) = u => velocity[u] = 0
        BY <2>2, <2>6, <3>2, <3>3 DEF SetTimer
      <4>3. QED  BY <1>1, <1>2, <1>3, <3>1, <3>2, <4>1, <4>2
    <3>4. CASE Fault /\ UNCHANGED timed
      <4>1. faults' = faults + 1
        BY <3>4 DEF Fault
      <4>2. velocity[u] <= faults + Cardinality(At("expire", u))
        BY <1>2, <3>4
      <4>3. QED  BY <1>1, <1>3, <3>1, <3>2, <4>1, <4>2
    <3>5. QED  BY <2>1, <2>6, <3>3, <3>4 DEF CounterMove
  <2>7. QED  BY <2>1, <2>3, <2>4, <2>5, <2>6 DEF CounterMove
<1>5. ASSUME ~ \E w \in Workers : WorkerStep(w) \/ Failure(w)
      PROVE  velocity'[u] <= faults' + Cardinality(At("expire", u))'
  <2>1. /\ At("expire", u)' = At("expire", u)
        /\ \/ UNCHANGED <<velocity, timed>>
           \/ \E x \in Users : WindowEnds(x)
    BY <1>5, EnvironmentMovesCounters
  <2>2. CASE UNCHANGED <<velocity, timed>>
    <3>1. velocity[u] <= faults + Cardinality(At("expire", u))
      BY <1>2, <2>2
    <3>2. velocity[u] \in Nat
      BY <1>1
    <3>3. QED  BY <1>1, <1>3, <2>1, <2>2, <3>1, <3>2
  <2>3. ASSUME NEW x \in Users, WindowEnds(x)
        PROVE  velocity'[u] <= faults' + Cardinality(At("expire", u))'
    <3>1. velocity'[u] = IF u = x THEN 0 ELSE velocity[u]
      BY <1>1, <2>3 DEF WindowEnds
    <3>2. u # x => u \notin timed
      BY <2>3 DEF WindowEnds
    <3>3. velocity[u] \in Nat
      BY <1>1
    <3>4. QED  BY <1>1, <1>2, <1>3, <2>1, <3>1, <3>2, <3>3
  <2>4. QED  BY <2>1, <2>2, <2>3
<1>6. QED  BY <1>4, <1>5

\* The counters start at zero.
LEMMA InitCounters == Init => CounterInv
<1> SUFFICES ASSUME Init
             PROVE  CounterInv
  OBVIOUS
<1>1. /\ \A w \in Workers : pc[w] = "idle"
      /\ \A u \in Users : velocity[u] = 0
      /\ faults = 0
  BY DEF Init, LoopInit
<1>2. \A step \in {"incr", "expire"}, u \in Users : At(step, u) = {}
  BY <1>1 DEF At
<1>3. /\ Cardinality({}) = 0
      /\ Cardinality(Workers) \in Nat /\ Cardinality(Workers) >= 1
  BY FS_EmptySet, SomeWorkers
<1>4. VelocityInv
  BY <1>1, <1>2, <1>3, FraudServiceAssumption DEF VelocityInv
<1>5. UntimedCostsFailures
  BY <1>1, <1>2, <1>3 DEF UntimedCostsFailures, At
<1>6. QED  BY <1>4, <1>5 DEF CounterInv

\* Both bounds hold in every reachable state.
THEOREM CountersInvariant == SafeSpec => [](IInv /\ CounterInv)
<1>1. Init => IInv /\ CounterInv
  BY InitIInv, InitCounters
<1>2. IInv /\ CounterInv /\ [Next]_vars => (IInv /\ CounterInv)'
  BY NextIInv, VelocityStep, UntimedStep DEF CounterInv
<1>3. QED  BY <1>1, <1>2, PTL DEF SafeSpec

\* GET and INCR are two calls: the counter passes its limit by less than the
\* number of replicas, however many events and failures there are.
THEOREM VelocityIsBounded == SafeSpec => []VelocityBounded
<1>1. IInv /\ CounterInv => VelocityBounded
  <2> SUFFICES ASSUME IInv, CounterInv, NEW u \in Users
               PROVE  velocity[u] <= VelocityLimit + Cardinality(Workers) - 1
    BY DEF VelocityBounded
  <2>1. velocity[u] + Cardinality(At("incr", u))
            <= VelocityLimit + Cardinality(Workers) - 1
    BY DEF CounterInv, VelocityInv
  <2>2. /\ velocity[u] \in Nat /\ VelocityLimit \in Nat
        /\ Cardinality(At("incr", u)) \in Nat
        /\ Cardinality(Workers) \in Nat
    <3>1. At("incr", u) \in SUBSET Workers
      BY DEF At
    <3>2. QED
      BY <3>1, SomeWorkers, FraudServiceAssumption DEF IInv, TypeOK
  <2>3. QED  BY <2>1, <2>2
<1>2. QED  BY <1>1, CountersInvariant, PTL

\* INCR and EXPIRE are two calls: a counter that will never end cost a failure
\* for every payment it holds, but for those still between the calls.
THEOREM UntimedCountersCost == SafeSpec => []UntimedCostsFailures
<1>1. CounterInv => UntimedCostsFailures
  BY DEF CounterInv
<1>2. QED  BY <1>1, CountersInvariant, PTL

-----------------------------------------------------------------------------
(* The service implements AtLeastOnce                                       *)

TxnIn == [m \in ProcessedEvents |-> m.request.txn]

\* The log of the promise: the topic's transaction ids.
LEMMA LogIsImage ==
    ASSUME LoopTypeOK(ProcessedEvents, Steps)
    PROVE  /\ TxnIn \in [ProcessedEvents -> Txns]
           /\ Image(input, TxnIn) =
                [p \in Partitions |->
                    [i \in 1..Len(input[p]) |-> input[p][i].request.txn]]
<1>1. TxnIn \in [ProcessedEvents -> Txns]
  BY ProcessedFields DEF TxnIn
<1>2. ASSUME NEW p \in Partitions, NEW i \in 1..Len(input[p])
      PROVE  TxnIn[input[p][i]] = input[p][i].request.txn
  <2>1. input[p] \in Seq(ProcessedEvents)
    BY DEF LoopTypeOK
  <2>2. input[p][i] \in ProcessedEvents
    BY <2>1
  <2>3. QED  BY <2>2 DEF TxnIn
<1>3. QED  BY <1>1, <1>2 DEF Image

\* ... and after a step.
LEMMA LogIsImageNext ==
    ASSUME LoopTypeOK(ProcessedEvents, Steps)'
    PROVE  Image(input', TxnIn) =
                [p \in Partitions |->
                    [i \in 1..Len(input'[p]) |-> input'[p][i].request.txn]]
<1>1. ASSUME NEW p \in Partitions, NEW i \in 1..Len(input'[p])
      PROVE  TxnIn[input'[p][i]] = input'[p][i].request.txn
  <2>1. input'[p] \in Seq(ProcessedEvents)
    BY DEF LoopTypeOK
  <2>2. input'[p][i] \in ProcessedEvents
    BY <2>1
  <2>3. QED  BY <2>2 DEF TxnIn
<1>2. QED  BY <1>1 DEF Image

\* The service starts where the promise starts.
LEMMA InitRefines == Init => Promise!Init
<1> SUFFICES ASSUME Init
             PROVE  Promise!Init
  OBVIOUS
<1>1. \A p \in Partitions : input[p] = <<>> /\ output[p] = <<>>
  BY DEF Init, LoopInit
<1>2. [p \in Partitions |-> [i \in 1..Len(input[p]) |-> input[p][i].request.txn]]
          = [p \in Partitions |-> <<>>]
  <2>1. ASSUME NEW p \in Partitions
        PROVE  [i \in 1..Len(input[p]) |-> input[p][i].request.txn] = <<>>
    BY <1>1
  <2>2. QED  BY <2>1
<1>3. Published = {}
  BY <1>1, FraudServiceAssumption DEF Published, Verdicts
<1>4. QED  BY <1>2, <1>3 DEF Init, LoopInit, Promise!Init

\* An arriving event is the arrival of its transaction.
LEMMA ArrivalRefines ==
    ASSUME IInv, [Next]_vars, NEW e \in ProcessedEvents, Arrive(e)
    PROVE  Promise!Next
<1>1. PartitionOf[e.request.txn] \in Partitions /\ e.request.txn \in Txns
  BY ProcessedFields
<1>2. /\ LoopTypeOK(ProcessedEvents, Steps)
      /\ LoopTypeOK(ProcessedEvents, Steps)'
  BY LoopInvStep DEF IInv
<1>3. /\ input \in [Partitions -> Seq(ProcessedEvents)]
      /\ TxnIn \in [ProcessedEvents -> Txns]
      /\ TxnIn[e] = e.request.txn
  BY <1>2, LogIsImage DEF LoopTypeOK, TxnIn
<1>4. input' = [input EXCEPT ![PartitionOf[e.request.txn]] = Append(@, e)]
  BY DEF Arrive
<1>5. Image(input', TxnIn) =
          [Image(input, TxnIn) EXCEPT ![PartitionOf[e.request.txn]] =
              Append(@, e.request.txn)]
  <2>1. IsTopic(input, ProcessedEvents)
    BY <1>3 DEF IsTopic
  <2>2. Appends(input, input', PartitionOf[e.request.txn], e)
    BY <1>4 DEF Appends
  <2>3. Appends(Image(input, TxnIn), Image(input', TxnIn),
                PartitionOf[e.request.txn], TxnIn[e])
    BY <1>1, <2>1, <2>2, ImageOfAppend
  <2>4. QED  BY <1>3, <2>3 DEF Appends
<1>6. UNCHANGED <<committed, Published, dlq>>
  BY DEF Arrive, groupVars, topicVars, Published, Verdicts
<1>7. Promise!Arrive(PartitionOf[e.request.txn], e.request.txn)
  BY <1>2, <1>5, <1>6, LogIsImage, LogIsImageNext DEF Promise!Arrive
<1>8. QED  BY <1>1, <1>7 DEF Promise!Next

\* The transaction in a busy worker's hands is one the promise allows to touch.
LEMMA InReach ==
    ASSUME IInv, NEW w \in Workers, Busy(w)
    PROVE  /\ part[w] \in Partitions
           /\ offset[w] \in 1..Len(input[part[w]])
           /\ offset[w] <= committed[part[w]] + 1
           /\ input[part[w]][offset[w]].request.txn = TxnOf(w)
<1>1. /\ part[w] \in Partitions
      /\ offset[w] \in Nat /\ 1 <= offset[w]
      /\ offset[w] <= Len(input[part[w]])
      /\ offset[w] <= committed[part[w]] + 1
  BY HoldsFacts DEF IInv
<1>2. Len(input[part[w]]) \in Nat
  BY <1>1 DEF IInv, LoopTypeOK
<1>3. txn[w].request = input[part[w]][offset[w]].request
  BY DEF IInv, HoldsItsMessage, Message
<1>4. QED  BY <1>1, <1>2, <1>3 DEF TxnOf

\* An offset moves only for a worker at one of the three commits.
LEMMA CommitterStands ==
    ASSUME IInv, [Next]_vars, committed' # committed
    PROVE  \E w \in Workers :
               /\ pc[w] \in {"commit", "skip_commit", "dead_commit"}
               /\ CommitUnknown(w)
               /\ UNCHANGED <<input, output, dlq>>
<1>1. ASSUME NEW w \in Workers,
             \/ SkipCommit(w) \/ Commit(w) \/ DeadCommit(w)
             \/ SkipCommitRaises(w) \/ CommitRaises(w) \/ DeadCommitRaises(w)
      PROVE  /\ pc[w] \in {"commit", "skip_commit", "dead_commit"}
             /\ CommitUnknown(w)
             /\ UNCHANGED <<input, output, dlq>>
  BY <1>1
     DEF SkipCommit, Commit, DeadCommit, CommitAt, SkipCommitRaises,
         DeadCommitRaises, CommitKillsAt, CommitRaises, CommitRaisesAt,
         CommitUnknown, topicVars
<1>2. ASSUME NEW w \in Workers,
             \/ Fetch(w) \/ CheckMark(w) \/ Evaluate(w) \/ Publish(w)
             \/ Mark(w) \/ DeadLetter(w) \/ CheckMarkRaises(w)
             \/ RedisRaises(w) \/ PublishRaises(w) \/ MarkRaises(w)
             \/ DeadLetterRaises(w) \/ CrashWorker(w)
      PROVE  UNCHANGED committed
  BY <1>2
     DEF Fetch, Begin, CheckMark, Evaluate, SkipDeclined, VelocityGet,
         VelocityIncr, VelocityExpire, GeoGet, GeoSet, Inside, Publish, Mark,
         DeadLetter, CheckMarkRaises, RedisRaises, PublishRaises, MarkRaises,
         DeadLetterRaises, CrashWorker, Crash
<1>3. ASSUME \/ Group \/ UNCHANGED vars
             \/ \E e \in ProcessedEvents : Arrive(e)
             \/ \E u \in Users : WindowEnds(u) \/ LocationExpires(u)
             \/ \E t \in Txns : MarkExpires(t)
      PROVE  UNCHANGED committed
  BY <1>3
     DEF Group, Restart, Rebalance, Takeover, vars, loopVars, groupVars,
         Arrive, WindowEnds, LocationExpires, MarkExpires
<1>4. QED  BY <1>1, <1>2, <1>3 DEF Next, WorkerStep, Failure

\* Every step of the service is one the promise allows, or a stutter.
LEMMA StepRefines == IInv /\ [Next]_vars => [Promise!Next]_Promise!vars
<1> SUFFICES ASSUME IInv, [Next]_vars
             PROVE  Promise!Next \/ UNCHANGED Promise!vars
  BY DEF Promise!vars
<1> DEFINE Log == [p \in Partitions |->
                      [i \in 1..Len(input[p]) |-> input[p][i].request.txn]]
<1>1. \A p \in Partitions : /\ Len(input[p]) \in Nat
                            /\ Len(Log[p]) = Len(input[p])
                            /\ \A i \in 1..Len(input[p]) :
                                  Log[p][i] = input[p][i].request.txn
  BY DEF IInv, LoopTypeOK
<1>2. UNCHANGED <<input, committed, output, dlq>> => UNCHANGED Promise!vars
  BY DEF Promise!vars, Published, Verdicts
<1>3. CASE \E e \in ProcessedEvents : Arrive(e)
  BY <1>3, ArrivalRefines
<1>4. ASSUME NEW w \in Workers, Busy(w), AppendVerdict(w),
             UNCHANGED <<input, committed, dlq>>
      PROVE  Promise!Next
  <2>1. /\ part[w] \in Partitions
        /\ offset[w] \in Promise!Reached(part[w])
        /\ Log[part[w]][offset[w]] = TxnOf(w)
    BY <1>1, <1>4, InReach DEF Promise!Reached
  <2>2. Published' = Published \cup {TxnOf(w)}
    BY <1>4, AppendingPublishes
  <2>3. Promise!Handle(part[w], offset[w])
    BY <1>4, <2>1, <2>2 DEF Promise!Handle
  <2>4. QED  BY <2>1, <2>3 DEF Promise!Next
<1>5. ASSUME NEW w \in Workers, Busy(w), Bury(w),
             UNCHANGED <<input, committed, output>>
      PROVE  Promise!Next
  <2>1. /\ part[w] \in Partitions
        /\ offset[w] \in Promise!Reached(part[w])
        /\ Log[part[w]][offset[w]] = TxnOf(w)
    BY <1>1, <1>5, InReach DEF Promise!Reached
  <2>2. Promise!Bury(part[w], offset[w])
    BY <1>5, <2>1 DEF Promise!Bury, Bury, Published, Verdicts
  <2>3. QED  BY <2>1, <2>2 DEF Promise!Next
<1>6. CASE committed' # committed
  <2>1. PICK w \in Workers :
            /\ pc[w] \in {"commit", "skip_commit", "dead_commit"}
            /\ CommitUnknown(w)
            /\ UNCHANGED <<input, output, dlq>>
    BY <1>6, CommitterStands
  <2>2. Busy(w)
    BY <2>1 DEF Busy, Live
  <2>3. /\ part[w] \in Partitions
        /\ committed[part[w]] \in Nat
        /\ offset[w] = committed[part[w]] + 1
        /\ offset[w] <= Len(input[part[w]])
        /\ committed' = [committed EXCEPT ![part[w]] = @ + 1]
    BY <1>6, <2>1, <2>2, CommitAdvances DEF IInv
  <2>4. Log[part[w]][offset[w]] = TxnOf(w)
    BY <1>1, <2>2, InReach
  <2>5. TxnOf(w) \in Published \cup dlq
    BY <2>1 DEF IInv, SettledBeforeCommit
  <2>6. UNCHANGED <<Log, Published, dlq>>
    BY <2>1 DEF Published, Verdicts
  <2>7. committed[part[w]] < Len(Log[part[w]])
    BY <1>1, <2>3
  <2>8. Log[part[w]][committed[part[w]] + 1] \in Published \cup dlq
    BY <2>3, <2>4, <2>5
  <2>9. Promise!Advance(part[w])
    BY <2>3, <2>6, <2>7, <2>8 DEF Promise!Advance
  <2>10. QED  BY <2>3, <2>9 DEF Promise!Next
<1>7. CASE committed' = committed /\ ~ \E e \in ProcessedEvents : Arrive(e)
  <2>1. UNCHANGED input
    BY <1>7, InputSteps
  <2>2. CASE UNCHANGED output /\ UNCHANGED dlq
    BY <1>2, <1>7, <2>1, <2>2
  <2>3. CASE ~UNCHANGED output
    BY <1>4, <2>3, OutputSteps
  <2>4. CASE ~UNCHANGED dlq
    BY <1>5, <2>4, DlqSteps
  <2>5. QED  BY <2>2, <2>3, <2>4
<1>8. QED  BY <1>3, <1>6, <1>7

\* By transaction, and in spite of the shared Redis state, retries, crashes,
\* orphaned workers and marks that expire, the service takes only the steps
\* AtLeastOnce allows.
THEOREM ServiceImplementsAtLeastOnce == SafeSpec => Promise!SafeSpec
<1>1. QED
  BY InitRefines, StepRefines, Invariance, PTL
     DEF SafeSpec, Promise!SafeSpec

-----------------------------------------------------------------------------
(* A replay is evaluated once more only after a failure.                    *)

\* The steps between the check of the mark and the verdict.
Evaluating == {"evaluate", "incr", "expire", "geo_get", "geo_set", "publish"}

\* w is on its way to a verdict on t: it evaluates, or it is about to check
\* the mark for a message it no longer has the lease of.
Evaluates(w, t) ==
    /\ pc[w] \in Evaluating \/ (pc[w] = "check" /\ ~leased[w])
    /\ TxnOf(w) = t

Underway(t) == {w \in Workers : Evaluates(w, t)}

\* The replica that has the lease of t evaluates it or is about to mark it.
Claims(w, t) ==
    /\ leased[w] /\ pc[w] \in Evaluating \cup {"mark"}
    /\ TxnOf(w) = t

\* The next replica that takes a message of t will evaluate it.
Free(t) == IF t \in marked \/ \E w \in Workers : Claims(w, t) THEN 0 ELSE 1

\* The events of a transaction are in its partition.
Routed ==
    \A p \in Partitions : \A i \in 1..Len(input[p]) :
        PartitionOf[input[p][i].request.txn] = p

\* The verdicts there are, those under way, the one to come when t is free,
\* and the reassignments still due are paid for: one by the payment itself,
\* two by each failure.
ReplaysInv ==
    /\ Routed
    /\ \A t \in Txns :
          Cardinality(Verdicts(PartitionOf[t], t)) + Cardinality(Underway(t))
              + Free(t) + Debt(PartitionOf[t])  <=  1 + 2 * faults

\* Events arrive in their own partition, and stay.
LEMMA RoutedStep == IInv /\ Routed /\ [Next]_vars => Routed'
<1> SUFFICES ASSUME IInv, Routed, [Next]_vars, NEW p \in Partitions,
                    NEW i \in 1..Len(input'[p])
             PROVE  PartitionOf[input'[p][i].request.txn] = p
  BY DEF Routed
<1>1. ASSUME NEW e \in ProcessedEvents, Arrive(e)
      PROVE  PartitionOf[input'[p][i].request.txn] = p
  <2> DEFINE q == PartitionOf[e.request.txn]
  <2>1. /\ q \in Partitions /\ input \in [Partitions -> Seq(ProcessedEvents)]
        /\ input' = [input EXCEPT ![q] = Append(@, e)]
    BY <1>1, ProcessedFields DEF Arrive, IInv, LoopTypeOK
  <2>2. CASE p # q
    <3>1. input'[p] = input[p]
      BY <2>1, <2>2
    <3>2. QED  BY <3>1 DEF Routed
  <2>3. CASE p = q
    <3>1. /\ input'[p] = Append(input[p], e) /\ input[p] \in Seq(ProcessedEvents)
          /\ Len(input[p]) \in Nat
      BY <2>1, <2>3
    <3>2. CASE i = Len(input[p]) + 1
      BY <2>3, <3>1, <3>2, AppendKeeps
    <3>3. CASE i \in 1..Len(input[p])
      <4>1. input'[p][i] = input[p][i]
        BY <3>1, <3>3, AppendKeeps
      <4>2. QED  BY <3>3, <4>1 DEF Routed
    <3>4. Len(input'[p]) = Len(input[p]) + 1
      BY <3>1, AppendKeeps
    <3>5. QED  BY <3>1, <3>2, <3>3, <3>4
  <2>4. QED  BY <2>2, <2>3
<1>2. CASE UNCHANGED input
  BY <1>2 DEF Routed
<1>3. UNCHANGED input \/ \E e \in ProcessedEvents : Arrive(e)
  BY InputSteps
<1>4. QED  BY <1>1, <1>2, <1>3

\* A lease on a message of t is a lease on the partition of t.
LEMMA ClaimIsLease ==
    ASSUME IInv, Routed, NEW w \in Workers, Busy(w), leased[w]
    PROVE  Leases(w, PartitionOf[TxnOf(w)])
<1>1. /\ part[w] \in Partitions /\ offset[w] \in 1..Len(input[part[w]])
      /\ input[part[w]][offset[w]].request.txn = TxnOf(w)
  BY InReach
<1>2. QED  BY <1>1 DEF Routed, Leases

\* ... so that the holder is the only one.
LEMMA OneLease ==
    ASSUME IInv, Routed, NEW w \in Workers, NEW v \in Workers,
           Busy(w), leased[w], Busy(v), leased[v], TxnOf(v) = TxnOf(w)
    PROVE  v = w
BY ClaimIsLease, LeasesAreTheOwners DEF IInv

\* The counts are numbers.
LEMMA ReplayCounts ==
    ASSUME ShapesOK, NEW t \in Txns
    PROVE  /\ IsFiniteSet(Verdicts(PartitionOf[t], t))
           /\ Cardinality(Verdicts(PartitionOf[t], t)) \in Nat
           /\ Underway(t) \in SUBSET Workers /\ IsFiniteSet(Underway(t))
           /\ Cardinality(Underway(t)) \in Nat
           /\ Free(t) \in {0, 1}
<1> DEFINE p == PartitionOf[t]
<1>1. p \in Partitions
  BY FraudServiceAssumption
<1>2. Len(output[p]) \in Nat
  BY <1>1 DEF ShapesOK
<1>3. IsFiniteSet(1..Len(output[p]))
  BY <1>2, FS_Interval
<1>4. IsFiniteSet(Verdicts(p, t)) /\ Cardinality(Verdicts(p, t)) \in Nat
  <2>1. Verdicts(p, t) \subseteq 1..Len(output[p])
    BY DEF Verdicts
  <2>2. QED  BY <1>3, <2>1, FS_Subset, FS_CardinalityType
<1>5. /\ Underway(t) \in SUBSET Workers /\ IsFiniteSet(Underway(t))
      /\ Cardinality(Underway(t)) \in Nat
  BY SomeWorkers, FS_Subset DEF Underway
<1>6. QED  BY <1>4, <1>5 DEF Free

\* ... and after a step.
LEMMA ReplayCountsNext ==
    ASSUME ShapesOK', NEW t \in Txns
    PROVE  /\ Cardinality(Verdicts(PartitionOf[t], t)') \in Nat
           /\ Underway(t)' \in SUBSET Workers
           /\ Cardinality(Underway(t)') \in Nat
           /\ Free(t)' \in {0, 1}
<1> DEFINE p == PartitionOf[t]
<1>1. p \in Partitions
  BY FraudServiceAssumption
<1>2. Len(output'[p]) \in Nat
  BY <1>1 DEF ShapesOK
<1>3. IsFiniteSet(1..Len(output'[p]))
  BY <1>2, FS_Interval
<1>4. Cardinality(Verdicts(p, t)') \in Nat
  <2>1. Verdicts(p, t)' \subseteq 1..Len(output'[p])
    BY DEF Verdicts
  <2>2. QED  BY <1>3, <2>1, FS_Subset, FS_CardinalityType
<1>5. Underway(t)' \in SUBSET Workers /\ Cardinality(Underway(t)') \in Nat
  BY SomeWorkers DEF Underway
<1>6. QED  BY <1>4, <1>5 DEF Free

\* A verdict that is appended is one more for its own transaction.
LEMMA VerdictsStep ==
    ASSUME IInv, NEW t \in Txns, NEW w \in Workers, Busy(w),
           AppendVerdict(w) \/ UNCHANGED output
    PROVE  /\ Cardinality(Verdicts(PartitionOf[t], t)')
                 <= Cardinality(Verdicts(PartitionOf[t], t)) + 1
           /\ TxnOf(w) # t => Cardinality(Verdicts(PartitionOf[t], t)')
                                 <= Cardinality(Verdicts(PartitionOf[t], t))
<1> DEFINE p == PartitionOf[t]
           V == Verdicts(p, t)
           q == PartitionOf[TxnOf(w)]
<1>0. /\ p \in Partitions /\ q \in Partitions /\ txn[w] \in Held
      /\ output \in [Partitions -> Seq(Held)] /\ IsFiniteSet(V)
      /\ txn[w].request.txn = TxnOf(w)
  BY TxnType, ReplayCounts, FraudServiceAssumption
     DEF IInv, ShapesOK, TxnOf
<1>1. PICK x : V' \subseteq V \cup {x} /\ (TxnOf(w) # t => V' \subseteq V)
  <2>1. CASE output'[p] = output[p]
    BY <2>1 DEF Verdicts
  <2>2. CASE output'[p] # output[p]
    <3>1. AppendVerdict(w) /\ q = p
      BY <1>0, <2>2 DEF AppendVerdict
    <3>2. output'[p] = Append(output[p], txn[w]) /\ output[p] \in Seq(Held)
      BY <1>0, <3>1 DEF AppendVerdict
    <3>3. /\ Len(output'[p]) = Len(output[p]) + 1 /\ Len(output[p]) \in Nat
          /\ \A j \in 1..Len(output[p]) : output'[p][j] = output[p][j]
          /\ output'[p][Len(output[p]) + 1].request.txn = TxnOf(w)
      BY <1>0, <3>2, AppendKeeps
    <3>4. ASSUME NEW j \in V'
          PROVE  j \in V \/ (j = Len(output[p]) + 1 /\ TxnOf(w) = t)
      <4>1. j \in 1..(Len(output[p]) + 1) /\ output'[p][j].request.txn = t
        BY <3>3, <3>4 DEF Verdicts
      <4>2. CASE j = Len(output[p]) + 1
        BY <3>3, <4>1, <4>2
      <4>3. CASE j \in 1..Len(output[p])
        BY <3>3, <4>1, <4>3 DEF Verdicts
      <4>4. QED  BY <3>3, <4>1, <4>2, <4>3
    <3>5. V' \subseteq V \cup {Len(output[p]) + 1}
      BY <3>4
    <3>6. QED  BY <3>4, <3>5
  <2>3. QED  BY <2>1, <2>2
<1>2. QED  BY <1>0, <1>1, OneElementMore

\* One worker moves: the others evaluate what they evaluated.
LEMMA UnderwayStep ==
    ASSUME ShapesOK, NEW t \in Txns, NEW w \in Workers,
           \A v \in Workers \ {w} : Evaluates(v, t)' => Evaluates(v, t)
    PROVE  /\ Cardinality(Underway(t)') <= Cardinality(Underway(t)) + 1
           /\ (Evaluates(w, t)' => Evaluates(w, t))
                 => Cardinality(Underway(t)') <= Cardinality(Underway(t))
           /\ Evaluates(w, t) /\ ~Evaluates(w, t)'
                 => Cardinality(Underway(t)') + 1 <= Cardinality(Underway(t))
<1>1. Underway(t)' \subseteq Underway(t) \cup {w}
  BY DEF Underway
<1>2. /\ Underway(t) \in SUBSET Workers /\ IsFiniteSet(Underway(t))
      /\ Cardinality(Underway(t)) \in Nat
  BY ReplayCounts
<1>3. (Evaluates(w, t)' => Evaluates(w, t)) => Underway(t)' \subseteq Underway(t)
  BY DEF Underway
<1>4. ASSUME Evaluates(w, t), ~Evaluates(w, t)'
      PROVE  Cardinality(Underway(t)') + 1 <= Cardinality(Underway(t))
  <2>1. w \in Underway(t) /\ Underway(t)' \subseteq Underway(t) \ {w}
    BY <1>1, <1>4 DEF Underway
  <2>2. /\ Cardinality(Underway(t) \ {w}) = Cardinality(Underway(t)) - 1
        /\ IsFiniteSet(Underway(t) \ {w})
    BY <1>2, <2>1, FS_RemoveElement
  <2>3. /\ Cardinality(Underway(t)') <= Cardinality(Underway(t) \ {w})
        /\ Cardinality(Underway(t)') \in Nat
    BY <2>1, <2>2, FS_Subset, FS_CardinalityType
  <2>4. QED  BY <1>2, <2>2, <2>3
<1>5. QED  BY <1>1, <1>2, <1>3, <1>4, OneElementMore

\* A transaction comes free only when its mark or its claim ends.
LEMMA FreeStep ==
    ASSUME NEW t,
           t \in marked => t \in marked',
           \A v \in Workers : Claims(v, t) => Claims(v, t)' \/ t \in marked'
    PROVE  Free(t)' <= Free(t)
<1>1. Free(t) = 0 => Free(t)' = 0
  BY DEF Free
<1>2. Free(t) \in {0, 1} /\ Free(t)' \in {0, 1}
  BY DEF Free
<1>3. QED  BY <1>1, <1>2

\* The account of t, for whatever a step does to its parts.
LEMMA ReplayAccount ==
    ASSUME IInv, IInv', ReplaysInv, NEW t \in Txns,
           NEW more \in Nat,
           Cardinality(Verdicts(PartitionOf[t], t)')
                + Cardinality(Underway(t)') + Free(t)'
              <= Cardinality(Verdicts(PartitionOf[t], t))
                   + Cardinality(Underway(t)) + Free(t) + more,
           Debt(PartitionOf[t])' + more
              <= Debt(PartitionOf[t]) + 2 * (faults' - faults)
    PROVE  Cardinality(Verdicts(PartitionOf[t], t)')
              + Cardinality(Underway(t)') + Free(t)' + Debt(PartitionOf[t])'
             <= 1 + 2 * faults'
<1>1. /\ Cardinality(Verdicts(PartitionOf[t], t)) \in Nat
      /\ Cardinality(Underway(t)) \in Nat /\ Free(t) \in {0, 1}
      /\ Cardinality(Verdicts(PartitionOf[t], t)') \in Nat
      /\ Cardinality(Underway(t)') \in Nat /\ Free(t)' \in {0, 1}
      /\ faults \in Nat /\ faults' \in Nat
  BY ReplayCounts, ReplayCountsNext DEF IInv, ShapesOK
<1>2. Debt(PartitionOf[t]) \in Nat /\ Debt(PartitionOf[t])' \in Nat
  BY DebtType
<1>3. Cardinality(Verdicts(PartitionOf[t], t)) + Cardinality(Underway(t))
          + Free(t) + Debt(PartitionOf[t])  <=  1 + 2 * faults
  BY DEF ReplaysInv
<1>4. QED  BY <1>1, <1>2, <1>3

\* A step inside the loop leaves the debt and the leases alone.
LEMMA StepInside ==
    ASSUME IInv, NEW w \in Workers, Busy(w), NEW step \in Steps \ Outside,
           pc' = [pc EXCEPT ![w] = step], UNCHANGED <<owner, leased, part>>,
           OnlyMoves(w), NEW t \in Txns
    PROVE  /\ pc'[w] = step /\ Debt(PartitionOf[t])' = Debt(PartitionOf[t])
           /\ \A v \in Workers \ {w} : /\ Evaluates(v, t)' <=> Evaluates(v, t)
                                       /\ Claims(v, t)' <=> Claims(v, t)
<1>1. pc'[w] = step
  BY DEF IInv, LoopTypeOK
<1>2. Live' = Live
  BY DEF IInv, LoopTypeOK, Busy, Live, Outside
<1>3. Debt(PartitionOf[t])' = Debt(PartitionOf[t])
  BY <1>2 DEF Debt, Absent, Looming
<1>4. \A v \in Workers \ {w} : pc'[v] = pc[v] /\ txn'[v] = txn[v]
  BY OthersStay
<1>5. QED  BY <1>1, <1>3, <1>4 DEF Evaluates, Claims, TxnOf

\* Steps of the evaluation leave the account of every transaction as it is.
LEMMA EvaluationStays ==
    ASSUME IInv, NEW w \in Workers, Evaluate(w)
    PROVE  /\ Busy(w) /\ pc[w] \in Evaluating
           /\ \E step \in Evaluating : pc' = [pc EXCEPT ![w] = step]
           /\ TxnOf(w)' = TxnOf(w)
           /\ UNCHANGED <<owner, leased, part, faults, output, marked>>
<1>1. /\ pc[w] \in Evaluating
      /\ \E step \in Evaluating : pc' = [pc EXCEPT ![w] = step]
      /\ UNCHANGED <<owner, leased, part, faults, output, marked>>
  <2>1. CASE SkipDeclined(w) \/ VelocityIncr(w) \/ GeoGet(w) \/ GeoSet(w)
    BY <2>1
       DEF SkipDeclined, VelocityIncr, GeoGet, GeoSet, Inside, Goto, NoFault,
           topicVars, redisVars, Evaluating
  <2>2. CASE VelocityGet(w)
    BY <2>2
       DEF VelocityGet, Inside, Goto, NoFault, topicVars, redisVars, Evaluating
  <2>3. CASE VelocityExpire(w)
    <3>1. /\ pc[w] = "expire" /\ UNCHANGED marked
          /\ Inside(w, "expire", "publish") \/ Inside(w, "expire", "geo_get")
      BY <2>3, Zenon DEF VelocityExpire
    <3>2. QED  BY <3>1 DEF Inside, Goto, NoFault, topicVars, Evaluating
  <2>4. QED  BY <2>1, <2>2, <2>3 DEF Evaluate
<1>2. Busy(w)
  BY <1>1 DEF Evaluating, Busy, Live
<1>3. Edge(w)
  BY MoverTakesAnEdge DEF WorkerStep
<1>4. pc'[w] \in Evaluating
  BY <1>1 DEF IInv, LoopTypeOK
<1>5. Decides(w) \/ GoesOn(w)
  BY <1>2, <1>3, <1>4
     DEF Edge, GoesFree, Takes, Begin, Busy, Evaluating, Outside
<1>6. TxnOf(w)' = TxnOf(w)
  BY <1>2, <1>5, TxnType, EvaluatedIsHeld DEF Decides, GoesOn, TxnOf
<1>7. QED  BY <1>1, <1>2, <1>6

\* The end of a process: what it evaluated is no longer under way, and a
\* claim that ends is a lease that is lost.
LEMMA DyingKeepsAccount ==
    ASSUME IInv, IInv', ReplaysInv, NEW w \in Workers, OnlyMoves(w),
           Release(w, "down"), Fault, UNCHANGED <<owner, output, marked>>,
           NEW t \in Txns
    PROVE  Cardinality(Verdicts(PartitionOf[t], t)')
              + Cardinality(Underway(t)') + Free(t)' + Debt(PartitionOf[t])'
             <= 1 + 2 * faults'
<1> DEFINE p == PartitionOf[t]
<1>1. /\ LoopTypeOK(ProcessedEvents, Steps) /\ Positions /\ faults \in Nat
      /\ faults' = faults + 1 /\ p \in Partitions /\ Routed /\ ShapesOK
  BY FraudServiceAssumption DEF IInv, ShapesOK, Fault, ReplaysInv
<1>2. Pays(p)
  BY <1>1, EndingPays
<1>3. /\ pc'[w] = "down" /\ ~leased'[w]
      /\ \A v \in Workers \ {w} : /\ pc'[v] = pc[v] /\ txn'[v] = txn[v]
                                  /\ leased'[v] = leased[v]
  BY <1>1, OthersStay DEF Release, LoopTypeOK
<1>4. /\ ~Evaluates(w, t)'
      /\ \A v \in Workers \ {w} : /\ Evaluates(v, t)' <=> Evaluates(v, t)
                                  /\ Claims(v, t)' <=> Claims(v, t)
  BY <1>3 DEF Evaluates, Claims, TxnOf, Evaluating
<1>5. Cardinality(Underway(t)') <= Cardinality(Underway(t))
  BY <1>1, <1>4, UnderwayStep
<1>6. Verdicts(p, t)' = Verdicts(p, t)
  BY DEF Verdicts
<1>7. /\ Cardinality(Verdicts(p, t)) \in Nat /\ Cardinality(Underway(t)) \in Nat
      /\ Cardinality(Underway(t)') \in Nat
      /\ Free(t) \in {0, 1} /\ Free(t)' \in {0, 1}
      /\ Debt(p) \in Nat /\ Debt(p)' \in Nat
  BY <1>1, ReplayCounts, ReplayCountsNext, DebtType DEF IInv
<1>8. CASE Claims(w, t)
  <2>1. Leases(w, p)
    BY <1>1, <1>8, ClaimIsLease DEF Claims, Busy, Live, Evaluating
  <2>2. Loses(p)
    BY <1>3, <2>1 DEF Loses, Leases
  <2>3. Debt(p)' + 1 <= Debt(p) + 2 * (faults' - faults)
    BY <1>2, <2>2 DEF Pays
  <2>4. Cardinality(Verdicts(p, t)') + Cardinality(Underway(t)') + Free(t)'
            <= Cardinality(Verdicts(p, t)) + Cardinality(Underway(t)) + Free(t) + 1
    BY <1>5, <1>6, <1>7
  <2>5. QED  BY <2>3, <2>4, ReplayAccount
<1>9. CASE ~Claims(w, t)
  <2>1. Free(t)' <= Free(t)
    BY <1>4, <1>9, FreeStep
  <2>2. Debt(p)' + 0 <= Debt(p) + 2 * (faults' - faults)
    BY <1>2, <1>7 DEF Pays
  <2>3. Cardinality(Verdicts(p, t)') + Cardinality(Underway(t)') + Free(t)'
            <= Cardinality(Verdicts(p, t)) + Cardinality(Underway(t)) + Free(t) + 0
    BY <1>5, <1>6, <1>7, <2>1
  <2>4. QED  BY <2>2, <2>3, ReplayAccount
<1>10. QED  BY <1>8, <1>9

\* A reassignment: whoever had the lease and checks the mark evaluates
\* without it, and whoever had it and evaluates no longer claims.
LEMMA RegroupingKeepsAccount ==
    ASSUME IInv, IInv', ReplaysInv, Group, NEW t \in Txns
    PROVE  Cardinality(Verdicts(PartitionOf[t], t)')
              + Cardinality(Underway(t)') + Free(t)' + Debt(PartitionOf[t])'
             <= 1 + 2 * faults'
<1> DEFINE p == PartitionOf[t]
<1>1. /\ LoopTypeOK(ProcessedEvents, Steps) /\ Positions /\ faults \in Nat
      /\ p \in Partitions /\ Routed /\ ShapesOK
  BY FraudServiceAssumption DEF IInv, ShapesOK, ReplaysInv
<1>2. Pays(p)
  BY <1>1, GroupPays DEF Group
<1>3. /\ \A v \in Workers : /\ ~leased'[v] /\ txn'[v] = txn[v]
                            /\ pc'[v] = pc[v] \/ (pc'[v] = "idle" /\ pc[v] = "down")
      /\ UNCHANGED <<output, marked>>
  <2>1. leased' = [v \in Workers |-> FALSE] /\ UNCHANGED <<txn, output, marked>>
    BY DEF Group, Restart, Rebalance, Takeover, Assign, localVars, topicVars,
           redisVars
  <2>2. \A v \in Workers : pc'[v] = pc[v] \/ (pc'[v] = "idle" /\ pc[v] = "down")
    BY <1>1 DEF Group, Restart, Rebalance, Takeover, workerVars, LoopTypeOK
  <2>3. QED  BY <2>1, <2>2
<1>4. Verdicts(p, t)' = Verdicts(p, t)
  BY <1>3 DEF Verdicts
<1>5. /\ Cardinality(Verdicts(p, t)) \in Nat /\ Cardinality(Underway(t)) \in Nat
      /\ Cardinality(Underway(t)') \in Nat
      /\ Free(t) \in {0, 1} /\ Free(t)' \in {0, 1}
      /\ Debt(p) \in Nat /\ Debt(p)' \in Nat
  BY <1>1, ReplayCounts, ReplayCountsNext, DebtType DEF IInv
<1>6. \A v \in Workers : Evaluates(v, t)' =>
          Evaluates(v, t) \/ (pc[v] = "check" /\ leased[v] /\ TxnOf(v) = t)
  BY <1>3 DEF Evaluates, TxnOf, Evaluating
<1>7. ASSUME NEW w \in Workers, Busy(w), leased[w], TxnOf(w) = t
      PROVE  /\ Debt(p)' + 1 <= Debt(p) + 2 * (faults' - faults)
             /\ \A v \in Workers \ {w} :
                   /\ ~Claims(v, t)
                   /\ ~(pc[v] = "check" /\ leased[v] /\ TxnOf(v) = t)
  <2>1. Leases(w, p)
    BY <1>1, <1>7, ClaimIsLease
  <2>2. Loses(p)
    BY <1>3, <2>1 DEF Loses, Leases
  <2>3. ASSUME NEW v \in Workers, Busy(v), leased[v], TxnOf(v) = t
        PROVE  v = w
    BY <1>1, <1>7, <2>3, OneLease
  <2>4. QED
    BY <1>2, <2>2, <2>3 DEF Pays, Claims, Busy, Live, Evaluating
<1>8. ASSUME NEW w \in Workers, pc[w] = "check", leased[w], TxnOf(w) = t
      PROVE  Cardinality(Verdicts(p, t)') + Cardinality(Underway(t)') + Free(t)'
                + Debt(p)' <= 1 + 2 * faults'
  <2>1. Busy(w)
    BY <1>8 DEF Busy, Live
  <2>2. \A v \in Workers \ {w} : Evaluates(v, t)' => Evaluates(v, t)
    BY <1>6, <1>7, <1>8, <2>1
  <2>3. Cardinality(Underway(t)') <= Cardinality(Underway(t)) + 1
    BY <1>1, <2>2, UnderwayStep
  <2>4. \A v \in Workers : ~Claims(v, t)
    BY <1>7, <1>8, <2>1 DEF Claims, Evaluating
  <2>5. Free(t)' <= Free(t)
    BY <1>3, <2>4, FreeStep
  <2>6. Cardinality(Verdicts(p, t)') + Cardinality(Underway(t)') + Free(t)'
            <= Cardinality(Verdicts(p, t)) + Cardinality(Underway(t)) + Free(t) + 1
    BY <1>4, <1>5, <2>3, <2>5
  <2>7. Debt(p)' + 1 <= Debt(p) + 2 * (faults' - faults)
    BY <1>7, <1>8, <2>1
  <2>8. QED  BY <2>6, <2>7, ReplayAccount
<1>9. CASE ~ \E w \in Workers : pc[w] = "check" /\ leased[w] /\ TxnOf(w) = t
  <2>1. PICK u \in Workers : TRUE
    BY ConsumerLoopAssumption
  <2>2. \A v \in Workers : Evaluates(v, t)' => Evaluates(v, t)
    BY <1>6, <1>9
  <2>3. Cardinality(Underway(t)') <= Cardinality(Underway(t))
    BY <1>1, <2>1, <2>2, UnderwayStep
  <2>4. CASE \E w \in Workers : Claims(w, t)
    <3>1. Debt(p)' + 1 <= Debt(p) + 2 * (faults' - faults)
      BY <1>7, <2>4 DEF Claims, Busy, Live, Evaluating
    <3>2. Cardinality(Verdicts(p, t)') + Cardinality(Underway(t)') + Free(t)'
            <= Cardinality(Verdicts(p, t)) + Cardinality(Underway(t)) + Free(t) + 1
      BY <1>4, <1>5, <2>3
    <3>3. QED  BY <3>1, <3>2, ReplayAccount
  <2>5. CASE \A w \in Workers : ~Claims(w, t)
    <3>1. Free(t)' <= Free(t)
      BY <1>3, <2>5, FreeStep
    <3>2. Cardinality(Verdicts(p, t)') + Cardinality(Underway(t)') + Free(t)'
            <= Cardinality(Verdicts(p, t)) + Cardinality(Underway(t)) + Free(t) + 0
      BY <1>4, <1>5, <2>3, <3>1
    <3>3. Debt(p)' + 0 <= Debt(p) + 2 * (faults' - faults)
      BY <1>2, <1>5 DEF Pays
    <3>4. QED  BY <3>2, <3>3, ReplayAccount
  <2>6. QED  BY <2>4, <2>5
<1>10. QED  BY <1>8, <1>9

\* Every step keeps the account.
LEMMA ReplaysStep == IInv /\ ReplaysInv /\ [Next]_vars => ReplaysInv'
<1> SUFFICES ASSUME IInv, ReplaysInv, [Next]_vars, NEW t \in Txns
             PROVE  Cardinality(Verdicts(PartitionOf[t], t)')
                       + Cardinality(Underway(t)') + Free(t)'
                       + Debt(PartitionOf[t])'
                      <= 1 + 2 * faults'
  <2>1. IInv /\ ReplaysInv /\ [Next]_vars => Routed'
    BY RoutedStep DEF ReplaysInv
  <2>2. QED  BY <2>1 DEF ReplaysInv, Verdicts
<1> DEFINE p    == PartitionOf[t]
           Goal == Cardinality(Verdicts(p, t)') + Cardinality(Underway(t)')
                      + Free(t)' + Debt(p)'  <=  1 + 2 * faults'
<1>0. /\ LoopTypeOK(ProcessedEvents, Steps) /\ Positions /\ faults \in Nat
      /\ faults' \in Nat /\ faults <= faults'
      /\ p \in Partitions /\ Routed /\ ShapesOK /\ IInv'
  BY NextIInv, FaultSteps, FraudServiceAssumption
     DEF IInv, ShapesOK, ReplaysInv
<1>1. /\ Cardinality(Verdicts(p, t)) \in Nat
      /\ Cardinality(Verdicts(p, t)') \in Nat
      /\ Cardinality(Underway(t)) \in Nat /\ Cardinality(Underway(t)') \in Nat
      /\ Free(t) \in {0, 1} /\ Free(t)' \in {0, 1}
      /\ Debt(p) \in Nat /\ Debt(p)' \in Nat
  BY <1>0, ReplayCounts, ReplayCountsNext, DebtType DEF IInv
<1> HIDE DEF p, Goal
<1>2. ASSUME Cardinality(Verdicts(p, t)') <= Cardinality(Verdicts(p, t)),
             Cardinality(Underway(t)') <= Cardinality(Underway(t)),
             Free(t)' <= Free(t), Debt(p)' <= Debt(p)
      PROVE  Goal
  <2>1. Cardinality(Verdicts(p, t)') + Cardinality(Underway(t)') + Free(t)'
            <= Cardinality(Verdicts(p, t)) + Cardinality(Underway(t)) + Free(t) + 0
    BY <1>1, <1>2
  <2>2. Debt(p)' + 0 <= Debt(p) + 2 * (faults' - faults)
    BY <1>0, <1>1, <1>2
  <2>3. QED  BY <1>0, <2>1, <2>2, ReplayAccount DEF p, Goal
<1>3. ASSUME Cardinality(Verdicts(p, t)') + Cardinality(Underway(t)')
                <= Cardinality(Verdicts(p, t)) + Cardinality(Underway(t)) + 1,
             Debt(p)' <= Debt(p), faults' = faults + 1
      PROVE  Goal
  <2>1. Cardinality(Verdicts(p, t)') + Cardinality(Underway(t)') + Free(t)'
            <= Cardinality(Verdicts(p, t)) + Cardinality(Underway(t)) + Free(t) + 2
    BY <1>1, <1>3
  <2>2. Debt(p)' + 2 <= Debt(p) + 2 * (faults' - faults)
    BY <1>0, <1>1, <1>3
  <2>3. QED  BY <1>0, <2>1, <2>2, ReplayAccount DEF p, Goal
<1>4. UNCHANGED output => Cardinality(Verdicts(p, t)') <= Cardinality(Verdicts(p, t))
  BY <1>1 DEF Verdicts
<1>5. ASSUME NEW w \in Workers, WorkerStep(w) \/ Failure(w)
      PROVE  OnlyMoves(w)
  BY <1>5, HandlersAreLocal
<1>6. ASSUME NEW w \in Workers, Fetch(w)
      PROVE  Goal
  <2>1. PICK q \in Partitions : Begin(w, q, "check")
    BY <1>6 DEF Fetch
  <2>2. "check" \notin Outside
    BY DEF Outside
  <2>3. Debt(p)' <= Debt(p)
    <3>1. Pays(p) /\ faults' = faults
      BY <1>0, <2>1, <2>2, BeginPays DEF Begin
    <3>2. QED  BY <1>0, <1>1, <3>1 DEF Pays
  <2>4. /\ pc[w] = "idle" /\ pc'[w] = "check" /\ leased'[w]
        /\ \A v \in Workers \ {w} : /\ pc'[v] = pc[v] /\ leased'[v] = leased[v]
                                    /\ txn'[v] = txn[v]
    <3>1. OnlyMoves(w)
      BY <1>5, <1>6 DEF WorkerStep
    <3>2. QED  BY <1>0, <2>1, <3>1, OthersStay DEF Begin, LoopTypeOK
  <2>5. \A v \in Workers : /\ Evaluates(v, t)' => Evaluates(v, t)
                           /\ Claims(v, t) => Claims(v, t)'
    BY <2>4 DEF Evaluates, Claims, TxnOf, Evaluating
  <2>6. UNCHANGED <<output, marked>>
    BY <1>6 DEF Fetch, redisVars, topicVars
  <2>7. Free(t)' <= Free(t)
    BY <2>5, <2>6, FreeStep
  <2>8. Cardinality(Underway(t)') <= Cardinality(Underway(t))
    BY <1>0, <2>5, UnderwayStep
  <2>9. QED  BY <1>2, <1>4, <2>3, <2>6, <2>7, <2>8
<1>7. ASSUME NEW w \in Workers, CheckMark(w)
      PROVE  Goal
  <2>1. /\ Busy(w) /\ pc[w] = "check"
        /\ UNCHANGED <<owner, leased, part, faults, output, marked, txn>>
    BY <1>7 DEF CheckMark, Goto, NoFault, redisVars, localVars, topicVars,
                Busy, Live
  <2>2. PICK step \in {"skip_commit", "evaluate"} :
            /\ pc' = [pc EXCEPT ![w] = step]
            /\ step = IF TxnOf(w) \in marked THEN "skip_commit" ELSE "evaluate"
    BY <1>7 DEF CheckMark, Goto
  <2>3. /\ pc'[w] = step /\ Debt(p)' = Debt(p)
        /\ \A v \in Workers \ {w} : /\ Evaluates(v, t)' <=> Evaluates(v, t)
                                    /\ Claims(v, t)' <=> Claims(v, t)
    <3>1. step \in Steps \ Outside
      BY StepsOfBody
    <3>2. OnlyMoves(w)
      BY <1>5, <1>7 DEF WorkerStep
    <3>3. QED  BY <2>1, <2>2, <3>1, <3>2, StepInside DEF p
  <2>4. Cardinality(Verdicts(p, t)') <= Cardinality(Verdicts(p, t))
    BY <1>4, <2>1
  <2>5. ~Claims(w, t)
    BY <2>1 DEF Claims, Evaluating
  <2>6. Free(t)' <= Free(t)
    BY <2>1, <2>3, <2>5, FreeStep
  <2>7. CASE Evaluates(w, t)' => Evaluates(w, t)
    <3>1. Cardinality(Underway(t)') <= Cardinality(Underway(t))
      BY <1>0, <2>3, <2>7, UnderwayStep
    <3>2. QED  BY <1>1, <1>2, <2>3, <2>4, <2>6, <3>1
  <2>8. CASE Evaluates(w, t)' /\ ~Evaluates(w, t)
    <3>1. /\ TxnOf(w) = t /\ step = "evaluate" /\ leased[w]
          /\ t \notin marked
      BY <2>1, <2>2, <2>3, <2>8 DEF Evaluates, TxnOf, Evaluating
    <3>2. \A v \in Workers : ~Claims(v, t)
      <4>1. ASSUME NEW v \in Workers, Claims(v, t)
            PROVE  v = w
        BY <1>0, <2>1, <3>1, <4>1, OneLease DEF Claims, Busy, Live, Evaluating
      <4>2. QED  BY <2>5, <4>1
    <3>3. Free(t) = 1
      BY <3>1, <3>2 DEF Free
    <3>4. Claims(w, t)'
      BY <2>1, <2>3, <3>1 DEF Claims, TxnOf, Evaluating
    <3>5. Free(t)' = 0
      BY <3>4 DEF Free
    <3>6. Cardinality(Underway(t)') <= Cardinality(Underway(t)) + 1
      BY <1>0, <2>3, UnderwayStep
    <3>7. Cardinality(Verdicts(p, t)') + Cardinality(Underway(t)') + Free(t)'
            <= Cardinality(Verdicts(p, t)) + Cardinality(Underway(t)) + Free(t) + 0
      BY <1>1, <2>4, <3>3, <3>5, <3>6
    <3>8. Debt(p)' + 0 <= Debt(p) + 2 * (faults' - faults)
      BY <1>0, <1>1, <2>1, <2>3
    <3>9. QED  BY <1>0, <3>7, <3>8, ReplayAccount DEF p, Goal
  <2>9. QED  BY <2>7, <2>8
<1>8. ASSUME NEW w \in Workers, Evaluate(w)
      PROVE  Goal
  <2>1. /\ Busy(w) /\ pc[w] \in Evaluating /\ TxnOf(w)' = TxnOf(w)
        /\ UNCHANGED <<owner, leased, part, faults, output, marked>>
    BY <1>8, EvaluationStays
  <2>2. PICK step \in Evaluating : pc' = [pc EXCEPT ![w] = step]
    BY <1>8, EvaluationStays
  <2>3. /\ pc'[w] = step /\ Debt(p)' = Debt(p)
        /\ \A v \in Workers \ {w} : /\ Evaluates(v, t)' <=> Evaluates(v, t)
                                    /\ Claims(v, t)' <=> Claims(v, t)
    <3>1. step \in Steps \ Outside
      BY DEF Evaluating, Steps, Outside
    <3>2. OnlyMoves(w)
      BY <1>5, <1>8 DEF WorkerStep
    <3>3. QED  BY <2>1, <2>2, <3>1, <3>2, StepInside DEF p
  <2>4. /\ Evaluates(w, t)' => Evaluates(w, t)
        /\ Claims(w, t) => Claims(w, t)'
    BY <2>1, <2>3 DEF Evaluates, Claims
  <2>5. Cardinality(Underway(t)') <= Cardinality(Underway(t))
    BY <1>0, <2>3, <2>4, UnderwayStep
  <2>6. Free(t)' <= Free(t)
    BY <2>1, <2>3, <2>4, FreeStep
  <2>7. QED  BY <1>1, <1>2, <1>4, <2>1, <2>3, <2>5, <2>6
<1>9. ASSUME NEW w \in Workers, Publish(w)
      PROVE  Goal
  <2>1. /\ Busy(w) /\ pc[w] = "publish" /\ pc' = [pc EXCEPT ![w] = "mark"]
        /\ AppendVerdict(w)
        /\ UNCHANGED <<owner, leased, part, faults, marked, txn>>
    BY <1>9 DEF Publish, Goto, NoFault, redisVars, localVars, Busy, Live
  <2>2. /\ pc'[w] = "mark" /\ Debt(p)' = Debt(p)
        /\ \A v \in Workers \ {w} : /\ Evaluates(v, t)' <=> Evaluates(v, t)
                                    /\ Claims(v, t)' <=> Claims(v, t)
    <3>1. "mark" \in Steps \ Outside /\ OnlyMoves(w)
      BY <1>5, <1>9, StepsOfBody DEF WorkerStep
    <3>2. QED  BY <2>1, <3>1, StepInside DEF p
  <2>3. /\ ~Evaluates(w, t)' /\ (Evaluates(w, t) <=> TxnOf(w) = t)
        /\ Claims(w, t) => Claims(w, t)'
    BY <2>1, <2>2 DEF Evaluates, Claims, TxnOf, Evaluating
  <2>4. Free(t)' <= Free(t)
    BY <2>1, <2>2, <2>3, FreeStep
  <2>5. Cardinality(Verdicts(p, t)') + Cardinality(Underway(t)')
            <= Cardinality(Verdicts(p, t)) + Cardinality(Underway(t))
    <3>1. CASE TxnOf(w) = t
      <4>1. Cardinality(Underway(t)') + 1 <= Cardinality(Underway(t))
        BY <1>0, <2>2, <2>3, <3>1, UnderwayStep
      <4>2. Cardinality(Verdicts(p, t)') <= Cardinality(Verdicts(p, t)) + 1
        BY <2>1, VerdictsStep DEF p
      <4>3. QED  BY <1>1, <4>1, <4>2
    <3>2. CASE TxnOf(w) # t
      <4>1. Cardinality(Underway(t)') <= Cardinality(Underway(t))
        BY <1>0, <2>2, <2>3, UnderwayStep
      <4>2. Cardinality(Verdicts(p, t)') <= Cardinality(Verdicts(p, t))
        BY <2>1, <3>2, VerdictsStep DEF p
      <4>3. QED  BY <1>1, <4>1, <4>2
    <3>3. QED  BY <3>1, <3>2
  <2>6. Cardinality(Verdicts(p, t)') + Cardinality(Underway(t)') + Free(t)'
            <= Cardinality(Verdicts(p, t)) + Cardinality(Underway(t)) + Free(t) + 0
    BY <1>1, <2>4, <2>5
  <2>7. Debt(p)' + 0 <= Debt(p) + 2 * (faults' - faults)
    BY <1>0, <1>1, <2>1, <2>2
  <2>8. QED  BY <1>0, <2>6, <2>7, ReplayAccount DEF p, Goal
<1>10. ASSUME NEW w \in Workers, NEW step \in {"commit", "dead_commit"},
              pc[w] \in {"mark", "dead_letter"},
              pc' = [pc EXCEPT ![w] = step], OnlyMoves(w),
              UNCHANGED <<owner, leased, part, faults, output>>,
              marked \subseteq marked',
              pc[w] = "mark" => TxnOf(w) \in marked'
       PROVE  Goal
  <2>1. /\ pc'[w] = step /\ Debt(p)' = Debt(p)
        /\ \A v \in Workers \ {w} : /\ Evaluates(v, t)' <=> Evaluates(v, t)
                                    /\ Claims(v, t)' <=> Claims(v, t)
    <3>1. step \in Steps \ Outside /\ Busy(w)
      BY <1>10, StepsOfBody DEF Busy, Live
    <3>2. QED  BY <1>10, <3>1, StepInside DEF p
  <2>2. /\ ~Evaluates(w, t)'
        /\ Claims(w, t) => t \in marked'
    BY <1>10, <2>1 DEF Evaluates, Claims, Evaluating
  <2>3. Cardinality(Underway(t)') <= Cardinality(Underway(t))
    BY <1>0, <2>1, <2>2, UnderwayStep
  <2>4. Free(t)' <= Free(t)
    BY <1>10, <2>1, <2>2, FreeStep
  <2>5. QED  BY <1>1, <1>2, <1>4, <1>10, <2>1, <2>3, <2>4
<1>11. ASSUME NEW w \in Workers, Mark(w) \/ DeadLetter(w)
       PROVE  Goal
  <2>1. OnlyMoves(w)
    BY <1>5, <1>11 DEF WorkerStep
  <2>2. CASE Mark(w)
    <3>1. /\ pc[w] = "mark" /\ pc' = [pc EXCEPT ![w] = "commit"]
          /\ UNCHANGED <<owner, leased, part, faults, output>>
          /\ marked' = marked \cup {TxnOf(w)}
      BY <2>2 DEF Mark, Inside, Goto, NoFault, SetMark, topicVars
    <3>2. QED  BY <1>10, <2>1, <3>1
  <2>3. CASE DeadLetter(w)
    <3>1. /\ pc[w] = "dead_letter" /\ pc' = [pc EXCEPT ![w] = "dead_commit"]
          /\ UNCHANGED <<owner, leased, part, faults, output, marked>>
      BY <2>3 DEF DeadLetter, Goto, NoFault, redisVars
    <3>2. QED  BY <1>10, <2>1, <3>1
  <2>4. QED  BY <1>11, <2>2, <2>3
<1>12. ASSUME NEW w \in Workers, SkipCommit(w) \/ Commit(w) \/ DeadCommit(w)
       PROVE  Goal
  <2>1. PICK step \in {"skip_commit", "commit", "dead_commit"} : CommitAt(w, step)
    BY <1>12 DEF SkipCommit, Commit, DeadCommit
  <2>2. UNCHANGED <<output, marked>>
    BY <1>12 DEF SkipCommit, Commit, DeadCommit, redisVars, topicVars
  <2>3. step \notin Outside
    BY DEF Outside
  <2>4. Debt(p)' <= Debt(p)
    <3>1. Debt(p)' = Debt(p)
      BY <1>0, <2>1, <2>3, CommittingIsFree
    <3>2. QED  BY <1>1, <3>1
  <2>5. /\ pc[w] = step /\ pc'[w] = "idle"
        /\ \A v \in Workers \ {w} : /\ pc'[v] = pc[v] /\ leased'[v] = leased[v]
                                    /\ txn'[v] = txn[v]
    <3>1. OnlyMoves(w)
      BY <1>5, <1>12 DEF WorkerStep
    <3>2. QED
      BY <1>0, <2>1, <3>1, OthersStay DEF CommitAt, Release, LoopTypeOK
  <2>6. \A v \in Workers : /\ Evaluates(v, t)' => Evaluates(v, t)
                           /\ Claims(v, t) => Claims(v, t)'
    BY <2>5 DEF Evaluates, Claims, TxnOf, Evaluating
  <2>7. Free(t)' <= Free(t)
    BY <2>2, <2>6, FreeStep
  <2>8. Cardinality(Underway(t)') <= Cardinality(Underway(t))
    BY <1>0, <2>6, UnderwayStep
  <2>9. QED  BY <1>2, <1>4, <2>2, <2>4, <2>7, <2>8
<1>13. ASSUME NEW w \in Workers,
              \/ RedisRaises(w) \/ PublishRaises(w) \/ MarkRaises(w)
              \/ CommitRaises(w)
       PROVE  Goal
  <2>1. /\ Busy(w) /\ RetryOrGiveUp(w, "evaluate") /\ UNCHANGED <<owner, txn>>
        /\ faults' = faults + 1
    BY <1>13
       DEF RedisRaises, PublishRaises, MarkRaises, CommitRaises,
           CommitRaisesAt, Fault, localVars, Busy, Live
  <2>2. PICK step \in {"evaluate", "dead_letter"} : pc' = [pc EXCEPT ![w] = step]
    BY <2>1 DEF RetryOrGiveUp
  <2>3. /\ pc'[w] = step /\ Debt(p)' = Debt(p)
        /\ \A v \in Workers \ {w} : /\ Evaluates(v, t)' <=> Evaluates(v, t)
                                    /\ Claims(v, t)' <=> Claims(v, t)
    <3>1. step \in Steps \ Outside /\ OnlyMoves(w)
      BY <1>5, <1>13, StepsOfBody DEF Failure
    <3>2. UNCHANGED <<leased, part>>
      BY <2>1 DEF RetryOrGiveUp
    <3>3. QED  BY <2>1, <2>2, <3>1, <3>2, StepInside DEF p
  <2>4. CASE pc[w] \in Evaluating
    <3>1. Evaluates(w, t)' => Evaluates(w, t)
      BY <2>1, <2>4 DEF Evaluates, TxnOf
    <3>2. Cardinality(Underway(t)') <= Cardinality(Underway(t))
      BY <1>0, <2>3, <3>1, UnderwayStep
    <3>3. AppendVerdict(w) \/ UNCHANGED output
      BY <1>13
         DEF RedisRaises, PublishRaises, MarkRaises, CommitRaises, topicVars
    <3>4. Cardinality(Verdicts(p, t)') <= Cardinality(Verdicts(p, t)) + 1
      BY <2>1, <3>3, VerdictsStep DEF p
    <3>5. QED  BY <1>1, <1>3, <2>1, <2>3, <3>2, <3>4
  <2>5. CASE pc[w] \notin Evaluating
    <3>1. Cardinality(Underway(t)') <= Cardinality(Underway(t)) + 1
      BY <1>0, <2>3, UnderwayStep
    <3>2. UNCHANGED output
      BY <1>13, <2>5
         DEF RedisRaises, PublishRaises, MarkRaises, CommitRaises, topicVars,
             Evaluating
    <3>3. QED  BY <1>1, <1>3, <1>4, <2>1, <2>3, <3>1, <3>2
  <2>6. QED  BY <2>4, <2>5
<1>14. ASSUME NEW w \in Workers,
              \/ CheckMarkRaises(w) \/ SkipCommitRaises(w)
              \/ DeadLetterRaises(w) \/ DeadCommitRaises(w) \/ CrashWorker(w)
       PROVE  Goal
  <2>1. /\ Release(w, "down") /\ Fault /\ UNCHANGED <<owner, output, marked>>
    BY <1>14
       DEF CheckMarkRaises, SkipCommitRaises, DeadLetterRaises,
           DeadCommitRaises, CommitKillsAt, CrashWorker, Crash, redisVars,
           topicVars
  <2>2. OnlyMoves(w)
    BY <1>5, <1>14 DEF Failure
  <2>3. QED  BY <1>0, <2>1, <2>2, DyingKeepsAccount DEF p, Goal
<1>15. ASSUME UNCHANGED <<pc, leased, txn, output, owner>>
       PROVE  /\ Debt(p)' <= Debt(p)
              /\ Cardinality(Underway(t)') <= Cardinality(Underway(t))
              /\ \A v \in Workers : Claims(v, t) <=> Claims(v, t)'
  <2>1. Debt(p)' = Debt(p)
    BY <1>15 DEF Debt, Absent, Looming, Live
  <2>2. \A v \in Workers : /\ Evaluates(v, t) <=> Evaluates(v, t)'
                           /\ Claims(v, t) <=> Claims(v, t)'
    BY <1>15 DEF Evaluates, Claims, TxnOf
  <2>3. Underway(t)' = Underway(t)
    BY <2>2 DEF Underway
  <2>4. QED  BY <1>1, <2>1, <2>2, <2>3
<1>16. ASSUME \/ UNCHANGED vars
              \/ \E e \in ProcessedEvents : Arrive(e)
              \/ \E u \in Users : WindowEnds(u) \/ LocationExpires(u)
       PROVE  Goal
  <2>1. UNCHANGED <<pc, leased, txn, output, owner, marked>>
    BY <1>16
       DEF vars, loopVars, groupVars, workerVars, redisVars, localVars,
           topicVars, Arrive, WindowEnds, LocationExpires
  <2>2. Free(t)' <= Free(t)
    BY <1>15, <2>1, FreeStep
  <2>3. QED  BY <1>2, <1>4, <1>15, <2>1, <2>2
<1>17. ASSUME NEW u \in Txns, MarkExpires(u)
       PROVE  Goal
  <2>1. /\ UNCHANGED <<pc, leased, txn, output, owner>>
        /\ faults' = faults + 1
    BY <1>17 DEF MarkExpires, Fault, groupVars, workerVars, localVars, topicVars
  <2>2. QED  BY <1>1, <1>3, <1>4, <1>15, <2>1
<1>18. ASSUME Group
       PROVE  Goal
  BY <1>0, <1>18, RegroupingKeepsAccount DEF p, Goal
<1>19. ASSUME NEW w \in Workers, WorkerStep(w) \/ Failure(w)
       PROVE  Goal
  BY <1>6, <1>7, <1>8, <1>9, <1>11, <1>12, <1>13, <1>14, <1>19
     DEF WorkerStep, Failure
<1>20. Goal
  BY <1>16, <1>17, <1>18, <1>19 DEF Next
<1>21. QED  BY <1>20 DEF p, Goal

\* However often a transaction is replayed, and whichever replica takes it,
\* its verdict is published once, and at most twice more for every failure.
THEOREM ReplaysCostFailures == SafeSpec => []ReplaysSuppressed
<1>1. Init => ReplaysInv
  <2> SUFFICES ASSUME Init
               PROVE  ReplaysInv
    OBVIOUS
  <2>1. /\ Live = Workers /\ faults = 0 /\ marked = {}
        /\ \A w \in Workers : pc[w] = "idle"
        /\ owner \in [Partitions -> Workers]
        /\ \A p \in Partitions : output[p] = <<>> /\ input[p] = <<>>
    BY DEF Init, LoopInit, Live
  <2>2. Routed
    BY <2>1 DEF Routed
  <2>3. ASSUME NEW t \in Txns
        PROVE  Cardinality(Verdicts(PartitionOf[t], t))
                  + Cardinality(Underway(t)) + Free(t) + Debt(PartitionOf[t])
                 <= 1 + 2 * faults
    <3>1. PartitionOf[t] \in Partitions
      BY FraudServiceAssumption
    <3>2. /\ Verdicts(PartitionOf[t], t) = {} /\ Underway(t) = {}
          /\ Absent = {} /\ Looming(PartitionOf[t]) = 0
      BY <2>1, <3>1
         DEF Verdicts, Underway, Evaluates, Evaluating, Absent, Looming
    <3>3. Free(t) \in {0, 1}
      BY DEF Free
    <3>4. QED  BY <2>1, <3>2, <3>3, FS_EmptySet DEF Debt
  <2>4. QED  BY <2>2, <2>3 DEF ReplaysInv
<1>2. IInv /\ ReplaysInv => ReplaysSuppressed
  <2> SUFFICES ASSUME IInv, ReplaysInv, NEW t \in Txns
               PROVE  Cardinality(Verdicts(PartitionOf[t], t)) <= 1 + 2 * faults
    BY DEF ReplaysSuppressed
  <2>1. /\ Cardinality(Verdicts(PartitionOf[t], t)) \in Nat
        /\ Cardinality(Underway(t)) \in Nat /\ Free(t) \in {0, 1}
        /\ Debt(PartitionOf[t]) \in Nat /\ faults \in Nat
    BY ReplayCounts, DebtType DEF IInv, ShapesOK
  <2>2. Cardinality(Verdicts(PartitionOf[t], t)) + Cardinality(Underway(t))
           + Free(t) + Debt(PartitionOf[t])  <=  1 + 2 * faults
    BY DEF ReplaysInv
  <2>3. QED  BY <2>1, <2>2
<1>3. QED  BY <1>1, <1>2, InitIInv, NextIInv, ReplaysStep, PTL DEF SafeSpec

-----------------------------------------------------------------------------
(* What has been passed.                                                    *)

\* What is settled stays settled and where it was, and a commit passes only
\* what the worker that commits has settled.
LEMMA PassedStep ==
    IInv /\ Promise!PassedIsSettled /\ [Next]_vars => Promise!PassedIsSettled'
<1> SUFFICES ASSUME IInv, Promise!PassedIsSettled, [Next]_vars
             PROVE  Promise!PassedIsSettled'
  OBVIOUS
<1>1. IInv' /\ Grows(input, input') /\ [Promise!Next]_Promise!vars
  <2>1. Grows(input, input')
    BY LoopInvStep, LoopStepGrows DEF IInv
  <2>2. QED  BY <2>1, NextIInv, StepRefines
<1>2. \A p \in Partitions :
         /\ committed[p] \in Nat /\ committed[p] <= Len(input[p])
         /\ committed'[p] \in Nat /\ committed'[p] <= Len(input'[p])
         /\ Len(input[p]) \in Nat /\ Len(input'[p]) \in Nat
         /\ \A i \in 1..Len(input[p]) : input'[p][i] = input[p][i]
  BY <1>1 DEF IInv, LoopTypeOK, Positions, CommittedInLog, Grows
<1>3. \A p \in Partitions : \A i \in 1..committed[p] :
         input[p][i].request.txn \in Published \cup dlq
  <2>1. ASSUME NEW p \in Partitions, NEW i \in 1..committed[p]
        PROVE  input[p][i].request.txn \in Published \cup dlq
    <3>1. i \in 1..Len(input[p])
      BY <1>2
    <3>2. [q \in Partitions |-> [j \in 1..Len(input[q]) |-> input[q][j].request.txn]][p][i]
              = input[p][i].request.txn
      BY <3>1
    <3>3. QED  BY <3>2 DEF Promise!PassedIsSettled
  <2>2. QED  BY <2>1
<1>4. Published \cup dlq \subseteq Published' \cup dlq'
  BY <1>1
     DEF Promise!Next, Promise!vars, Promise!Arrive, Promise!Handle,
         Promise!Bury, Promise!Advance
<1>5. ASSUME NEW p \in Partitions, NEW i \in 1..committed'[p], i > committed[p]
      PROVE  i <= Len(input[p]) /\ input[p][i].request.txn \in Published \cup dlq
  <2>1. committed' # committed
    BY <1>2, <1>5
  <2>2. PICK w \in Workers :
            /\ Busy(w) /\ CommitUnknown(w)
            /\ pc[w] \in {"commit", "skip_commit", "dead_commit"}
    BY <2>1, CommitterStands, BusyPc DEF Outside, Busy, Live
  <2>3. /\ part[w] \in Partitions /\ committed[part[w]] \in Nat
        /\ offset[w] = committed[part[w]] + 1
        /\ offset[w] <= Len(input[part[w]])
        /\ committed' = [committed EXCEPT ![part[w]] = @ + 1]
    BY <2>1, <2>2, CommitAdvances DEF IInv
  <2>4. p = part[w] /\ i = offset[w]
    BY <1>2, <1>5, <2>3
  <2>5. input[p][i].request.txn = TxnOf(w)
    BY <2>2, <2>4, InReach
  <2>6. TxnOf(w) \in Published \cup dlq
    BY <2>2 DEF IInv, SettledBeforeCommit
  <2>7. QED  BY <2>3, <2>4, <2>5, <2>6
<1>6. ASSUME NEW p \in Partitions, NEW i \in 1..committed'[p]
      PROVE  input'[p][i].request.txn \in Published' \cup dlq'
  <2>1. i <= Len(input[p]) /\ input[p][i].request.txn \in Published \cup dlq
    BY <1>2, <1>3, <1>5
  <2>2. QED  BY <1>2, <1>4, <2>1
<1>7. QED  BY <1>2, <1>6 DEF Promise!PassedIsSettled

\* Every event whose offset has been passed, skipped ones included, belongs to a
\* transaction with a verdict in fraud-evaluated or in the dead-letter topic,
\* whatever crashes, retries, expired keys and reassignments came between.
THEOREM NoEventIsLost == SafeSpec => []Promise!PassedIsSettled
<1>1. Init => Promise!PassedIsSettled
  BY DEF Init, LoopInit, Promise!PassedIsSettled
<1>2. QED  BY <1>1, InitIInv, NextIInv, PassedStep, PTL DEF SafeSpec

=============================================================================
