----------------------------- MODULE FraudService -----------------------------
(***************************************************************************)
(* services/fraud-service/app/rules_engine.py: payment-processed in,        *)
(* fraud-evaluated out, fraud-evaluated-dlq for what failed too often.      *)
(* The replicas share Redis: the velocity counter and the last location of  *)
(* a user, and a mark per evaluated transaction.  Each Redis call is a step *)
(* of its own.  As in the payment service, an exception that leaves         *)
(* consume() ends the process and the platform restarts it.                 *)
(***************************************************************************)
EXTENDS ConsumerLoop, Payments, FiniteSets

CONSTANTS
    MaxLog,         \* bound: events that reach one partition
    VelocityLimit,  \* the 5 of velocity_check
    NoPlace,        \* a request without lat_lon, a user without last location
    FarApart(_, _)  \* places over GEO_MISMATCH_THRESHOLD_KM apart

ASSUME FraudServiceAssumption ==
    /\ PartitionOf \in [Txns -> Partitions]
    /\ MaxLog \in Nat
    /\ VelocityLimit \in Nat

Users  == {r.user : r \in Requests}
Places == {r.place : r \in Requests} \cup {NoPlace}

VARIABLES
    output,    \* output[p]: the fraud-evaluated events of partition p
    dlq,       \* the transactions in fraud-evaluated-dlq
    velocity,  \* velocity[u]: the counter txn_count:u, 0 when absent
    timed,     \* the users whose counter has a time to live
    location,  \* location[u]: user_last_location:u
    marked,    \* the transactions with fraud_processed:txn
    txn,       \* txn[w]: the dict in w's hands, which evaluate_fraud mutates
    previous   \* previous[w]: the last location w has read

redisVars == <<velocity, timed, location, marked>>
localVars == <<txn, previous>>
topicVars == <<output, dlq>>
vars == <<loopVars, redisVars, localVars, topicVars>>

NoEvent == [final_status |-> "none"]

Reasons == {"amount", "type", "p2p", "accepted", "velocity", "no location",
            "geo", "ip", "cleared"}

Held == {Evaluated(e, final, fraud, reason) :
            e \in ProcessedEvents, final \in FinalStatuses,
            fraud \in FraudStatuses, reason \in Reasons}

Steps == {"idle", "check", "skip_commit", "evaluate", "incr", "expire",
          "geo_get", "geo_set", "publish", "mark", "commit", "dead_letter",
          "dead_commit", "down"}

TypeOK ==
    /\ \A p \in Partitions : \A i \in 1..Len(input[p]) :
          input[p][i] \in ProcessedEvents
    /\ \A p \in Partitions : \A j \in 1..Len(output[p]) : output[p][j] \in Held
    /\ pc \in [Workers -> Steps]
    /\ dlq \subseteq Txns /\ marked \subseteq Txns /\ timed \subseteq Users
    /\ velocity \in [Users -> Nat]
    /\ location \in [Users -> Places]
    /\ \A w \in Workers : /\ txn[w] \in Held \cup {NoEvent}
                          /\ Busy(w) <=> txn[w] # NoEvent
    /\ previous \in [Workers -> Places]

Init ==
    /\ LoopInit
    /\ output = [p \in Partitions |-> <<>>]
    /\ dlq = {} /\ marked = {} /\ timed = {}
    /\ velocity = [u \in Users |-> 0]
    /\ location = [u \in Users |-> NoPlace]
    /\ txn = [w \in Workers |-> NoEvent]
    /\ previous = [w \in Workers |-> NoPlace]

-----------------------------------------------------------------------------
TxnOf(w)  == txn[w].request.txn
UserOf(w) == txn[w].request.user

\* An event of the payment service arrives; replays included.
Arrive(e) ==
    LET p == PartitionOf[e.request.txn] IN
    /\ Len(input[p]) < MaxLog
    /\ input' = [input EXCEPT ![p] = Append(@, e)]
    /\ UNCHANGED <<groupVars, workerVars, faults, redisVars, localVars,
                   topicVars>>

\* The worker forgets its message.
Forget(w) ==
    /\ txn' = [txn EXCEPT ![w] = NoEvent]
    /\ previous' = [previous EXCEPT ![w] = NoPlace]

\* The next message: txn = json.loads(msg.value).
Fetch(w) ==
    /\ \E p \in Partitions :
          /\ Begin(w, p, "check")
          /\ txn' = [txn EXCEPT ![w] = Decoded(input[p][committed[p] + 1])]
    /\ UNCHANGED <<redisVars, previous, topicVars>>

\* Mutant: the transaction is marked when it is claimed, before its verdict.
ClaimMark(w) ==
    /\ pc[w] = "check"
    /\ Goto(w, IF TxnOf(w) \in marked THEN "skip_commit" ELSE "evaluate")
    /\ marked' = marked \cup {TxnOf(w)}
    /\ NoFault
    /\ UNCHANGED <<input, committed, owner, velocity, timed, location,
                   localVars, topicVars>>

\* already_processed: a marked transaction is passed without evaluation.
CheckMark(w) ==
    /\ pc[w] = "check"
    /\ Goto(w, IF TxnOf(w) \in marked THEN "skip_commit" ELSE "evaluate")
    /\ NoFault
    /\ UNCHANGED <<input, committed, owner, redisVars, localVars, topicVars>>

SkipCommit(w) ==
    /\ CommitAt(w, "skip_commit")
    /\ Forget(w)
    /\ UNCHANGED <<redisVars, topicVars>>

\* Both stand outside the try block: an exception leaves consume().
CheckMarkRaises(w) ==
    /\ pc[w] = "check"
    /\ Fault
    /\ Release(w, "down")
    /\ Forget(w)
    /\ UNCHANGED <<input, committed, owner, redisVars, topicVars>>

SkipCommitRaises(w) ==
    /\ CommitKillsAt(w, "skip_commit", "down")
    /\ Forget(w)
    /\ UNCHANGED <<redisVars, topicVars>>

-----------------------------------------------------------------------------
(* evaluate_fraud                                                           *)

\* The last lines of evaluate_fraud write the verdict into txn itself.
Decide(w, final_status, fraud_status, reason) ==
    txn' = [txn EXCEPT ![w] =
                Evaluated(@, final_status, fraud_status, reason)]

Flag(w, reason) == Decide(w, "declined", "flagged", reason)

\* The rules that remain when velocity and geography found nothing.
CheckReputation(w) ==
    IF txn[w].request.bad_ip THEN Flag(w, "ip")
                             ELSE Decide(w, "approved", "cleared", "cleared")

Inside(w, step, next) ==
    /\ pc[w] = step
    /\ Goto(w, next)
    /\ NoFault
    /\ UNCHANGED <<input, committed, owner, topicVars>>

\* A declined transaction needs no evaluation.
SkipDeclined(w) ==
    /\ Inside(w, "evaluate", "publish")
    /\ txn[w].final_status = "declined"
    /\ Decide(w, "declined", "skipped", txn[w].reason)
    /\ UNCHANGED <<redisVars, previous>>

\* Mutant: `>` for `>=`.
VelocityGetLate(w) ==
    /\ pc[w] = "evaluate" /\ txn[w].final_status # "declined"
    /\ \/ /\ velocity[UserOf(w)] > VelocityLimit
          /\ Inside(w, "evaluate", "publish")
          /\ Flag(w, "velocity")
       \/ /\ velocity[UserOf(w)] <= VelocityLimit
          /\ Inside(w, "evaluate", "incr")
          /\ UNCHANGED txn
    /\ UNCHANGED <<redisVars, previous>>

\* velocity_check reads the counter; at the limit it decides.
VelocityGet(w) ==
    /\ pc[w] = "evaluate" /\ txn[w].final_status # "declined"
    /\ \/ /\ velocity[UserOf(w)] >= VelocityLimit
          /\ Inside(w, "evaluate", "publish")
          /\ Flag(w, "velocity")
       \/ /\ velocity[UserOf(w)] < VelocityLimit
          /\ Inside(w, "evaluate", "incr")
          /\ UNCHANGED txn
    /\ UNCHANGED <<redisVars, previous>>

CountOne(w) == velocity' = [velocity EXCEPT ![UserOf(w)] = @ + 1]

\* INCR keeps the time to live of the counter, or creates it without one.
VelocityIncr(w) ==
    /\ Inside(w, "incr", "expire")
    /\ CountOne(w)
    /\ UNCHANGED <<timed, location, marked, localVars>>

\* Mutant: EXPIRE is forgotten.
SetNoTimer(w) == UNCHANGED timed

SetTimer(w) ==
    timed' = IF velocity[UserOf(w)] > 0 THEN timed \cup {UserOf(w)} ELSE timed

\* EXPIRE, then the rule on missing locations, and the end of the evaluation
\* for a transaction without location.
VelocityExpire(w) ==
    /\ pc[w] = "expire"
    /\ SetTimer(w)
    /\ \/ /\ txn[w].request.place = NoPlace
          /\ Inside(w, "expire", "publish")
          /\ IF txn[w].request.amount > 1000 THEN Flag(w, "no location")
                                             ELSE CheckReputation(w)
       \/ /\ txn[w].request.place # NoPlace
          /\ Inside(w, "expire", "geo_get")
          /\ UNCHANGED txn
    /\ UNCHANGED <<velocity, location, marked, previous>>

GeoGet(w) ==
    /\ Inside(w, "geo_get", "geo_set")
    /\ previous' = [previous EXCEPT ![w] = location[UserOf(w)]]
    /\ UNCHANGED <<redisVars, txn>>

Locate(w) == location' = [location EXCEPT ![UserOf(w)] = txn[w].request.place]

GeoSet(w) ==
    /\ Inside(w, "geo_set", "publish")
    /\ Locate(w)
    /\ IF previous[w] # NoPlace /\ FarApart(previous[w], txn[w].request.place)
       THEN Flag(w, "geo") ELSE CheckReputation(w)
    /\ previous' = [previous EXCEPT ![w] = NoPlace]
    /\ UNCHANGED <<velocity, timed, marked>>

\* A Redis call of the evaluation raised; a write may have been applied.
RedisRaises(w) ==
    /\ \/ /\ pc[w] = "evaluate" /\ txn[w].final_status # "declined"
          /\ UNCHANGED redisVars
       \/ /\ pc[w] = "incr"
          /\ CountOne(w) \/ UNCHANGED velocity
          /\ UNCHANGED <<timed, location, marked>>
       \/ /\ pc[w] = "expire"
          /\ SetTimer(w) \/ UNCHANGED timed
          /\ UNCHANGED <<velocity, location, marked>>
       \/ /\ pc[w] = "geo_get"
          /\ UNCHANGED redisVars
       \/ /\ pc[w] = "geo_set"
          /\ Locate(w) \/ UNCHANGED location
          /\ UNCHANGED <<velocity, timed, marked>>
    /\ Fault
    /\ RetryOrGiveUp(w, "evaluate")
    /\ previous' = [previous EXCEPT ![w] = NoPlace]
    /\ UNCHANGED <<input, committed, owner, txn, topicVars>>

-----------------------------------------------------------------------------
(* publish, mark, commit                                                    *)

AppendVerdict(w) ==
    output' = [output EXCEPT ![PartitionOf[TxnOf(w)]] = Append(@, txn[w])]

Publish(w) ==
    /\ pc[w] = "publish"
    /\ AppendVerdict(w)
    /\ Goto(w, "mark")
    /\ NoFault
    /\ UNCHANGED <<input, committed, owner, redisVars, localVars, dlq>>

\* Mutant: the retry decodes the message again.
PublishRetriesAfresh(w) ==
    /\ pc[w] = "publish"
    /\ Fault
    /\ AppendVerdict(w) \/ UNCHANGED output
    /\ RetryOrGiveUp(w, "evaluate")
    /\ txn' = [txn EXCEPT ![w] = Decoded(Message(w))]
    /\ UNCHANGED <<input, committed, owner, redisVars, previous, dlq>>

PublishRaises(w) ==
    /\ pc[w] = "publish"
    /\ Fault
    /\ AppendVerdict(w) \/ UNCHANGED output
    /\ RetryOrGiveUp(w, "evaluate")
    /\ UNCHANGED <<input, committed, owner, redisVars, localVars, dlq>>

\* Mutant: the mark is forgotten.
SetNoMark(w) == UNCHANGED marked

SetMark(w) == marked' = marked \cup {TxnOf(w)}

Mark(w) ==
    /\ Inside(w, "mark", "commit")
    /\ SetMark(w)
    /\ UNCHANGED <<velocity, timed, location, localVars>>

MarkRaises(w) ==
    /\ pc[w] = "mark"
    /\ Fault
    /\ SetMark(w) \/ UNCHANGED marked
    /\ RetryOrGiveUp(w, "evaluate")
    /\ UNCHANGED <<input, committed, owner, velocity, timed, location,
                   localVars, topicVars>>

Commit(w) ==
    /\ CommitAt(w, "commit")
    /\ Forget(w)
    /\ UNCHANGED <<redisVars, topicVars>>

CommitRaises(w) ==
    /\ CommitRaisesAt(w, "commit", "evaluate")
    /\ UNCHANGED <<redisVars, localVars, topicVars>>

Bury(w) == dlq' = dlq \cup {TxnOf(w)}

DeadLetter(w) ==
    /\ pc[w] = "dead_letter"
    /\ Bury(w)
    /\ Goto(w, "dead_commit")
    /\ NoFault
    /\ UNCHANGED <<input, committed, owner, redisVars, localVars, output>>

\* Mutant: consume() is a background task that nobody restarts.
DeadLetterEndsTask(w) ==
    /\ pc[w] = "dead_letter"
    /\ Fault
    /\ Bury(w) \/ UNCHANGED dlq
    /\ Release(w, "halted")
    /\ Forget(w)
    /\ UNCHANGED <<input, committed, owner, redisVars, output>>

DeadLetterRaises(w) ==
    /\ pc[w] = "dead_letter"
    /\ Fault
    /\ Bury(w) \/ UNCHANGED dlq
    /\ Release(w, "down")
    /\ Forget(w)
    /\ UNCHANGED <<input, committed, owner, redisVars, output>>

DeadCommit(w) ==
    /\ CommitAt(w, "dead_commit")
    /\ Forget(w)
    /\ UNCHANGED <<redisVars, topicVars>>

DeadCommitRaises(w) ==
    /\ CommitKillsAt(w, "dead_commit", "down")
    /\ Forget(w)
    /\ UNCHANGED <<redisVars, topicVars>>

-----------------------------------------------------------------------------
(* The platform, the group, and the clock of Redis                          *)

CrashWorker(w) ==
    Crash(w) /\ Forget(w) /\ UNCHANGED <<redisVars, topicVars>>

Group ==
    /\ (\E w \in Workers : Restart(w)) \/ Rebalance \/ Takeover
    /\ UNCHANGED <<redisVars, localVars, topicVars>>

\* 60 seconds after the last EXPIRE.
WindowEnds(u) ==
    /\ u \in timed
    /\ timed' = timed \ {u}
    /\ velocity' = [velocity EXCEPT ![u] = 0]
    /\ UNCHANGED <<loopVars, location, marked, localVars, topicVars>>

\* A day without a payment of the user.
LocationExpires(u) ==
    /\ location[u] # NoPlace
    /\ Fault
    /\ location' = [location EXCEPT ![u] = NoPlace]
    /\ UNCHANGED <<input, groupVars, workerVars, velocity, timed, marked,
                   localVars, topicVars>>

\* A day after the transaction was marked.
MarkExpires(t) ==
    /\ t \in marked
    /\ Fault
    /\ marked' = marked \ {t}
    /\ UNCHANGED <<input, groupVars, workerVars, velocity, timed, location,
                   localVars, topicVars>>

Evaluate(w) ==
    \/ SkipDeclined(w) \/ VelocityGet(w) \/ VelocityIncr(w)
    \/ VelocityExpire(w) \/ GeoGet(w) \/ GeoSet(w)

WorkerStep(w) ==
    \/ Fetch(w) \/ CheckMark(w) \/ SkipCommit(w) \/ Evaluate(w)
    \/ Publish(w) \/ Mark(w) \/ Commit(w)
    \/ DeadLetter(w) \/ DeadCommit(w)

Failure(w) ==
    \/ CheckMarkRaises(w) \/ SkipCommitRaises(w) \/ RedisRaises(w)
    \/ PublishRaises(w) \/ MarkRaises(w) \/ CommitRaises(w)
    \/ DeadLetterRaises(w) \/ DeadCommitRaises(w) \/ CrashWorker(w)

Next ==
    \/ \E e \in ProcessedEvents : Arrive(e)
    \/ \E w \in Workers : WorkerStep(w) \/ Failure(w)
    \/ Group
    \/ \E u \in Users : WindowEnds(u) \/ LocationExpires(u)
    \/ \E t \in Txns : MarkExpires(t)

SafeSpec == Init /\ [][Next]_vars

Untouched == UNCHANGED <<redisVars, localVars, topicVars>>

Fairness ==
    /\ \A w \in Workers : WF_vars(WorkerStep(w))
    /\ \A w \in Workers : WF_vars(Restart(w) /\ Untouched)
    /\ WF_vars(Takeover /\ Untouched)

Spec == SafeSpec /\ Fairness

-----------------------------------------------------------------------------
(* Properties                                                               *)

Verdicts(p, t) == {j \in 1..Len(output[p]) : output[p][j].request.txn = t}
Published == {t \in Txns : Verdicts(PartitionOf[t], t) # {}}

\* A mark in Redis is a promise that the verdict is in the topic; a replica
\* that finds it skips the transaction for good.
MarkedIsPublished == marked \subseteq Published

\* However often a transaction is replayed, its verdict is published once,
\* and at most two more times per failure.
ReplaysSuppressed ==
    \A t \in Txns :
        Cardinality(Verdicts(PartitionOf[t], t)) <= 1 + 2 * faults

\* Check-then-increment on the shared counter lets at most one evaluation
\* per other replica slip past the limit.
VelocityBounded ==
    \A u \in Users : velocity[u] <= VelocityLimit + Cardinality(Workers) - 1

\* INCR and EXPIRE are two calls: what a counter without a time to live holds
\* is in flight between them, or was paid for with one failure each.
UntimedCostsFailures ==
    \A u \in Users \ timed :
        velocity[u] <= faults + Cardinality({w \in Workers :
                                    pc[w] = "expire" /\ UserOf(w) = u})

\* Within one delivery a decline is final: no retry turns it into an
\* approval, although the Redis state it came from has changed.
DeclineSticks ==
    [][\A w \in Workers :
          /\ Busy(w) /\ Busy(w)' /\ UNCHANGED <<part[w], offset[w]>>
          /\ txn[w].final_status = "declined"
          => txn'[w].final_status = "declined"]_vars

\* The service implements the at-least-once promise, by transaction id.
Promise == INSTANCE AtLeastOnce WITH
    Keys    <- Txns,
    log     <- [p \in Partitions |->
                   [i \in 1..Len(input[p]) |-> input[p][i].request.txn]],
    done    <- committed,
    handled <- Published,
    buried  <- dlq

ImplementsAtLeastOnce == Promise!Spec

-----------------------------------------------------------------------------
(* What documents and tests say of the service, and the code does not do    *)

\* tests/integration-tests/test_transaction_flow.py:112: a transaction the
\* processor accepted and fraud declined says "flagged".
FraudDeclineSaysFlagged ==
    \A p \in Partitions : \A j \in 1..Len(output[p]) :
        LET e == output[p][j] IN
        e.processor_status = "approved" /\ e.final_status = "declined"
            => e.fraud_status = "flagged"

=============================================================================
