------------------------------- MODULE Gateway --------------------------------
(***************************************************************************)
(* services/api-gateway: POST /v1/payments.  Each HTTP call is a coroutine  *)
(* of one gateway process, and other calls run whenever it awaits Redis or  *)
(* Kafka.  The calls of a process share its Kafka producer and its circuit  *)
(* breaker (app/core/kafka_producer.py, app/core/circuit_breaker.py); the   *)
(* processes share, in Redis, the rate-limit counters and the idempotency   *)
(* cache (app/core/rate_limiter.py, app/core/idempotency.py).               *)
(*                                                                          *)
(* Authentication (module Access) and the tokenization of a card number     *)
(* happen before an await or between two and read no shared state: a call   *)
(* here is one that was admitted.                                           *)
(***************************************************************************)
EXTENDS Integers, FiniteSets

CONSTANTS
    Calls,       \* the HTTP calls clients make, retries included
    Processes,   \* the gateway processes
    Requests,    \* the payloads: [txn, key, user, valid]
    None,
    RateLimit,   \* the 10 of @rate_limit
    Threshold,   \* CIRCUIT_BREAKER_FAILURE_THRESHOLD
    MaxFaults    \* bound: the failures the environment may inject

Users == {r.user : r \in Requests}
Keys  == {r.key : r \in Requests}

Statuses == {"accepted", "limited", "invalid", "open", "failed", "timed_out",
             "error", "lost"}

ASSUME GatewayAssumption ==
    /\ None \notin Calls \cup Processes \cup Requests \cup (Statuses \X Calls)
    /\ IsFiniteSet(Calls)
    /\ RateLimit \in Nat \ {0}
    /\ Threshold \in Nat \ {0}
    /\ MaxFaults \in Nat

VARIABLES
    count,     \* count[u]: rate-limit:u, 0 when absent
    timed,     \* the users whose counter has a time to live
    admitted,  \* ghost: admitted[u], the calls let through in this window
    cache,     \* cache[k]: the call whose response idempotency:k holds, or None
    producer,  \* producer[g]: the global of g, named by the call that made it
    health,    \* health[c]: the state of the producer that c made
    failures,  \* failures[g]: failure_count
    breaker,   \* breaker[g]: what state() answers
    pc,        \* pc[c]: the step call c executes next
    process,   \* process[c], request[c]: where it runs, what it asks for
    request,
    prod,      \* prod[c]: the producer c sends with, or is stopping
    answer,    \* answer[c]: the response, <<status, call whose data it shows>>
    queued,    \* the calls whose event is in payment-initiated
    late,      \* the calls given up whose event may still be appended
    faults     \* failures injected so far

redisVars   == <<count, timed, admitted, cache>>
processVars == <<producer, health, failures, breaker>>
callVars    == <<pc, process, request, prod, answer>>
topicVars   == <<queued, late>>
vars == <<redisVars, processVars, callVars, topicVars, faults>>

Steps == {"new", "incr", "expire", "lookup", "start", "send", "closed", "stop",
          "stop_timeout", "cache", "done"}

GatewayTypeOK ==
    /\ count \in [Users -> Nat] /\ timed \subseteq Users
    /\ admitted \in [Users -> Nat]
    /\ cache \in [Keys -> Calls \cup {None}]
    /\ producer \in [Processes -> Calls \cup {None}]
    /\ health \in [Calls -> {"none", "starting", "running", "broken", "stopped"}]
    /\ failures \in [Processes -> Nat]
    /\ breaker \in [Processes -> {"closed", "open", "half_open"}]
    /\ pc \in [Calls -> Steps]
    /\ process \in [Calls -> Processes \cup {None}]
    /\ request \in [Calls -> Requests \cup {None}]
    /\ prod \in [Calls -> Calls \cup {None}]
    /\ answer \in [Calls -> (Statuses \X Calls) \cup {None}]
    /\ \A c \in Calls :
          /\ pc[c] = "done" <=> answer[c] # None
          /\ pc[c] \in {"send", "stop", "stop_timeout"} => prod[c] # None
    /\ queued \subseteq Calls /\ late \subseteq Calls
    /\ faults \in 0..MaxFaults

Init ==
    /\ count = [u \in Users |-> 0] /\ timed = {}
    /\ admitted = [u \in Users |-> 0]
    /\ cache = [k \in Keys |-> None]
    /\ producer = [g \in Processes |-> None]
    /\ health = [c \in Calls |-> "none"]
    /\ failures = [g \in Processes |-> 0]
    /\ breaker = [g \in Processes |-> "closed"]
    /\ pc = [c \in Calls |-> "new"]
    /\ process = [c \in Calls |-> None]
    /\ request = [c \in Calls |-> None]
    /\ prod = [c \in Calls |-> None]
    /\ answer = [c \in Calls |-> None]
    /\ queued = {} /\ late = {}
    /\ faults = 0

-----------------------------------------------------------------------------
Fault == faults < MaxFaults /\ faults' = faults + 1
NoFault == UNCHANGED faults

UserOf(c) == request[c].user
KeyOf(c)  == request[c].key

\* Where a call is after the step.
Goto(c, step) ==
    /\ pc' = [pc EXCEPT ![c] = step]
    /\ UNCHANGED <<process, request, prod, answer>>

\* The call is answered with the data of call d, its own or a cached one.
AnswerWith(c, status, d) ==
    /\ pc' = [pc EXCEPT ![c] = "done"]
    /\ answer' = [answer EXCEPT ![c] = <<status, d>>]
    /\ prod' = [prod EXCEPT ![c] = None]
    /\ UNCHANGED <<process, request>>

Answer(c, status) == AnswerWith(c, status, c)

Receive(c, g, r) ==
    /\ pc[c] = "new"
    /\ pc' = [pc EXCEPT ![c] = "incr"]
    /\ process' = [process EXCEPT ![c] = g]
    /\ request' = [request EXCEPT ![c] = r]
    /\ UNCHANGED <<prod, answer, redisVars, processVars, topicVars, faults>>

-----------------------------------------------------------------------------
(* rate_limit and the lookup                                                *)

CountOne(c) == count' = [count EXCEPT ![UserOf(c)] = @ + 1]

\* Past the limiter, process_payment validates and looks the key up.
Admit(c) ==
    /\ admitted' = [admitted EXCEPT ![UserOf(c)] = @ + 1]
    /\ IF request[c].valid THEN Goto(c, "lookup") ELSE Answer(c, "invalid")

\* Mutant: the comparison with the limit is off by one.
IncrLate(c) ==
    /\ pc[c] = "incr"
    /\ CountOne(c)
    /\ \/ count'[UserOf(c)] = 1 /\ Goto(c, "expire") /\ UNCHANGED admitted
       \/ count'[UserOf(c)] \in 2..(RateLimit + 1) /\ Admit(c)
       \/ /\ count'[UserOf(c)] > RateLimit + 1
          /\ Answer(c, "limited")
          /\ UNCHANGED admitted
    /\ NoFault
    /\ UNCHANGED <<timed, cache, processVars, topicVars>>

\* INCR answers the new value: the first call of a window sets its end.
Incr(c) ==
    /\ pc[c] = "incr"
    /\ CountOne(c)
    /\ \/ count'[UserOf(c)] = 1 /\ Goto(c, "expire") /\ UNCHANGED admitted
       \/ count'[UserOf(c)] \in 2..RateLimit /\ Admit(c)
       \/ /\ count'[UserOf(c)] > RateLimit
          /\ Answer(c, "limited")
          /\ UNCHANGED admitted
    /\ NoFault
    /\ UNCHANGED <<timed, cache, processVars, topicVars>>

\* Mutant: EXPIRE is forgotten.
SetNoTimer(c) == UNCHANGED timed

SetTimer(c) ==
    timed' = IF count[UserOf(c)] > 0 THEN timed \cup {UserOf(c)} ELSE timed

Expire(c) ==
    /\ pc[c] = "expire"
    /\ SetTimer(c)
    /\ Admit(c)
    /\ NoFault
    /\ UNCHANGED <<count, cache, processVars, topicVars>>

\* Mutant: every call makes a producer.
TakeNewProducer(c) ==
    /\ producer' = [producer EXCEPT ![process[c]] = c]
    /\ health' = [health EXCEPT ![c] = "starting"]
    /\ Goto(c, "start")

\* get_producer, up to its first await: the call makes the producer and waits
\* for it to start, or takes the one there is, in whatever state it is.
TakeProducer(c) ==
    LET g == process[c] IN
    IF producer[g] = None
    THEN /\ producer' = [producer EXCEPT ![g] = c]
         /\ health' = [health EXCEPT ![c] = "starting"]
         /\ Goto(c, "start")
    ELSE /\ pc' = [pc EXCEPT ![c] =
                      IF health[producer[g]] = "stopped" THEN "closed" ELSE "send"]
         /\ prod' = [prod EXCEPT ![c] = producer[g]]
         /\ UNCHANGED <<process, request, answer, producer, health>>

\* get_cached_response: a cached response is the answer; otherwise the breaker
\* is asked and the publication begins.  before_call stands outside the try
\* block of produce_event, so no rejection is counted.
Lookup(c) ==
    /\ pc[c] = "lookup"
    /\ \/ /\ cache[KeyOf(c)] # None
          /\ AnswerWith(c, "accepted", cache[KeyOf(c)])
          /\ UNCHANGED <<producer, health>>
       \/ /\ cache[KeyOf(c)] = None /\ breaker[process[c]] = "open"
          /\ Answer(c, "open")
          /\ UNCHANGED <<producer, health>>
       \/ /\ cache[KeyOf(c)] = None /\ breaker[process[c]] # "open"
          /\ TakeProducer(c)
    /\ NoFault
    /\ UNCHANGED <<redisVars, failures, breaker, topicVars>>

-----------------------------------------------------------------------------
(* produce_event                                                            *)

\* Mutant: the global is used unchecked, and need not be there.
StartedUnchecked(c) ==
    /\ pc[c] = "start"
    /\ health' = [health EXCEPT ![c] = IF @ = "starting" THEN "running" ELSE @]
    /\ prod' = [prod EXCEPT ![c] = producer[process[c]]]
    /\ pc' = [pc EXCEPT ![c] = "send"]
    /\ NoFault
    /\ UNCHANGED <<process, request, answer, redisVars, producer, failures,
                   breaker, topicVars>>

\* start() returned: the call sends with the global as it is by now, and
\* without one the attribute access fails.
Started(c) ==
    LET d == producer[process[c]] IN
    /\ pc[c] = "start"
    /\ health' = [health EXCEPT ![c] = IF @ = "starting" THEN "running" ELSE @]
    /\ prod' = [prod EXCEPT ![c] = d]
    /\ pc' = [pc EXCEPT ![c] =
                 IF d = None THEN "closed"
                 ELSE IF health'[d] = "stopped" THEN "closed" ELSE "send"]
    /\ NoFault
    /\ UNCHANGED <<process, request, answer, redisVars, producer, failures,
                   breaker, topicVars>>

\* start() raised, outside the try block: the breaker does not hear of it, and
\* the producer that never started stays.
StartFails(c) ==
    /\ pc[c] = "start"
    /\ Fault
    /\ health' = [health EXCEPT ![c] = IF @ = "starting" THEN "broken" ELSE @]
    /\ Answer(c, "failed")
    /\ UNCHANGED <<redisVars, producer, failures, breaker, topicVars>>

\* Mutant: the counter is not reset, so that failures add up over days.
CloseOnly(g) ==
    breaker' = [breaker EXCEPT ![g] = "closed"] /\ UNCHANGED failures

RecordSuccess(g) ==
    /\ failures' = [failures EXCEPT ![g] = 0]
    /\ breaker' = [breaker EXCEPT ![g] = "closed"]

RecordFailure(g) ==
    /\ failures' = [failures EXCEPT ![g] = @ + 1]
    /\ breaker' = [breaker EXCEPT ![g] =
                      IF failures[g] + 1 >= Threshold THEN "open" ELSE @]

\* Mutant: the call closes the shared producer when it is done with it.
SendAndClose(c) ==
    /\ pc[c] = "send"
    /\ health[prod[c]] \in {"running", "stopped"}
    /\ queued' = queued \cup {c}
    /\ RecordSuccess(process[c])
    /\ health' = [health EXCEPT ![prod[c]] = "stopped"]
    /\ pc' = [pc EXCEPT ![c] = "cache"]
    /\ prod' = [prod EXCEPT ![c] = None]
    /\ NoFault
    /\ UNCHANGED <<process, request, answer, redisVars, producer,
                   late>>

\* The record is acknowledged, also by a producer that is being stopped: it
\* flushes what it has accepted.
SendAcknowledged(c) ==
    /\ pc[c] = "send"
    /\ health[prod[c]] \in {"running", "stopped"}
    /\ queued' = queued \cup {c}
    /\ RecordSuccess(process[c])
    /\ pc' = [pc EXCEPT ![c] = "cache"]
    /\ prod' = [prod EXCEPT ![c] = None]
    /\ NoFault
    /\ UNCHANGED <<process, request, answer, redisVars, producer, health,
                   late>>

\* record_failure, then reset_producer up to its await: stop() closes the
\* global, which need not be the producer the call has sent with.
FailAndReset(c, step, status) ==
    LET d == producer[process[c]] IN
    /\ RecordFailure(process[c])
    /\ IF d = None
       THEN Answer(c, status) /\ UNCHANGED health
       ELSE /\ health' = [health EXCEPT ![d] = "stopped"]
            /\ prod' = [prod EXCEPT ![c] = d]
            /\ pc' = [pc EXCEPT ![c] = step]
            /\ UNCHANGED <<process, request, answer>>
    /\ UNCHANGED <<redisVars, producer, queued>>

\* A producer that never started accepts nothing: the wait ends by itself.
Unanswered(c) == health[prod[c]] = "broken"

\* Mutant: send_and_wait without wait_for.
WaitsForever(c) == FALSE

\* wait_for gave up.  What a running producer has accepted may be appended
\* later.
SendTimesOut(c) ==
    /\ pc[c] = "send"
    /\ IF Unanswered(c) THEN NoFault ELSE Fault
    /\ late' = IF health[prod[c]] \in {"running", "stopped"}
               THEN late \cup {c} ELSE late
    /\ FailAndReset(c, "stop_timeout", "timed_out")

\* The send raised: because the broker failed, or because the producer was
\* closed, or gone, before.
SendFails(c) ==
    /\ \/ /\ pc[c] = "send" /\ health[prod[c]] \in {"running", "stopped"}
          /\ Fault
          /\ late' = late \cup {c}
       \/ /\ pc[c] = "send" /\ health[prod[c]] = "stopped"
          /\ NoFault
          /\ UNCHANGED late
       \/ /\ pc[c] = "closed"
          /\ NoFault
          /\ UNCHANGED late
    /\ FailAndReset(c, "stop", "failed")

\* Mutant: the exception is not raised again.
StoppedWithoutRaise(c) ==
    /\ pc[c] \in {"stop", "stop_timeout"}
    /\ producer' = [producer EXCEPT ![process[c]] = None]
    /\ Goto(c, "cache")
    /\ NoFault
    /\ UNCHANGED <<redisVars, health, failures, breaker, topicVars>>

\* stop() returned: the global is cleared, whatever it is by now.
Stopped(c) ==
    /\ pc[c] \in {"stop", "stop_timeout"}
    /\ producer' = [producer EXCEPT ![process[c]] = None]
    /\ Answer(c, IF pc[c] = "stop" THEN "failed" ELSE "timed_out")
    /\ NoFault
    /\ UNCHANGED <<redisVars, health, failures, breaker, topicVars>>

\* stop() raised: its exception takes the place of the timeout.
StopFails(c) ==
    /\ pc[c] \in {"stop", "stop_timeout"}
    /\ Fault
    /\ producer' = [producer EXCEPT ![process[c]] = None]
    /\ Answer(c, "failed")
    /\ UNCHANGED <<redisVars, health, failures, breaker, topicVars>>

\* Mutant: the response is not stored.
StoreNothing(c) == UNCHANGED cache

StoreResponse(c) == cache' = [cache EXCEPT ![KeyOf(c)] = c]

\* cache_response, and the answer.
CacheResponse(c) ==
    /\ pc[c] = "cache"
    /\ StoreResponse(c)
    /\ Answer(c, "accepted")
    /\ NoFault
    /\ UNCHANGED <<count, timed, admitted, processVars, topicVars>>

\* A Redis call raised: 500.  A write may have been applied.
RedisRaises(c) ==
    /\ \/ pc[c] = "incr" /\ CountOne(c) /\ UNCHANGED <<timed, cache>>
       \/ pc[c] = "expire" /\ SetTimer(c) /\ UNCHANGED <<count, cache>>
       \/ pc[c] = "cache" /\ StoreResponse(c) /\ UNCHANGED <<count, timed>>
       \/ /\ pc[c] \in {"incr", "expire", "lookup", "cache"}
          /\ UNCHANGED <<count, timed, cache>>
    /\ Fault
    /\ Answer(c, "error")
    /\ UNCHANGED <<admitted, processVars, topicVars>>

-----------------------------------------------------------------------------
(* Time, the broker, and the platform                                       *)

\* CIRCUIT_BREAKER_RESET_TIMEOUT_SECONDS after the breaker opened.
HalfOpen(g) ==
    /\ breaker[g] = "open"
    /\ breaker' = [breaker EXCEPT ![g] = "half_open"]
    /\ UNCHANGED <<redisVars, producer, health, failures, callVars,
                   topicVars, faults>>

WindowEnds(u) ==
    /\ u \in timed
    /\ timed' = timed \ {u}
    /\ count' = [count EXCEPT ![u] = 0]
    /\ admitted' = [admitted EXCEPT ![u] = 0]
    /\ UNCHANGED <<cache, processVars, callVars, topicVars, faults>>

CacheExpires(k) ==
    /\ cache[k] # None
    /\ Fault
    /\ cache' = [cache EXCEPT ![k] = None]
    /\ UNCHANGED <<count, timed, admitted, processVars, callVars, topicVars>>

LateAppend(c) ==
    /\ c \in late
    /\ late' = late \ {c}
    /\ queued' = queued \cup {c}
    /\ UNCHANGED <<redisVars, processVars, callVars, faults>>

\* A process dies: its calls get no answer, its breaker and producer are new.
CrashProcess(g) ==
    LET mine == {c \in Calls : process[c] = g /\ pc[c] # "done"} IN
    /\ Fault
    /\ producer' = [producer EXCEPT ![g] = None]
    /\ health' = [c \in Calls |->
                     IF process[c] = g /\ health[c] # "none" THEN "stopped"
                     ELSE health[c]]
    /\ failures' = [failures EXCEPT ![g] = 0]
    /\ breaker' = [breaker EXCEPT ![g] = "closed"]
    /\ late' = late \cup {c \in mine : /\ pc[c] = "send"
                                    /\ health[prod[c]] \in {"running", "stopped"}}
    /\ pc' = [c \in Calls |-> IF c \in mine THEN "done" ELSE pc[c]]
    /\ answer' = [c \in Calls |->
                     IF c \in mine THEN <<"lost", c>> ELSE answer[c]]
    /\ prod' = [c \in Calls |-> IF c \in mine THEN None ELSE prod[c]]
    /\ UNCHANGED <<process, request, redisVars, queued>>

-----------------------------------------------------------------------------
CallStep(c) ==
    \/ Incr(c) \/ Expire(c) \/ Lookup(c) \/ Started(c) \/ SendAcknowledged(c)
    \/ SendTimesOut(c) \/ SendFails(c) \/ Stopped(c) \/ CacheResponse(c)

Failure(c) == StartFails(c) \/ StopFails(c) \/ RedisRaises(c)

Environment ==
    \/ \E g \in Processes : HalfOpen(g) \/ CrashProcess(g)
    \/ \E u \in Users : WindowEnds(u)
    \/ \E k \in Keys : CacheExpires(k)
    \/ \E c \in Calls : LateAppend(c)

Next ==
    \/ \E c \in Calls, g \in Processes, r \in Requests : Receive(c, g, r)
    \/ \E c \in Calls : CallStep(c) \/ Failure(c)
    \/ Environment

SafeSpec == Init /\ [][Next]_vars

\* The event loop runs every coroutine whose await is over; a start(), stop(),
\* Redis call or send to a healthy broker ends.  Failures are never owed.
Spec == SafeSpec /\ \A c \in Calls : WF_vars(CallStep(c) /\ NoFault)

-----------------------------------------------------------------------------
(* Properties                                                               *)

Done(c, status) == answer[c] # None /\ answer[c][1] = status

\* A client that reads "accepted", from the publication or from the cache,
\* has an event in payment-initiated (publish: line 53, cache: line 81).
AcceptedIsQueued ==
    \A c \in Calls : Done(c, "accepted") => answer[c][2] \in queued

\* No user gets more than RATE_LIMIT_REQUESTS calls past the limiter between
\* two ends of a window, however the calls interleave.
RateLimited == \A u \in Users : admitted[u] <= RateLimit

\* INCR and EXPIRE are two calls: a counter that will never end, and blocks
\* its user for good, is between them or cost a failure.
UntimedCostsFailures ==
    \A u \in Users \ timed :
        count[u] > 0 => \/ faults > 0
                        \/ \E c \in Calls : pc[c] = "expire" /\ UserOf(c) = u

\* Without a failure of the broker, of Redis or of a process, no call is
\* refused, although the calls share a producer that any of them may close.
RefusalsCostFailures ==
    faults = 0 => \A c \in Calls : pc[c] = "done" =>
                     answer[c][1] \in {"accepted", "limited", "invalid"}

\* A producer that runs and that nobody can reach any more is a leak.  Calls
\* that reset at the same time make them, one failed send being enough for
\* several: but each takes a call of its own that failed.
Leaked ==
    {d \in Calls : /\ health[d] = "running"
                   /\ \A g \in Processes : producer[g] # d
                   /\ \A c \in Calls : prod[c] # d}
FailedCalls == {c \in Calls : Done(c, "failed") \/ Done(c, "timed_out")}
LeaksCostCalls == Cardinality(Leaked) <= Cardinality(FailedCalls)

\* The three: the calls of a process that share Redis keys and a producer do
\* each other no harm of their own, only what a failure began.
DamageCostsFailures ==
    UntimedCostsFailures /\ RefusalsCostFailures /\ LeaksCostCalls

\* Whatever successes and failures the calls of a process report, and in
\* whatever order, its breaker is closed exactly below the threshold.
BreakerMatchesCount ==
    \A g \in Processes : breaker[g] = "closed" <=> failures[g] < Threshold

\* A retry under an idempotency key that begins its lookup after another call
\* of the key was accepted never publishes again, as long as nothing has failed
\* at all: no Redis call, no publish, no start of a producer, no process, and no
\* response has left the cache, whatever key or call it was about.  Calls that
\* overlap may both publish (get: line 29, set: line 81).
ReplaysHitCache ==
    [][\A c, d \in Calls :
          /\ faults = 0
          /\ pc[c] = "lookup" /\ pc'[c] # "lookup"
          /\ Done(d, "accepted") /\ KeyOf(d) = KeyOf(c)
          => answer'[c] # None]_vars

\* Every call is answered: no outage, lost producer or closed producer leaves
\* a coroutine waiting for ever.
EveryCallAnswered ==
    \A c \in Calls : pc[c] # "new" ~> pc[c] = "done"

=============================================================================
