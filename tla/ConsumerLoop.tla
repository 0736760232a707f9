----------------------------- MODULE ConsumerLoop -----------------------------
(***************************************************************************)
(* The consume() loop the five Kafka consumers of OpenPayNet share          *)
(* (payment, fraud, ledger, notification and audit service), and the        *)
(* consumer group that feeds it.  A service module EXTENDS this one, gives  *)
(* the loop its body, and says what becomes of a worker whose loop is left  *)
(* by an exception.                                                         *)
(*                                                                          *)
(* A worker is one replica of a service: one process, one message at a      *)
(* time, in memory only.  What survives it is the topic, the committed      *)
(* offsets and the stores of the service.  Kafka and aiokafka are not code  *)
(* of this repository: they are modelled from how the services use them     *)
(* (group_id, enable_auto_commit=False, commit() without arguments).        *)
(***************************************************************************)
EXTENDS Integers, Sequences, FiniteSets

CONSTANTS
    Workers,      \* the replicas of the service (replicas: 2 in apps.yaml)
    Partitions,   \* the partitions of its input topic
    MaxRetries,   \* MAX_PROCESSING_RETRIES
    MaxFaults     \* bound: the failures the environment may inject in a run

ASSUME ConsumerLoopAssumption ==
    /\ Workers # {} /\ IsFiniteSet(Workers)
    /\ Partitions # {}
    /\ MaxRetries \in Nat
    /\ MaxFaults \in Nat

VARIABLES
    input,      \* input[p]: the messages appended to partition p so far
    committed,  \* committed[p]: how many of them the group has committed
    owner,      \* owner[p]: the group member p is assigned to
    pc,         \* pc[w]: the step of the loop body that w executes next
    part,       \* part[w], offset[w]: the message in w's hands
    offset,
    attempts,   \* attempts[w]: the local counter of the retry loop
    leased,     \* leased[w]: that message was fetched under w's current
                \* assignment, so that commit() covers it
    faults      \* failures injected so far

groupVars  == <<committed, owner, leased>>
workerVars == <<pc, part, offset, attempts>>
loopVars   == <<input, groupVars, workerVars, faults>>

-----------------------------------------------------------------------------
AnyPartition == CHOOSE p \in Partitions : TRUE

\* A worker in its loop: between two messages, or with one in its hands.
Live     == {w \in Workers : pc[w] \notin {"down", "halted"}}
Busy(w)  == w \in Live /\ pc[w] # "idle"

\* `txn`, the message in the hands of a busy worker.
Message(w) == input[part[w]][offset[w]]

Max(a, b) == IF a >= b THEN a ELSE b

LoopInit ==
    /\ input = [p \in Partitions |-> <<>>]
    /\ committed = [p \in Partitions |-> 0]
    /\ owner \in [Partitions -> Workers]
    /\ pc = [w \in Workers |-> "idle"]
    /\ part = [w \in Workers |-> AnyPartition]
    /\ offset = [w \in Workers |-> 0]
    /\ attempts = [w \in Workers |-> 0]
    /\ leased = [w \in Workers |-> FALSE]
    /\ faults = 0

-----------------------------------------------------------------------------
(* Pieces of the loop.  Each states the variables it determines.            *)

\* An environment failure: an exception out of a broker or store call, a
\* crash, a rebalance.
Fault   == faults < MaxFaults /\ faults' = faults + 1
NoFault == UNCHANGED faults

\* Control moves within the body: <<pc, part, offset, attempts, leased>>.
Goto(w, step) ==
    /\ pc' = [pc EXCEPT ![w] = step]
    /\ UNCHANGED <<part, offset, attempts, leased>>

\* The worker lets go of its message: it goes back to the iterator, or dies.
Release(w, step) ==
    /\ pc' = [pc EXCEPT ![w] = step]
    /\ part' = [part EXCEPT ![w] = AnyPartition]
    /\ offset' = [offset EXCEPT ![w] = 0]
    /\ attempts' = [attempts EXCEPT ![w] = 0]
    /\ leased' = [leased EXCEPT ![w] = FALSE]

\* Mutant: auto_offset_reset="latest", the newest message is taken first.
BeginAtLatest(w, p, first) ==
    /\ pc[w] = "idle" /\ owner[p] = w
    /\ committed[p] < Len(input[p])
    /\ pc' = [pc EXCEPT ![w] = first]
    /\ part' = [part EXCEPT ![w] = p]
    /\ offset' = [offset EXCEPT ![w] = Len(input[p])]
    /\ attempts' = [attempts EXCEPT ![w] = 1]
    /\ leased' = [leased EXCEPT ![w] = TRUE]
    /\ UNCHANGED <<input, committed, owner, faults>>

\* `async for msg in consumer`: the next message of an assigned partition;
\* `attempts` is 1 when the body starts.
Begin(w, p, first) ==
    /\ pc[w] = "idle" /\ owner[p] = w
    /\ committed[p] < Len(input[p])
    /\ pc' = [pc EXCEPT ![w] = first]
    /\ part' = [part EXCEPT ![w] = p]
    /\ offset' = [offset EXCEPT ![w] = committed[p] + 1]
    /\ attempts' = [attempts EXCEPT ![w] = 1]
    /\ leased' = [leased EXCEPT ![w] = TRUE]
    /\ UNCHANGED <<input, committed, owner, faults>>

\* Mutant: the comparison with MAX_PROCESSING_RETRIES is off by one.
GiveUpEarly(w, first) ==
    /\ UNCHANGED <<part, offset, leased>>
    /\ \/ /\ attempts[w] + 1 < MaxRetries
          /\ pc' = [pc EXCEPT ![w] = first]
          /\ attempts' = [attempts EXCEPT ![w] = @ + 1]
       \/ /\ attempts[w] + 1 >= MaxRetries
          /\ pc' = [pc EXCEPT ![w] = "dead_letter"]
          /\ UNCHANGED attempts

\* `except Exception`: sleep and try again from `first`, or, when the
\* retries are used up, dead-letter.
RetryOrGiveUp(w, first) ==
    /\ UNCHANGED <<part, offset, leased>>
    /\ \/ /\ attempts[w] < MaxRetries
          /\ pc' = [pc EXCEPT ![w] = first]
          /\ attempts' = [attempts EXCEPT ![w] = @ + 1]
       \/ /\ attempts[w] >= MaxRetries
          /\ pc' = [pc EXCEPT ![w] = "dead_letter"]
          /\ UNCHANGED attempts

\* Mutant: commit() is forgotten.
NeverAdvance(w) == UNCHANGED committed

\* What commit() does at the group coordinator.  It commits the positions of
\* the current assignment: a message fetched under an earlier one is not
\* among them.
AdvanceOffset(w) ==
    committed' = IF leased[w] THEN [committed EXCEPT ![part[w]] = offset[w]]
                              ELSE committed

\* `await consumer.commit()` answered; the message is finished.
CommitAt(w, step) ==
    /\ pc[w] = step
    /\ AdvanceOffset(w)
    /\ Release(w, "idle")
    /\ UNCHANGED <<input, owner, faults>>

\* `await consumer.commit()` raised: the coordinator may have taken the
\* offset or not.
CommitUnknown(w) == AdvanceOffset(w) \/ UNCHANGED committed

CommitRaisesAt(w, step, first) ==
    /\ pc[w] = step
    /\ Fault
    /\ CommitUnknown(w)
    /\ RetryOrGiveUp(w, first)
    /\ UNCHANGED <<input, owner>>

\* commit() raised outside the try block: the exception leaves consume().
CommitKillsAt(w, step, dead) ==
    /\ pc[w] = step
    /\ Fault
    /\ CommitUnknown(w)
    /\ Release(w, dead)
    /\ UNCHANGED <<input, owner>>

-----------------------------------------------------------------------------
(* The group and the processes: crash, restart, assignment.                 *)

\* Partitions are assigned anew; every member drops its fetch positions and
\* resumes from the committed offsets, so messages in hand are orphaned.
Assign(members) ==
    /\ owner' \in [Partitions -> members]
    /\ leased' = [w \in Workers |-> FALSE]

\* The process dies, and with it everything in memory.
Crash(w) ==
    /\ pc[w] # "down"
    /\ Fault
    /\ Release(w, "down")
    /\ UNCHANGED <<input, committed, owner>>

\* The pod comes back and joins the group.
Restart(w) ==
    /\ pc[w] = "down"
    /\ pc' = [pc EXCEPT ![w] = "idle"]
    /\ Assign(Live \cup {w})
    /\ UNCHANGED <<input, committed, part, offset, attempts, faults>>

\* A member is thrown out although it is alive (a missed heartbeat, a
\* deployment): the survivors share the partitions in some way.
Rebalance ==
    /\ Live # {}
    /\ Fault
    /\ Assign(Live)
    /\ UNCHANGED <<input, committed, workerVars>>

\* The group notices that an owner is gone.
Takeover ==
    /\ Live # {}
    /\ \E p \in Partitions : owner[p] \notin Live
    /\ Assign(Live)
    /\ UNCHANGED <<input, committed, workerVars, faults>>

-----------------------------------------------------------------------------
(* Where the workers can be relative to the committed offsets.              *)

CommittedInLog == \A p \in Partitions : committed[p] <= Len(input[p])

\* A worker holds a message that exists, at or before the next uncommitted
\* one; if commit() covers it, the worker owns the partition and the message
\* is the next one, or one whose commit was taken but reported as failed.
Holds(w) ==
    /\ offset[w] \in 1..Len(input[part[w]])
    /\ offset[w] <= committed[part[w]] + 1

Covers(w) ==
    /\ Busy(w)
    /\ owner[part[w]] = w
    /\ offset[w] >= committed[part[w]]

Positions ==
    /\ CommittedInLog
    /\ \A w \in Workers : Busy(w) => Holds(w)
    /\ \A w \in Workers : leased[w] => Covers(w)

=============================================================================
