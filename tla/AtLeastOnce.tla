----------------------------- MODULE AtLeastOnce ------------------------------
(***************************************************************************)
(* What every consumer of OpenPayNet promises its input topic: a message    *)
(* is taken in the order of its partition, its effect happens at least once *)
(* or it is dead-lettered, and only then is its offset passed.  Nothing is  *)
(* said of workers, retries, crashes or rebalances: the services implement  *)
(* this specification in spite of them.                                     *)
(***************************************************************************)
EXTENDS Integers, Sequences

CONSTANTS
    Partitions,  \* the partitions of the topic
    Keys         \* what identifies a message: a request, or a transaction id

VARIABLES
    log,      \* log[p]: the messages of partition p
    done,     \* done[p]: how many of them are passed
    handled,  \* the messages whose effect has happened
    buried    \* the messages that were dead-lettered

vars == <<log, done, handled, buried>>

Init ==
    /\ log = [p \in Partitions |-> <<>>]
    /\ done = [p \in Partitions |-> 0]
    /\ handled = {}
    /\ buried = {}

Arrive(p, m) ==
    /\ log' = [log EXCEPT ![p] = Append(@, m)]
    /\ UNCHANGED <<done, handled, buried>>

\* Only the messages already passed (a replay) and the next one are touched.
Reached(p) == {i \in 1..Len(log[p]) : i <= done[p] + 1}

Handle(p, i) ==
    /\ i \in Reached(p)
    /\ handled' = handled \cup {log[p][i]}
    /\ UNCHANGED <<log, done, buried>>

Bury(p, i) ==
    /\ i \in Reached(p)
    /\ buried' = buried \cup {log[p][i]}
    /\ UNCHANGED <<log, done, handled>>

Advance(p) ==
    /\ done[p] < Len(log[p])
    /\ log[p][done[p] + 1] \in handled \cup buried
    /\ done' = [done EXCEPT ![p] = @ + 1]
    /\ UNCHANGED <<log, handled, buried>>

Next ==
    \E p \in Partitions :
        \/ \E m \in Keys : Arrive(p, m)
        \/ \E i \in Reached(p) : Handle(p, i) \/ Bury(p, i)
        \/ Advance(p)

SafeSpec == Init /\ [][Next]_vars

\* A partition with a message not yet passed is eventually worked on.
Work(p) ==
    \/ Handle(p, done[p] + 1)
    \/ Bury(p, done[p] + 1)
    \/ Advance(p)

Spec == SafeSpec /\ \A p \in Partitions : WF_vars(Work(p))

\* What the promise is made for: nothing is passed that has neither had its
\* effect nor been dead-lettered.
PassedIsSettled ==
    \A p \in Partitions : \A i \in 1..done[p] : log[p][i] \in handled \cup buried

=============================================================================
