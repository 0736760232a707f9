-------------------------- MODULE AuditServiceProofs --------------------------
(***************************************************************************)
(* Proofs about AuditService, for any number of replicas, partitions,       *)
(* events, retries and failures.                                            *)
(***************************************************************************)
EXTENDS AuditService, ConsumerLoopProofs

\* A worker commits only what is in the index, or a dead letter that is in the
\* dead-letter topic.
SettledBeforeCommit ==
    \A w \in Workers :
        /\ pc[w] = "commit" => Message(w).txn \in Indexed
        /\ pc[w] = "dead_commit" => Message(w).txn \in dlq

\* The events of a transaction are in its partition.
Routed ==
    \A p \in Partitions : \A i \in 1..Len(input[p]) :
        PartitionOf[input[p][i].txn] = p

\* What TypeOK describes by its elements is a function.
ShapesOK ==
    /\ index \in [Txns -> Messages \cup {NoDocument}]
    /\ faults \in Nat

\* The inductive invariant.
IInv ==
    /\ LoopTypeOK(Messages, Steps) /\ ShapesOK /\ TypeOK
    /\ Positions
    /\ SettledBeforeCommit
    /\ Routed

-----------------------------------------------------------------------------
(* Every step is a step of the loop.                                        *)

\* The steps of the body.
LEMMA StepsOfBody ==
    /\ Steps \cap Outside = {"idle", "down"}
    /\ Steps \ Outside = {"index", "commit", "dead_letter", "dead_commit"}
BY DEF Steps, Outside

\* A transaction has a partition.
LEMMA MessageFields ==
    ASSUME NEW m \in Messages
    PROVE  m.txn \in Txns /\ PartitionOf[m.txn] \in Partitions /\ m # NoDocument
BY AuditServiceAssumption DEF Txns

\* Each handler is, for the loop, an arrival, a fetch, a step inside the body
\* or a letting go.
LEMMA NextIsLoopStep ==
    ASSUME IInv, Next
    PROVE  LoopStep(Messages, Steps)
<1> DEFINE Goal == LoopStep(Messages, Steps)
<1>1. LoopTypeOK(Messages, Steps) /\ Positions
  BY DEF IInv
<1>2. ASSUME NEW m \in Messages, Arrive(m)
      PROVE  Goal
  <2>1. Arrives(Messages)
    BY <1>2, MessageFields DEF Arrive, Arrives
  <2>2. QED  BY <2>1 DEF LoopStep
<1>3. ASSUME NEW w \in Workers, Fetch(w)
      PROVE  Goal
  BY <1>3, StepsOfBody DEF Fetch, LoopStep
<1>4. ASSUME NEW w \in Workers, Index(w) \/ DeadLetter(w)
      PROVE  Goal
  <2>1. Busy(w)
    BY <1>4, BusyPc DEF Index, DeadLetter, Outside
  <2>2. QED
    BY <1>1, <1>4, <2>1, GotoStep, StepsOfBody DEF Index, DeadLetter
<1>5. ASSUME NEW w \in Workers, IndexRaises(w) \/ CommitRaises(w)
      PROVE  Goal
  <2>1. Busy(w)
    BY <1>5, BusyPc DEF IndexRaises, CommitRaises, CommitRaisesAt, Outside
  <2>2. "index" \in Steps \ Outside /\ "dead_letter" \in Steps
    BY StepsOfBody
  <2>3. QED
    BY <1>1, <1>5, <2>1, <2>2, RetryStep
       DEF IndexRaises, CommitRaises, CommitRaisesAt, CommitUnknown
<1>6. ASSUME NEW w \in Workers, DeadLetterRaises(w)
      PROVE  Goal
  BY <1>6, ReleaseStep, StepsOfBody DEF DeadLetterRaises
<1>7. ASSUME NEW w \in Workers,
             Commit(w) \/ DeadCommit(w) \/ DeadCommitRaises(w)
      PROVE  Goal
  BY <1>7, CommitStep, StepsOfBody DEF Commit, DeadCommit, DeadCommitRaises
<1>8. ASSUME Group
      PROVE  Goal
  BY <1>1, <1>8, GroupStep, StepsOfBody DEF Group
<1>9. QED
  BY <1>2, <1>3, <1>4, <1>5, <1>6, <1>7, <1>8 DEF Next, WorkerStep, Failure

\* The loop keeps its types and its places.
LEMMA LoopInvStep ==
    ASSUME IInv, [Next]_vars
    PROVE  /\ LoopStep(Messages, Steps)
           /\ LoopTypeOK(Messages, Steps)'
           /\ Positions'
           /\ Grows(input, input')
<1>1. LoopTypeOK(Messages, Steps) /\ Positions
  BY DEF IInv
<1>2. LoopStep(Messages, Steps)
  BY NextIsLoopStep DEF vars, loopVars, LoopStep
<1>3. "idle" \in Steps
  BY DEF Steps
<1>4. QED
  BY <1>1, <1>2, <1>3, LoopStepKeepsTypes, LoopStepKeepsPositions,
     LoopStepGrows

-----------------------------------------------------------------------------
(* What a step does to the index, the dead letters and the topic.           *)

\* A worker at a step of the body has a message of its partition's log.
LEMMA HeldMessage ==
    ASSUME IInv, NEW w \in Workers, Busy(w)
    PROVE  /\ part[w] \in Partitions
           /\ offset[w] \in 1..Len(input[part[w]])
           /\ offset[w] <= committed[part[w]] + 1
           /\ Message(w) \in Messages
           /\ Message(w).txn \in Txns
           /\ PartitionOf[Message(w).txn] = part[w]
<1>1. /\ part[w] \in Partitions
      /\ offset[w] \in Nat /\ 1 <= offset[w]
      /\ offset[w] <= Len(input[part[w]])
      /\ offset[w] <= committed[part[w]] + 1
  BY HoldsFacts DEF IInv
<1>2. Len(input[part[w]]) \in Nat
  BY <1>1 DEF IInv, LoopTypeOK
<1>3. offset[w] \in 1..Len(input[part[w]])
  BY <1>1, <1>2
<1>4. Message(w) \in Messages
  BY <1>1, <1>3 DEF IInv, TypeOK, Message
<1>5. PartitionOf[Message(w).txn] = part[w]
  BY <1>1, <1>3 DEF IInv, Routed, Message
<1>6. QED  BY <1>1, <1>3, <1>4, <1>5, MessageFields

\* The index is written by a worker at "index", and then only under the
\* transaction it holds.
LEMMA IndexSteps ==
    ASSUME IInv, [Next]_vars
    PROVE  \/ UNCHANGED index
           \/ \E w \in Workers :
                 /\ Busy(w) /\ pc[w] = "index" /\ IndexDocument(w)
                 /\ UNCHANGED <<input, committed, owner, part, offset, leased, dlq>>
                 /\ pc' = [pc EXCEPT ![w] = pc'[w]]
<1>1. ASSUME NEW w \in Workers, Index(w) \/ IndexRaises(w)
      PROVE  /\ Busy(w) /\ pc[w] = "index"
             /\ IndexDocument(w) \/ UNCHANGED index
             /\ UNCHANGED <<input, committed, owner, part, offset, leased, dlq>>
             /\ pc' = [pc EXCEPT ![w] = pc'[w]]
  BY <1>1, BusyPc
     DEF Index, IndexRaises, Goto, RetryOrGiveUp, Outside, IInv, LoopTypeOK
<1>2. ASSUME NEW w \in Workers,
             \/ Fetch(w) \/ Commit(w) \/ CommitRaises(w) \/ DeadLetter(w)
             \/ DeadLetterRaises(w) \/ DeadCommit(w) \/ DeadCommitRaises(w)
      PROVE  UNCHANGED index
  BY <1>2
     DEF Fetch, Commit, CommitRaises, DeadLetter, DeadLetterRaises,
         DeadCommit, DeadCommitRaises
<1>3. QED  BY <1>1, <1>2 DEF Next, Arrive, WorkerStep, Failure, Group, vars

\* The dead-letter topic is written by a worker at "dead_letter".
LEMMA DlqSteps ==
    ASSUME IInv, [Next]_vars
    PROVE  \/ UNCHANGED dlq
           \/ \E w \in Workers :
                 /\ Busy(w) /\ pc[w] = "dead_letter" /\ Bury(w)
                 /\ UNCHANGED <<input, committed, index>>
<1>1. ASSUME NEW w \in Workers, DeadLetter(w) \/ DeadLetterRaises(w)
      PROVE  /\ Busy(w) /\ pc[w] = "dead_letter"
             /\ Bury(w) \/ UNCHANGED dlq
             /\ UNCHANGED <<input, committed, index>>
  BY <1>1, BusyPc DEF DeadLetter, DeadLetterRaises, Outside
<1>2. ASSUME NEW w \in Workers,
             \/ Fetch(w) \/ Index(w) \/ IndexRaises(w) \/ Commit(w)
             \/ CommitRaises(w) \/ DeadCommit(w) \/ DeadCommitRaises(w)
      PROVE  UNCHANGED dlq
  BY <1>2
     DEF Fetch, Index, IndexRaises, Commit, CommitRaises, DeadCommit,
         DeadCommitRaises
<1>3. QED  BY <1>1, <1>2 DEF Next, Arrive, WorkerStep, Failure, Group, vars

\* The topic is written by an arrival.
LEMMA InputSteps ==
    ASSUME [Next]_vars
    PROVE  UNCHANGED input \/ \E m \in Messages : Arrive(m)
BY DEF Next, WorkerStep, Failure, Group, vars, loopVars, Fetch, Begin, Index,
       IndexRaises, Commit, CommitAt, CommitRaises, CommitRaisesAt, DeadLetter,
       DeadLetterRaises, DeadCommit, DeadCommitRaises, CommitKillsAt, Crash,
       Restart, Rebalance, Takeover

\* A worker gets to a commit only through the write before it.
LEMMA CommitSteps ==
    ASSUME IInv, [Next]_vars, NEW v \in Workers,
           pc'[v] \in {"commit", "dead_commit"}
    PROVE  \/ pc'[v] = pc[v]
           \/ pc'[v] = "commit" /\ pc[v] = "index" /\ IndexDocument(v)
           \/ pc'[v] = "dead_commit" /\ pc[v] = "dead_letter" /\ Bury(v)
<1>1. pc \in [Workers -> Steps]
  BY DEF IInv, TypeOK
<1>2. ASSUME NEW w \in Workers, WorkerStep(w) \/ Failure(w)
      PROVE  \/ pc'[v] = pc[v]
             \/ pc'[v] = "commit" /\ pc[v] = "index" /\ IndexDocument(v)
             \/ pc'[v] = "dead_commit" /\ pc[v] = "dead_letter" /\ Bury(v)
  BY <1>1, <1>2
     DEF WorkerStep, Failure, Fetch, Begin, Index, IndexRaises, Commit,
         CommitAt, CommitRaises, CommitRaisesAt, DeadLetter, DeadLetterRaises,
         DeadCommit, DeadCommitRaises, CommitKillsAt, Goto, Release,
         RetryOrGiveUp
<1>3. ASSUME Group
      PROVE  pc'[v] = pc[v]
  BY <1>1, <1>3
     DEF Group, Crash, Release, Restart, Rebalance, Takeover, workerVars
<1>4. QED  BY <1>2, <1>3 DEF Next, Arrive, workerVars, vars, loopVars

-----------------------------------------------------------------------------
(* The invariant is inductive.                                              *)

\* What was written to the index under a transaction is one of its events.
LEMMA WritingTypes ==
    ASSUME IInv, NEW w \in Workers, Busy(w), IndexDocument(w)
    PROVE  /\ index' \in [Txns -> Messages \cup {NoDocument}]
           /\ index'[Message(w).txn] = Message(w)
           /\ \A t \in Txns : t # Message(w).txn => index'[t] = index[t]
           /\ Indexed' = Indexed \cup {Message(w).txn}
<1>1. Message(w) \in Messages /\ Message(w).txn \in Txns
  BY HeldMessage
<1>2. index \in [Txns -> Messages \cup {NoDocument}]
  BY DEF IInv, ShapesOK
<1>3. index' = [index EXCEPT ![Message(w).txn] = Message(w)]
  BY DEF IndexDocument
<1>4. Message(w) # NoDocument
  BY <1>1, MessageFields
<1>5. /\ index' \in [Txns -> Messages \cup {NoDocument}]
      /\ index'[Message(w).txn] = Message(w)
      /\ \A t \in Txns : t # Message(w).txn => index'[t] = index[t]
  BY <1>1, <1>2, <1>3
<1>6. QED  BY <1>1, <1>4, <1>5 DEF Indexed

\* Nothing indexed or dead-lettered is ever taken back.
LEMMA SettledStays ==
    ASSUME IInv, [Next]_vars
    PROVE  Indexed \subseteq Indexed' /\ dlq \subseteq dlq'
<1>1. UNCHANGED index => Indexed' = Indexed
  BY DEF Indexed
<1>2. Indexed \subseteq Indexed'
  BY <1>1, IndexSteps, WritingTypes
<1>3. dlq \subseteq dlq'
  BY DlqSteps DEF Bury
<1>4. QED  BY <1>2, <1>3

\* The types of the index, the dead letters and the counter.
LEMMA TypeStep == IInv /\ [Next]_vars => ShapesOK' /\ TypeOK'
<1> SUFFICES ASSUME IInv, [Next]_vars
             PROVE  ShapesOK' /\ TypeOK'
  OBVIOUS
<1>1. /\ LoopTypeOK(Messages, Steps)' /\ ShapesOK /\ TypeOK
  BY LoopInvStep DEF IInv
<1>2. /\ pc' \in [Workers -> Steps]
      /\ \A p \in Partitions : \A i \in 1..Len(input'[p]) :
            input'[p][i] \in Messages
  BY <1>1 DEF LoopTypeOK
<1>3. faults' \in Nat
  <2>1. faults' = faults \/ faults' = faults + 1
    BY DEF Next, WorkerStep, Failure, Group, vars, loopVars, Arrive, Fetch,
           Begin, Index, IndexRaises, Commit, CommitAt, CommitRaises,
           CommitRaisesAt, DeadLetter, DeadLetterRaises, DeadCommit,
           DeadCommitRaises, CommitKillsAt, Crash, Restart, Rebalance,
           Takeover, Fault, NoFault
  <2>2. QED  BY <1>1, <2>1 DEF ShapesOK
<1>4. dlq' \subseteq Txns
  <2>1. ASSUME NEW w \in Workers, Busy(w), Bury(w)
        PROVE  dlq' \subseteq Txns
    BY <1>1, <2>1, HeldMessage DEF Bury, TypeOK
  <2>2. QED  BY <1>1, <2>1, DlqSteps DEF TypeOK
<1>5. /\ index' \in [Txns -> Messages \cup {NoDocument}]
      /\ \A t \in Txns :
            index'[t] \in {NoDocument} \cup {m \in Messages : m.txn = t}
  <2>1. CASE UNCHANGED index
    BY <1>1, <2>1 DEF ShapesOK, TypeOK
  <2>2. ASSUME NEW w \in Workers, Busy(w), IndexDocument(w)
        PROVE  /\ index' \in [Txns -> Messages \cup {NoDocument}]
               /\ \A t \in Txns :
                     index'[t] \in {NoDocument} \cup {m \in Messages : m.txn = t}
    BY <1>1, <2>2, WritingTypes, HeldMessage DEF TypeOK
  <2>3. QED  BY <2>1, <2>2, IndexSteps
<1>6. QED  BY <1>2, <1>3, <1>4, <1>5 DEF ShapesOK, TypeOK

\* A worker at a commit has just written, or had and has not moved.
LEMMA SettledBeforeCommitStep == IInv /\ [Next]_vars => SettledBeforeCommit'
<1> SUFFICES ASSUME IInv, [Next]_vars, NEW v \in Workers,
                    pc'[v] \in {"commit", "dead_commit"}
             PROVE  /\ pc'[v] = "commit" => Message(v)'.txn \in Indexed'
                    /\ pc'[v] = "dead_commit" => Message(v)'.txn \in dlq'
  BY DEF SettledBeforeCommit
<1>1. Busy(v)'
  BY BusyPcNext DEF Outside
<1>2. ~ \E q \in Partitions : Begin(v, q, pc'[v])
  <2>1. ASSUME pc[v] = "idle"
        PROVE  FALSE
    BY <2>1, CommitSteps
  <2>2. QED  BY <2>1 DEF Begin
<1>3. Busy(v) /\ Message(v)' = Message(v)
  BY <1>1, <1>2, LoopInvStep, BusyStaysOrBegins DEF IInv, Stays
<1>4. Indexed \subseteq Indexed' /\ dlq \subseteq dlq'
  BY SettledStays
<1>5. CASE pc'[v] = pc[v]
  BY <1>3, <1>4, <1>5 DEF IInv, SettledBeforeCommit
<1>6. CASE pc'[v] = "commit" /\ IndexDocument(v)
  BY <1>3, <1>6, WritingTypes
<1>7. CASE pc'[v] = "dead_commit" /\ Bury(v)
  BY <1>3, <1>7 DEF Bury
<1>8. QED  BY <1>5, <1>6, <1>7, CommitSteps

\* Events arrive in their own partition, and stay.
LEMMA RoutedStep == IInv /\ [Next]_vars => Routed'
<1> SUFFICES ASSUME IInv, [Next]_vars
             PROVE  Routed'
  OBVIOUS
<1>1. CASE UNCHANGED input
  BY <1>1 DEF IInv, Routed
<1>2. ASSUME NEW m \in Messages, Arrive(m), NEW p \in Partitions,
             NEW i \in 1..Len(input'[p])
      PROVE  PartitionOf[input'[p][i].txn] = p
  <2> DEFINE q == PartitionOf[m.txn]
  <2>1. /\ q \in Partitions /\ input \in [Partitions -> Seq(Messages)]
        /\ input' = [input EXCEPT ![q] = Append(@, m)]
    BY <1>2, MessageFields DEF IInv, LoopTypeOK, Arrive
  <2>2. CASE p # q
    BY <2>1, <2>2 DEF IInv, Routed
  <2>3. CASE p = q
    <3>1. /\ Len(input'[p]) = Len(input[p]) + 1 /\ Len(input[p]) \in Nat
          /\ input'[p][Len(input[p]) + 1] = m
          /\ \A j \in 1..Len(input[p]) : input'[p][j] = input[p][j]
      BY <2>1, <2>3, AppendKeeps
    <3>2. CASE i \in 1..Len(input[p])
      BY <3>1, <3>2 DEF IInv, Routed
    <3>3. CASE i = Len(input[p]) + 1
      BY <2>3, <3>1, <3>3
    <3>4. QED  BY <3>1, <3>2, <3>3
  <2>4. QED  BY <2>2, <2>3
<1>3. QED  BY <1>1, <1>2, InputSteps DEF Routed

\* consume() starts with the invariant.
LEMMA InitIInv == Init => IInv
<1> SUFFICES ASSUME Init
             PROVE  IInv
  OBVIOUS
<1>1. LoopTypeOK(Messages, Steps)
  BY AnyPartitionType DEF Init, LoopInit, LoopTypeOK, Steps
<1>2. /\ \A p \in Partitions : input[p] = <<>> /\ committed[p] = 0
      /\ \A w \in Workers : pc[w] = "idle" /\ leased[w] = FALSE
  BY DEF Init, LoopInit
<1>3. Positions
  BY <1>2 DEF Positions, CommittedInLog, Busy
<1>4. TypeOK /\ ShapesOK
  BY <1>2 DEF Init, LoopInit, TypeOK, ShapesOK, Steps
<1>5. SettledBeforeCommit /\ Routed
  BY <1>2 DEF SettledBeforeCommit, Routed
<1>6. QED  BY <1>1, <1>3, <1>4, <1>5 DEF IInv

\* Every step keeps the invariant.
LEMMA NextIInv == IInv /\ [Next]_vars => IInv'
BY LoopInvStep, TypeStep, SettledBeforeCommitStep, RoutedStep DEF IInv

\* The inductive invariant of the audit service holds in every reachable
\* state.
THEOREM Invariance == SafeSpec => []IInv
BY InitIInv, NextIInv, PTL DEF SafeSpec

\* Types are kept: a document is an event of the transaction it is filed under.
THEOREM TypeCorrect == SafeSpec => []TypeOK
<1>1. IInv => TypeOK
  BY DEF IInv
<1>2. QED  BY <1>1, Invariance, PTL

-----------------------------------------------------------------------------
(* The service implements AtLeastOnce                                       *)

TxnIn == [m \in Messages |-> m.txn]

\* The log of the promise: the topic's transaction ids.
LEMMA LogIsImage ==
    ASSUME NEW f \in [Partitions -> Seq(Messages)]
    PROVE  Image(f, TxnIn) =
              [p \in Partitions |-> [i \in 1..Len(f[p]) |-> f[p][i].txn]]
<1>1. ASSUME NEW p \in Partitions, NEW i \in 1..Len(f[p])
      PROVE  TxnIn[f[p][i]] = f[p][i].txn
  <2>1. f[p] \in Seq(Messages)
    OBVIOUS
  <2>2. f[p][i] \in Messages
    BY <2>1
  <2>3. QED  BY <2>2 DEF TxnIn
<1>2. QED  BY <1>1 DEF Image

\* The service starts where the promise starts.
LEMMA InitRefines == Init => Promise!Init
<1> SUFFICES ASSUME Init
             PROVE  Promise!Init
  OBVIOUS
<1>1. \A p \in Partitions : input[p] = <<>>
  BY DEF Init, LoopInit
<1>2. [p \in Partitions |-> [i \in 1..Len(input[p]) |-> input[p][i].txn]]
          = [p \in Partitions |-> <<>>]
  <2>1. ASSUME NEW p \in Partitions
        PROVE  [i \in 1..Len(input[p]) |-> input[p][i].txn] = <<>>
    BY <1>1
  <2>2. QED  BY <2>1
<1>3. Indexed = {}
  BY DEF Init, Indexed
<1>4. QED  BY <1>2, <1>3 DEF Init, LoopInit, Promise!Init

\* An arriving event is the arrival of its transaction.
LEMMA ArrivalRefines ==
    ASSUME IInv, [Next]_vars, NEW m \in Messages, Arrive(m)
    PROVE  Promise!Next
<1> DEFINE q == PartitionOf[m.txn]
<1>1. q \in Partitions /\ m.txn \in Txns /\ TxnIn[m] = m.txn
  BY MessageFields DEF TxnIn
<1>2. /\ input \in [Partitions -> Seq(Messages)]
      /\ input' \in [Partitions -> Seq(Messages)]
  BY LoopInvStep DEF IInv, LoopTypeOK
<1>3. Image(input', TxnIn) =
          [Image(input, TxnIn) EXCEPT ![q] = Append(@, m.txn)]
  <2>1. IsTopic(input, Messages)
    BY <1>2 DEF IsTopic
  <2>2. Appends(input, input', q, m)
    BY DEF Arrive, Appends
  <2>3. Appends(Image(input, TxnIn), Image(input', TxnIn), q, TxnIn[m])
    BY <1>1, <2>1, <2>2, ImageOfAppend
  <2>4. QED  BY <1>1, <2>3 DEF Appends
<1>4. UNCHANGED <<committed, Indexed, dlq>>
  BY DEF Arrive, groupVars, Indexed
<1>5. Promise!Arrive(q, m.txn)
  BY <1>2, <1>3, <1>4, LogIsImage DEF Promise!Arrive
<1>6. QED  BY <1>1, <1>5 DEF Promise!Next

\* An offset moves only for a worker at one of the two commits.
LEMMA CommitterStands ==
    ASSUME IInv, [Next]_vars
    PROVE  \/ UNCHANGED committed
           \/ \E w \in Workers :
                 /\ Busy(w) /\ pc[w] \in {"commit", "dead_commit"}
                 /\ CommitUnknown(w)
                 /\ UNCHANGED <<input, index, dlq>>
<1>1. ASSUME NEW w \in Workers,
             \/ Commit(w) \/ DeadCommit(w)
             \/ CommitRaises(w) \/ DeadCommitRaises(w)
      PROVE  /\ Busy(w) /\ pc[w] \in {"commit", "dead_commit"}
             /\ CommitUnknown(w)
             /\ UNCHANGED <<input, index, dlq>>
  BY <1>1, BusyPc
     DEF Commit, DeadCommit, CommitAt, CommitRaises, CommitRaisesAt,
         DeadCommitRaises, CommitKillsAt, CommitUnknown, Outside
<1>2. ASSUME NEW w \in Workers,
             \/ Fetch(w) \/ Index(w) \/ IndexRaises(w) \/ DeadLetter(w)
             \/ DeadLetterRaises(w)
      PROVE  UNCHANGED committed
  BY <1>2
     DEF Fetch, Begin, Index, IndexRaises, DeadLetter, DeadLetterRaises
<1>3. Group => UNCHANGED committed
  BY DEF Group, Crash, Restart, Rebalance, Takeover
<1>4. QED
  BY <1>1, <1>2, <1>3
     DEF Next, WorkerStep, Failure, Arrive, groupVars, vars, loopVars

\* Every step of the service is one the promise allows, or a stutter.
LEMMA StepRefines == IInv /\ [Next]_vars => [Promise!Next]_Promise!vars
<1> SUFFICES ASSUME IInv, [Next]_vars
             PROVE  Promise!Next \/ UNCHANGED Promise!vars
  BY DEF Promise!vars
<1> DEFINE Log == [p \in Partitions |->
                      [i \in 1..Len(input[p]) |-> input[p][i].txn]]
<1>1. ASSUME NEW w \in Workers, Busy(w)
      PROVE  /\ part[w] \in Partitions
             /\ offset[w] \in Promise!Reached(part[w])
             /\ Log[part[w]][offset[w]] = Message(w).txn
             /\ Len(Log[part[w]]) = Len(input[part[w]])
  <2>1. /\ part[w] \in Partitions
        /\ offset[w] \in 1..Len(input[part[w]])
        /\ offset[w] <= committed[part[w]] + 1
    BY <1>1, HeldMessage
  <2>2. Len(input[part[w]]) \in Nat
    BY <2>1 DEF IInv, LoopTypeOK
  <2>3. QED  BY <2>1, <2>2 DEF Message, Promise!Reached
<1>2. CASE \E m \in Messages : Arrive(m)
  BY <1>2, ArrivalRefines
<1>3. ASSUME NEW w \in Workers, Busy(w), IndexDocument(w),
             UNCHANGED <<input, committed, dlq>>
      PROVE  Promise!Next
  <2>1. Indexed' = Indexed \cup {Message(w).txn}
    BY <1>3, WritingTypes
  <2>2. Promise!Handle(part[w], offset[w])
    BY <1>1, <1>3, <2>1 DEF Promise!Handle
  <2>3. QED  BY <1>1, <1>3, <2>2 DEF Promise!Next
<1>4. ASSUME NEW w \in Workers, Busy(w), Bury(w),
             UNCHANGED <<input, committed, index>>
      PROVE  Promise!Next
  <2>1. Promise!Bury(part[w], offset[w])
    BY <1>1, <1>4 DEF Promise!Bury, Bury, Indexed
  <2>2. QED  BY <1>1, <1>4, <2>1 DEF Promise!Next
<1>5. ASSUME NEW w \in Workers, Busy(w), pc[w] \in {"commit", "dead_commit"},
             CommitUnknown(w), UNCHANGED <<input, index, dlq>>,
             committed' # committed
      PROVE  Promise!Next
  <2>1. /\ part[w] \in Partitions
        /\ committed[part[w]] \in Nat
        /\ offset[w] = committed[part[w]] + 1
        /\ offset[w] <= Len(input[part[w]])
        /\ committed' = [committed EXCEPT ![part[w]] = @ + 1]
    BY <1>5, CommitAdvances DEF IInv
  <2>2. Log[part[w]][committed[part[w]] + 1] \in Indexed \cup dlq
    BY <1>1, <1>5, <2>1 DEF IInv, SettledBeforeCommit
  <2>3. committed[part[w]] < Len(Log[part[w]])
    <3>1. Len(input[part[w]]) \in Nat
      BY <2>1 DEF IInv, LoopTypeOK
    <3>2. QED  BY <1>1, <1>5, <2>1, <3>1
  <2>4. UNCHANGED <<Log, Indexed, dlq>>
    BY <1>5 DEF Indexed
  <2>5. Promise!Advance(part[w])
    BY <2>1, <2>2, <2>3, <2>4 DEF Promise!Advance
  <2>6. QED  BY <2>1, <2>5 DEF Promise!Next
<1>6. CASE UNCHANGED <<input, committed, index, dlq>>
  BY <1>6 DEF Promise!vars, Indexed
<1>7. ASSUME UNCHANGED input
      PROVE  Promise!Next \/ UNCHANGED <<input, committed, index, dlq>>
  <2>1. CASE ~UNCHANGED index
    BY <1>3, <2>1, IndexSteps
  <2>2. CASE ~UNCHANGED dlq
    BY <1>4, <2>2, DlqSteps
  <2>3. CASE ~UNCHANGED committed
    BY <1>5, <2>3, CommitterStands
  <2>4. QED  BY <1>7, <2>1, <2>2, <2>3
<1>8. QED  BY <1>2, <1>6, <1>7, InputSteps

\* By transaction, and in spite of retries, crashes and orphaned replicas, the
\* service takes only the steps AtLeastOnce allows.
THEOREM ServiceImplementsAtLeastOnce == SafeSpec => Promise!SafeSpec
<1>1. QED
  BY InitRefines, StepRefines, Invariance, PTL
     DEF SafeSpec, Promise!SafeSpec

-----------------------------------------------------------------------------
(* Documents out of date are paid for by failures.                          *)

\* When v goes on, or is not the last to go on, its transaction's document may
\* end up older than what is passed: v will bury the event; or it has lost
\* the partition to somebody who passes it; or it is about to pass an event
\* over which an older one was written.
Threatens(v, p) ==
    /\ Busy(v) /\ part[v] = p
    /\ \/ pc[v] \in {"dead_letter", "dead_commit"}
       \/ ~leased[v] /\ (offset[v] < committed[p] \/ Live # {v})
       \/ leased[v] /\ pc[v] = "commit" /\ ~Current(p, offset[v])

\* The transactions of p that are out of date, or may be without a failure.
Risk(p) ==
    Stale(p) \cup
        {Message(v).txn : v \in {u \in Workers : Threatens(u, p)}}

\* A reassignment is due that takes p away from an owner that is not alone.
Due(p) ==
    IF /\ owner[p] \in Live /\ Live # {owner[p]}
       /\ \E q \in Partitions : owner[q] \notin Live
    THEN 1 ELSE 0

\* Those transactions, and the reassignments due that may add one, are paid
\* for by the failures so far.
RiskPaid(p) ==
    Cardinality(Risk(p)) + Cardinality(Absent) + Due(p)
        <= StalePerFailure * faults

RisksPaid == \A p \in Partitions : RiskPaid(p)

\* What it is to be at risk.
LEMMA RiskDef ==
    ASSUME NEW p, NEW x
    PROVE  x \in Risk(p) <=>
              \/ \E i \in 1..committed[p] :
                    input[p][i].txn = x /\ ~Current(p, i)
              \/ \E v \in Workers : Threatens(v, p) /\ Message(v).txn = x
BY DEF Risk, Stale

\* ... and after a step.
LEMMA RiskDefNext ==
    ASSUME NEW p, NEW x
    PROVE  x \in Risk(p)' <=>
              \/ \E i \in 1..committed'[p] :
                    input'[p][i].txn = x /\ ~Current(p, i)'
              \/ \E v \in Workers : Threatens(v, p)' /\ Message(v)'.txn = x
BY DEF Risk, Stale

\* The numbers of the account.
LEMMA AccountNumbers ==
    ASSUME IInv, NEW p \in Partitions
    PROVE  /\ StalePerFailure \in {1, 2} /\ faults \in Nat
           /\ Cardinality(Absent) \in Nat /\ Due(p) \in {0, 1}
           /\ IsFiniteSet(Risk(p))
<1>1. Cardinality(Absent) \in Nat
  BY SomeWorkers DEF Absent
<1>2. IsFiniteSet(Risk(p))
  <2>1. /\ committed[p] \in Nat /\ Len(input[p]) \in Nat
        /\ committed[p] <= Len(input[p])
    BY DEF IInv, LoopTypeOK, Positions, CommittedInLog
  <2> DEFINE n == Len(input[p])
             f == [i \in 1..n |-> input[p][i].txn]
             T == {input[p][i].txn : i \in 1..n}
  <2>2. IsFiniteSet(1..n)
    BY <2>1, FS_Interval
  <2>3. IsFiniteSet(T)
    <3>1. f \in Surjection(1..n, T)
      BY DEF Surjection
    <3>2. QED  BY <2>2, <3>1, FS_Surjection
  <2>4. Risk(p) \subseteq T
    <3>1. ASSUME NEW x \in Risk(p)
          PROVE  \E i \in 1..n : x = input[p][i].txn
      <4>1. ASSUME NEW v \in Workers, Threatens(v, p), Message(v).txn = x
            PROVE  \E i \in 1..n : x = input[p][i].txn
        <5>1. offset[v] \in 1..n /\ x = input[p][offset[v]].txn
          BY <4>1, HeldMessage DEF Threatens, Message
        <5>2. QED  BY <5>1
      <4>2. \A i \in 1..committed[p] : i \in 1..n
        BY <2>1
      <4>3. QED  BY <4>1, <4>2, RiskDef
    <3>2. QED  BY <3>1
  <2>5. QED  BY <2>3, <2>4, FS_Subset
<1>3. QED  BY <1>1, <1>2 DEF StalePerFailure, Due, IInv, ShapesOK

\* A document that is current stays so until it is written.
LEMMA CurrentStays ==
    ASSUME IInv, Grows(input, input'), NEW p \in Partitions,
           NEW i \in 1..Len(input[p]),
           index'[input[p][i].txn] = index[input[p][i].txn]
    PROVE  /\ input'[p][i] = input[p][i]
           /\ Current(p, i) => Current(p, i)'
           /\ UNCHANGED input => (Current(p, i)' => Current(p, i))
<1>1. /\ Len(input[p]) \in Nat /\ Len(input'[p]) \in Nat
      /\ Len(input[p]) <= Len(input'[p])
      /\ \A j \in 1..Len(input[p]) : input'[p][j] = input[p][j]
  BY DEF Grows
<1>2. \A j \in i..Len(input[p]) : j \in 1..Len(input[p])
                                  /\ j \in i..Len(input'[p])
  BY <1>1
<1>3. QED  BY <1>1, <1>2 DEF Current

\* A worker that keeps its place keeps its message.
LEMMA MessageStays ==
    ASSUME IInv, Grows(input, input'), NEW v \in Workers, Busy(v),
           part'[v] = part[v], offset'[v] = offset[v]
    PROVE  Message(v)' = Message(v)
BY HeldMessage DEF Grows, Message

\* A step that writes nothing and passes nothing, after which each worker is
\* no threat, or stands where it stood, adds no risk.
LEMMA NothingWritten ==
    ASSUME IInv, Grows(input, input'), UNCHANGED <<committed, index>>,
           NEW p \in Partitions,
           \A v \in Workers :
              \/ ~Threatens(v, p)'
              \/ /\ UNCHANGED <<pc[v], part[v], offset[v], leased[v]>>
                 /\ Live' # {v} => Live # {v}
    PROVE  Risk(p)' \subseteq Risk(p)
<1>1. /\ committed[p] \in Nat /\ Len(input[p]) \in Nat
      /\ committed[p] <= Len(input[p])
  BY DEF IInv, LoopTypeOK, Positions, CommittedInLog
<1>2. ASSUME NEW i \in 1..committed[p], ~Current(p, i)'
      PROVE  input'[p][i] = input[p][i] /\ ~Current(p, i)
  <2>1. i \in 1..Len(input[p])
    BY <1>1
  <2>2. QED  BY <1>2, <2>1, CurrentStays
<1>3. ASSUME NEW v \in Workers, Threatens(v, p)'
      PROVE  Threatens(v, p) /\ Message(v)' = Message(v)
  <2>1. /\ UNCHANGED <<pc[v], part[v], offset[v], leased[v]>>
        /\ Live' # {v} => Live # {v}
    BY <1>3
  <2>2. Busy(v)
    BY <1>3, <2>1, BusyPc, BusyPcNext DEF Threatens
  <2>3. Message(v)' = Message(v)
    BY <2>1, <2>2, MessageStays
  <2>4. ~Current(p, offset[v])' => ~Current(p, offset[v])
    BY <1>3, <2>1, <2>2, HeldMessage, CurrentStays DEF Threatens
  <2>5. Threatens(v, p)
    BY <1>3, <2>1, <2>2, <2>4 DEF Threatens
  <2>6. QED  BY <2>3, <2>5
<1>4. ASSUME NEW x \in Risk(p)'
      PROVE  x \in Risk(p)
  BY <1>2, <1>3, RiskDef, RiskDefNext
<1>5. QED  BY <1>4

\* A transaction at risk after a step is one of the partition.
LEMMA RiskIsRouted ==
    ASSUME IInv, [Next]_vars, NEW p \in Partitions, NEW x \in Risk(p)'
    PROVE  PartitionOf[x] = p
<1>1. LoopTypeOK(Messages, Steps)' /\ Positions' /\ Routed'
  BY LoopInvStep, RoutedStep
<1>2. /\ committed'[p] \in Nat /\ Len(input'[p]) \in Nat
      /\ committed'[p] <= Len(input'[p])
  BY <1>1 DEF LoopTypeOK, Positions, CommittedInLog
<1>3. \A i \in 1..committed'[p] : PartitionOf[input'[p][i].txn] = p
  BY <1>1, <1>2 DEF Routed
<1>4. ASSUME NEW v \in Workers, Threatens(v, p)'
      PROVE  PartitionOf[Message(v)'.txn] = p
  BY <1>1, <1>4 DEF Threatens, Positions, Holds, Routed, Message
<1>5. QED  BY <1>3, <1>4, RiskDefNext

\* What w does to its own message puts no other transaction at risk.
LEMMA OnlyItsTransaction ==
    ASSUME IInv, [Next]_vars, UNCHANGED input, NEW p \in Partitions,
           NEW w \in Workers, Busy(w), CommitUnknown(w),
           IndexDocument(w) \/ UNCHANGED index,
           Busy(w)' => UNCHANGED <<part[w], offset[w]>>,
           \A v \in Workers \ {w} :
              UNCHANGED <<pc[v], part[v], offset[v], leased[v]>>,
           NEW x \in Risk(p)', p = part[w] => x # Message(w).txn
    PROVE  x \in Risk(p)
<1>0. x # Message(w).txn
  BY HeldMessage, RiskIsRouted
<1>1. /\ committed[p] \in Nat /\ Len(input[p]) \in Nat
      /\ committed[p] <= Len(input[p])
  BY DEF IInv, LoopTypeOK, Positions, CommittedInLog
<1>2. \A t \in Txns : t # Message(w).txn => index'[t] = index[t]
  BY WritingTypes
<1>3. Grows(input, input')
  BY UnchangedGrows DEF IInv, LoopTypeOK
<1>4. ASSUME NEW i \in 1..Len(input[p]), input[p][i].txn = x
      PROVE  Current(p, i) <=> Current(p, i)'
  <2>1. x \in Txns
    <3>1. input[p][i] \in Messages
      BY DEF IInv, TypeOK
    <3>2. QED  BY <1>4, <3>1, MessageFields
  <2>2. index'[input[p][i].txn] = index[input[p][i].txn]
    BY <1>0, <1>2, <1>4, <2>1
  <2>3. QED  BY <1>3, <2>2, CurrentStays
<1>5. ASSUME NEW i \in 1..committed'[p], input'[p][i].txn = x, ~Current(p, i)'
      PROVE  x \in Risk(p)
  <2>1. CASE i \in 1..committed[p]
    <3>1. i \in 1..Len(input[p])
      BY <1>1, <2>1
    <3>2. QED  BY <1>4, <1>5, <2>1, <3>1, RiskDef
  <2>2. CASE i \notin 1..committed[p]
    <3>1. /\ committed'[p] # committed[p] /\ committed'[p] \in Nat
      BY <1>1, <1>5, <2>2, CommitFacts DEF IInv
    <3>2. p = part[w] /\ i = offset[w]
      BY <1>1, <2>2, <3>1, CommitFacts DEF IInv
    <3>3. QED  BY <1>0, <1>5, <3>2 DEF Message
  <2>3. QED  BY <2>1, <2>2
<1>6. ASSUME NEW v \in Workers, Threatens(v, p)', Message(v)'.txn = x
      PROVE  x \in Risk(p)
  <2>1. v # w
    BY <1>0, <1>3, <1>6, MessageStays DEF Threatens
  <2>2. UNCHANGED <<pc[v], part[v], offset[v], leased[v]>>
    BY <2>1
  <2>3. Busy(v) /\ Live # {v}
    BY <1>6, <2>1, <2>2, BusyPc, BusyPcNext DEF Threatens, Busy
  <2>4. Message(v)' = Message(v)
    BY <1>3, <2>2, <2>3, MessageStays
  <2>5. part[v] = p /\ offset[v] \in 1..Len(input[p])
    BY <1>6, <2>2, <2>3, HeldMessage DEF Threatens
  <2>6. ~Current(p, offset[v])' => ~Current(p, offset[v])
    BY <1>4, <1>6, <2>2, <2>4, <2>5 DEF Message
  <2>7. Threatens(v, p)
    BY <1>6, <2>2, <2>3, <2>5, <2>6 DEF Threatens
  <2>8. QED  BY <1>6, <2>4, <2>7, RiskDef
<1>7. QED  BY <1>5, <1>6, RiskDefNext

\* The write of a document: what it makes older than the log was at risk, for
\* only a worker that lost its partition writes behind the offset, or behind
\* somebody else.
LEMMA WritingIsFree ==
    ASSUME IInv, [Next]_vars, NEW w \in Workers, Busy(w), IndexDocument(w),
           UNCHANGED <<input, committed, part, offset, leased>>,
           pc' = [pc EXCEPT ![w] = "commit"], Live' = Live,
           NEW p \in Partitions
    PROVE  Risk(p)' \subseteq Risk(p)
<1> SUFFICES ASSUME NEW x \in Risk(p)'
             PROVE  x \in Risk(p)
  OBVIOUS
<1>0. /\ part[w] \in Partitions /\ offset[w] \in Nat
      /\ committed[part[w]] \in Nat /\ 1 <= offset[w]
      /\ offset[w] <= Len(input[part[w]])
      /\ leased[w] => offset[w] >= committed[part[w]]
      /\ Len(input[part[w]]) \in Nat
      /\ committed[part[w]] <= Len(input[part[w]])
  <2>1. /\ part[w] \in Partitions /\ offset[w] \in Nat
        /\ committed[part[w]] \in Nat /\ 1 <= offset[w]
        /\ offset[w] <= Len(input[part[w]])
        /\ leased[w] => offset[w] >= committed[part[w]]
    BY HoldsFacts DEF IInv
  <2>2. QED  BY <2>1 DEF IInv, LoopTypeOK, Positions, CommittedInLog
<1>1. pc \in [Workers -> Steps]
  BY DEF IInv, TypeOK
<1>2. CASE p = part[w] => x # Message(w).txn
  BY <1>1, <1>2, OnlyItsTransaction DEF CommitUnknown
<1>3. ASSUME x = Message(w).txn, ~leased[w],
             offset[w] < committed[part[w]] \/ Live # {w}, p = part[w]
      PROVE  x \in Risk(p)
  <2>1. Threatens(w, p)
    BY <1>3 DEF Threatens
  <2>2. QED  BY <1>3, <2>1, RiskDef
<1>4. ASSUME NEW i \in 1..Len(input[part[w]]), i <= offset[w],
             input[part[w]][i].txn = Message(w).txn
      PROVE  Current(part[w], i)'
  <2>1. input'[part[w]][offset[w]] = index'[Message(w).txn]
    BY WritingTypes DEF Message
  <2>2. offset[w] \in i..Len(input'[part[w]])
    BY <1>0, <1>4
  <2>3. input'[part[w]][i].txn = Message(w).txn
    BY <1>4
  <2>4. QED  BY <2>1, <2>2, <2>3 DEF Current
<1>5. CASE x = Message(w).txn /\ p = part[w]
  <2>1. ASSUME NEW i \in 1..committed'[p], input'[p][i].txn = x, ~Current(p, i)'
        PROVE  x \in Risk(p)
    <3>1. i \in 1..Len(input[p])
      BY <1>0, <1>5
    <3>2. ~(i <= offset[w])
      BY <1>4, <1>5, <2>1, <3>1
    <3>3. offset[w] < committed[p]
      BY <1>0, <1>5, <2>1, <3>2
    <3>4. QED  BY <1>0, <1>3, <1>5, <3>3
  <2>2. ASSUME NEW v \in Workers, Threatens(v, p)', Message(v)'.txn = x
        PROVE  x \in Risk(p)
    <3>1. Busy(v) /\ part[v] = p /\ Message(v)' = Message(v)
      BY <1>1, <1>5, <2>2 DEF Threatens, Busy, Live, Message
    <3>2. CASE v = w
      <4>1. pc'[w] = "commit"
        BY <1>1
      <4>2. Current(p, offset[w])'
        BY <1>0, <1>4, <1>5 DEF Message
      <4>3. ~leased[w] /\ (offset[w] < committed[p] \/ Live # {w})
        BY <2>2, <3>2, <4>1, <4>2 DEF Threatens
      <4>4. QED  BY <1>3, <1>5, <4>3
    <3>3. CASE v # w
      <4>1. pc'[v] = pc[v]
        BY <1>1, <3>3
      <4>2. CASE leased[v] /\ pc[v] = "commit"
        <5>1. owner[p] = v
          BY <3>1, <4>2 DEF IInv, Positions, Covers
        <5>2. ~leased[w]
          BY <1>5, <3>3, <5>1 DEF IInv, Positions, Covers
        <5>3. Live # {w}
          BY <3>1, <3>3 DEF Busy
        <5>4. QED  BY <1>3, <1>5, <5>2, <5>3
      <4>3. CASE ~(leased[v] /\ pc[v] = "commit")
        <5>1. Threatens(v, p)
          BY <2>2, <3>1, <4>1, <4>3 DEF Threatens
        <5>2. QED  BY <2>2, <3>1, <5>1, RiskDef
      <4>4. QED  BY <4>2, <4>3
    <3>4. QED  BY <3>2, <3>3
  <2>3. QED  BY <2>1, <2>2, RiskDefNext
<1>6. QED  BY <1>2, <1>5

\* A commit that answered passes an event that is current, or one that was at
\* risk already.
LEMMA CommittingIsPaid ==
    ASSUME IInv, [Next]_vars, NEW w \in Workers, pc[w] = "commit",
           AdvanceOffset(w), Release(w, "idle"),
           UNCHANGED <<input, owner, index>>, NEW p \in Partitions
    PROVE  Risk(p)' \subseteq Risk(p)
<1>1. /\ Busy(w) /\ ~Busy(w)' /\ pc \in [Workers -> Steps]
      /\ \A v \in Workers \ {w} :
            UNCHANGED <<pc[v], part[v], offset[v], leased[v]>>
  BY DEF Release, IInv, LoopTypeOK, Busy, Live, Steps
<1>2. Grows(input, input')
  BY UnchangedGrows DEF IInv, LoopTypeOK
<1>3. CASE UNCHANGED committed
  <2>1. \A v \in Workers \ {w} : Live # {v}
    BY <1>1 DEF Busy
  <2>2. \A v \in Workers : ~Threatens(v, p)'
                           \/ /\ UNCHANGED <<pc[v], part[v], offset[v], leased[v]>>
                              /\ Live' # {v} => Live # {v}
    BY <1>1, <2>1 DEF Threatens
  <2>3. QED  BY <1>2, <1>3, <2>2, NothingWritten
<1>4. ASSUME committed' # committed, NEW x \in Risk(p)'
      PROVE  x \in Risk(p)
  <2>1. /\ part[w] \in Partitions /\ committed[part[w]] \in Nat /\ leased[w]
        /\ offset[w] = committed[part[w]] + 1
        /\ offset[w] \in 1..Len(input[part[w]])
        /\ committed' = [committed EXCEPT ![part[w]] = @ + 1]
    <3>1. CommitUnknown(w)
      BY DEF CommitUnknown
    <3>2. /\ part[w] \in Partitions /\ committed[part[w]] \in Nat
          /\ offset[w] = committed[part[w]] + 1
          /\ committed' = [committed EXCEPT ![part[w]] = @ + 1]
      BY <1>1, <1>4, <3>1, CommitAdvances DEF IInv
    <3>3. QED  BY <1>1, <1>4, <3>2, HeldMessage DEF AdvanceOffset
  <2>2. CASE x # Message(w).txn
    BY <1>1, <1>4, <2>2, OnlyItsTransaction DEF CommitUnknown
  <2>3. ASSUME x = Message(w).txn, NEW i \in 1..committed'[p],
               input'[p][i].txn = x, ~Current(p, i)'
        PROVE  x \in Risk(p)
    <3>1. ~Current(p, i)
      BY <2>3 DEF Current
    <3>2. committed[p] \in Nat
      BY DEF IInv, LoopTypeOK
    <3>3. CASE i \in 1..committed[p]
      BY <2>3, <3>1, <3>3, RiskDef
    <3>4. CASE i \notin 1..committed[p]
      <4>1. p = part[w] /\ i = offset[w]
        BY <2>1, <2>3, <3>2, <3>4 DEF IInv, LoopTypeOK
      <4>2. Threatens(w, p)
        BY <1>1, <2>1, <3>1, <4>1 DEF Threatens
      <4>3. QED  BY <2>3, <4>2, RiskDef
    <3>5. QED  BY <3>3, <3>4
  <2>4. ASSUME x = Message(w).txn, NEW v \in Workers, Threatens(v, p)',
               Message(v)'.txn = x
        PROVE  x \in Risk(p)
    <3>1. v # w /\ Live # {v}
      BY <1>1, <2>4 DEF Threatens, Busy
    <3>2. /\ Busy(v) /\ part[v] = p /\ Message(v)' = Message(v)
          /\ UNCHANGED <<pc[v], part[v], offset[v], leased[v]>>
      BY <1>1, <2>4, <3>1, BusyPc, BusyPcNext DEF Threatens, Message
    <3>3. Threatens(v, p)
      BY <2>4, <3>1, <3>2 DEF Threatens, Current
    <3>4. QED  BY <2>4, <3>2, <3>3, RiskDef
  <2>5. QED  BY <1>4, <2>2, <2>3, <2>4, RiskDefNext
<1>5. QED  BY <1>3, <1>4

\* A dead letter, its commit and the death of its worker leave a transaction at
\* risk that was.
LEMMA BuryingIsPaid ==
    ASSUME IInv, [Next]_vars, NEW w \in Workers,
           pc[w] \in {"dead_letter", "dead_commit"},
           CommitUnknown(w), UNCHANGED <<input, index>>,
           Busy(w)' => UNCHANGED <<part[w], offset[w]>>,
           \A v \in Workers \ {w} :
              UNCHANGED <<pc[v], part[v], offset[v], leased[v]>>,
           NEW p \in Partitions
    PROVE  Risk(p)' \subseteq Risk(p)
<1>1. Busy(w)
  BY BusyPc DEF Outside
<1>2. p = part[w] => Threatens(w, p)
  BY <1>1 DEF Threatens
<1>3. p = part[w] => Message(w).txn \in Risk(p)
  BY <1>2, RiskDef
<1>4. QED  BY <1>1, <1>3, OnlyItsTransaction

\* A failure pays for one, and with a third replica for two.
LEMMA FailuresPay ==
    ASSUME faults \in Nat
    PROVE  /\ StalePerFailure * faults \in Nat
           /\ UNCHANGED faults =>
                 StalePerFailure * faults' = StalePerFailure * faults
           /\ faults' = faults + 1 =>
                 StalePerFailure * faults'
                    = StalePerFailure * faults + StalePerFailure
<1>1. CASE StalePerFailure = 1
  BY <1>1
<1>2. CASE StalePerFailure = 2
  BY <1>2
<1>3. QED  BY <1>1, <1>2 DEF StalePerFailure

\* A step that adds one at most, and that one only with a failure.
LEMMA StayingIsPaid ==
    ASSUME IInv, NEW p \in Partitions, RiskPaid(p),
           Live' = Live, UNCHANGED owner,
           \/ UNCHANGED faults /\ Risk(p)' \subseteq Risk(p)
           \/ faults' = faults + 1 /\ \E x : Risk(p)' \subseteq Risk(p) \cup {x}
    PROVE  RiskPaid(p)'
<1>1. Absent' = Absent /\ Due(p)' = Due(p)
  BY DEF Absent, Due
<1>2. PICK x : /\ Risk(p)' \subseteq Risk(p) \cup {x}
               /\ UNCHANGED faults => Risk(p)' \subseteq Risk(p)
  <2>1. faults \in Nat
    BY AccountNumbers
  <2>2. CASE Risk(p)' \subseteq Risk(p)
    BY <2>2
  <2>3. CASE faults' = faults + 1
    BY <2>1, <2>3
  <2>4. QED  BY <2>2, <2>3
<1>3. /\ Cardinality(Risk(p)) \in Nat /\ Cardinality(Risk(p)') \in Nat
      /\ Cardinality(Risk(p)') <= Cardinality(Risk(p)) + 1
      /\ UNCHANGED faults => Cardinality(Risk(p)') <= Cardinality(Risk(p))
  BY <1>2, AccountNumbers, OneElementMore
<1>4. QED  BY <1>1, <1>3, AccountNumbers, FailuresPay DEF RiskPaid

\* A replica that goes down is one absence, and with it one reassignment may be
\* due, but only if two others are there.
LEMMA LeavingIsPaid ==
    ASSUME IInv, NEW p \in Partitions, RiskPaid(p),
           NEW w \in Workers, w \in Live, Live' = Live \ {w}, UNCHANGED owner,
           faults' = faults + 1, Risk(p)' \subseteq Risk(p)
    PROVE  RiskPaid(p)'
<1>1. /\ Cardinality(Risk(p)) \in Nat /\ Cardinality(Risk(p)') \in Nat
      /\ Cardinality(Risk(p)') <= Cardinality(Risk(p))
  BY AccountNumbers, OneElementMore
<1>2. Cardinality(Absent') \in Nat /\ Cardinality(Absent') <= Cardinality(Absent) + 1
  <2>1. Absent \in SUBSET Workers /\ Absent' \in SUBSET Workers
    BY DEF Absent
  <2>2. Absent' = Absent \cup {w}
    BY DEF Absent, Live
  <2>3. QED  BY <2>1, <2>2, AtMostOneMore, SomeWorkers
<1>3. Due(p)' \in {0, 1} /\ (StalePerFailure = 1 => Due(p)' = 0)
  <2>1. ASSUME Due(p)' # 0
        PROVE  ~(Cardinality(Workers) <= 2)
    <3>1. owner'[p] \in Live' /\ Live' # {owner'[p]}
      BY <2>1 DEF Due
    <3>2. PICK v \in Live' : v # owner'[p]
      BY <3>1
    <3>3. /\ owner'[p] \in Workers /\ v \in Workers
          /\ w \notin {owner'[p]} /\ v \notin {owner'[p]}
          /\ w \notin {owner'[p], v}
      BY <3>1, <3>2 DEF Live
    <3>4. Cardinality({owner'[p]}) = 1
      BY <3>3, OneWorkerMore, FS_EmptySet, FS_Singleton
    <3>5. Cardinality({owner'[p]} \cup {v}) = 2
      BY <3>3, <3>4, OneWorkerMore
    <3>6. Cardinality({owner'[p], v} \cup {w}) = 3
      <4>1. {owner'[p]} \cup {v} = {owner'[p], v}
        OBVIOUS
      <4>2. {owner'[p], v} \in SUBSET Workers
        BY <3>3
      <4>3. QED  BY <3>3, <3>5, <4>1, <4>2, OneWorkerMore
    <3>7. {owner'[p], v} \cup {w} \in SUBSET Workers
      BY <3>3
    <3>8. QED  BY <3>6, <3>7, SomeWorkers
  <2>2. QED  BY <2>1 DEF Due, StalePerFailure
<1>4. QED  BY <1>1, <1>2, <1>3, AccountNumbers, FailuresPay DEF RiskPaid

\* A reassignment: the one replica that loses the partition, or is no longer
\* alone, is paid for by what was due, or by the failure it is.
LEMMA RegroupingIsPaid ==
    ASSUME IInv, [Next]_vars, NEW p \in Partitions, RiskPaid(p),
           Rebalance \/ Takeover \/ \E v \in Workers : Restart(v),
           UNCHANGED index
    PROVE  RiskPaid(p)'
<1>1. /\ pc \in [Workers -> Steps] /\ owner \in [Partitions -> Workers]
      /\ Regroups /\ owner' \in [Partitions -> Live']
      /\ \A v \in Workers : leased'[v] = FALSE
  <2>1. pc \in [Workers -> Steps] /\ owner \in [Partitions -> Workers]
    BY DEF IInv, LoopTypeOK
  <2>2. Regroups
    BY DEF Rebalance, Takeover, Restart, Regroups, Assign, workerVars
  <2>3. \A v \in Workers : Restart(v) => Live' = Live \cup {v}
    BY <2>1 DEF Restart, Live
  <2>4. owner' \in [Partitions -> Live']
    BY <2>3 DEF Rebalance, Takeover, Restart, Assign, workerVars, Live
  <2>5. QED  BY <2>1, <2>2, <2>4 DEF Regroups
<1>2. Due(p)' = 0
  BY <1>1 DEF Due
<1>3. \A x : x \in Risk(p)' /\ x \notin Risk(p) =>
          \E v \in Workers : /\ Threatens(v, p)' /\ ~Threatens(v, p)
                             /\ Busy(v) /\ part[v] = p /\ Message(v).txn = x
  <2>1. ASSUME NEW x \in Risk(p)', x \notin Risk(p)
        PROVE  \E v \in Workers : Threatens(v, p)' /\ Message(v)'.txn = x
    BY <1>1, <2>1, RiskDef, RiskDefNext DEF Regroups, Current
  <2>2. ASSUME NEW v \in Workers, Threatens(v, p)'
        PROVE  Busy(v) /\ part[v] = p /\ Message(v)' = Message(v)
    <3>1. pc'[v] = pc[v]
      BY <1>1, <2>2, BusyPcNext DEF Threatens, Regroups, Outside
    <3>2. QED
      BY <1>1, <2>2, <3>1, BusyPc, BusyPcNext DEF Threatens, Regroups, Message
  <2>3. QED  BY <2>1, <2>2, RiskDef
<1>4. ASSUME NEW v \in Workers, Threatens(v, p)', ~Threatens(v, p),
             Busy(v), part[v] = p
      PROVE  /\ Live' # {v} /\ ~(offset[v] < committed[p])
             /\ leased[v] \/ Live = {v}
  <2>1. pc'[v] = pc[v]
    BY <1>1, <1>4 DEF Regroups, Busy, Live
  <2>2. leased[v] => ~(offset[v] < committed[p])
    BY <1>4, HoldsFacts DEF IInv
  <2>3. QED  BY <1>1, <1>4, <2>1, <2>2 DEF Threatens, Regroups
<1>5. \A u, v \in Workers :
         /\ Busy(u) /\ part[u] = p /\ (leased[u] \/ Live = {u})
         /\ Busy(v) /\ part[v] = p /\ (leased[v] \/ Live = {v})
         => u = v
  BY DEF Busy, IInv, Positions, Covers
<1>6. \E x : Risk(p)' \subseteq Risk(p) \cup {x}
  <2>1. CASE Risk(p)' \subseteq Risk(p)
    BY <2>1
  <2>2. ASSUME NEW x \in Risk(p)', x \notin Risk(p)
        PROVE  Risk(p)' \subseteq Risk(p) \cup {x}
    BY <1>3, <1>4, <1>5, <2>2
  <2>3. QED  BY <2>1, <2>2
<1>7. PICK x : Risk(p)' \subseteq Risk(p) \cup {x}
  BY <1>6
<1>8. /\ Cardinality(Risk(p)) \in Nat /\ Cardinality(Risk(p)') \in Nat
      /\ Cardinality(Risk(p)') <= Cardinality(Risk(p)) + 1
      /\ Risk(p)' \subseteq Risk(p) => Cardinality(Risk(p)') <= Cardinality(Risk(p))
  BY <1>7, AccountNumbers, OneElementMore
<1>9. Absent \in SUBSET Workers
  BY DEF Absent
<1>10. ASSUME NEW v \in Workers, Restart(v)
       PROVE  RiskPaid(p)'
  <2>1. Live' = Live \cup {v} /\ v \notin Live
    BY <1>1, <1>10 DEF Restart, Live
  <2>2. Absent' = Absent \ {v} /\ v \in Absent
    BY <2>1 DEF Absent
  <2>3. Cardinality(Absent') = Cardinality(Absent) - 1
    BY <1>9, <2>2, OneWorkerMore
  <2>4. UNCHANGED faults
    BY <1>10 DEF Restart
  <2>5. QED  BY <1>2, <1>8, <2>3, <2>4, AccountNumbers, FailuresPay DEF RiskPaid
<1>11. CASE Takeover
  <2>1. Live' = Live /\ UNCHANGED faults
    BY <1>11 DEF Takeover, workerVars, Live
  <2>2. Absent' = Absent
    BY <2>1 DEF Absent
  <2>3. ~(Risk(p)' \subseteq Risk(p)) => Due(p) = 1
    <3>1. ASSUME NEW v \in Workers, Threatens(v, p)', ~Threatens(v, p),
                 Busy(v), part[v] = p
          PROVE  Due(p) = 1
      <4>1. leased[v] /\ Live # {v}
        BY <1>4, <2>1, <3>1
      <4>2. owner[p] = v
        BY <3>1, <4>1 DEF IInv, Positions, Covers
      <4>3. QED  BY <1>11, <3>1, <4>1, <4>2 DEF Takeover, Due, Busy
    <3>2. QED  BY <1>3, <3>1
  <2>4. QED  BY <1>2, <1>8, <2>1, <2>2, <2>3, AccountNumbers, FailuresPay DEF RiskPaid
<1>12. CASE Rebalance
  <2>1. Live' = Live /\ faults' = faults + 1
    BY <1>12 DEF Rebalance, Fault, workerVars, Live
  <2>2. Absent' = Absent
    BY <2>1 DEF Absent
  <2>3. QED  BY <1>2, <1>8, <2>1, <2>2, AccountNumbers, FailuresPay DEF RiskPaid
<1>13. QED  BY <1>10, <1>11, <1>12

\* What the handlers that answer leave at risk.
LEMMA WorkerStepsArePaid ==
    ASSUME IInv, [Next]_vars, NEW w \in Workers, WorkerStep(w),
           NEW p \in Partitions, RiskPaid(p)
    PROVE  RiskPaid(p)'
<1>1. /\ pc \in [Workers -> Steps] /\ input \in [Partitions -> Seq(Messages)]
      /\ LoopTypeOK(Messages, Steps)
  BY DEF IInv, LoopTypeOK
<1>2. UNCHANGED <<owner, faults>>
  BY DEF WorkerStep, Fetch, Begin, Index, NoFault, Commit, CommitAt,
         DeadLetter, DeadCommit
<1>3. Live' = Live
  BY <1>1
     DEF WorkerStep, Fetch, Begin, Index, Commit, CommitAt, DeadLetter,
         DeadCommit, Goto, Release, Live, Steps
<1>4. CASE Fetch(w)
  <2>1. PICK q \in Partitions : Begin(w, q, "index")
    BY <1>4 DEF Fetch
  <2>2. ~Threatens(w, p)'
    BY <1>1, <2>1 DEF Begin, Threatens, LoopTypeOK
  <2>3. \A v \in Workers \ {w} :
           UNCHANGED <<pc[v], part[v], offset[v], leased[v]>>
    BY <1>1, <2>1 DEF Begin, LoopTypeOK
  <2>4. UNCHANGED <<input, committed, index>>
    BY <1>4, <2>1 DEF Begin, Fetch
  <2>5. Risk(p)' \subseteq Risk(p)
    BY <1>1, <1>3, <2>2, <2>3, <2>4, NothingWritten, UnchangedGrows
  <2>6. QED  BY <1>2, <1>3, <2>5, StayingIsPaid
<1>5. CASE Index(w)
  <2>1. Busy(w)
    BY <1>5, BusyPc DEF Index, Outside
  <2>2. Risk(p)' \subseteq Risk(p)
    BY <1>3, <1>5, <2>1, WritingIsFree DEF Index, Goto
  <2>3. QED  BY <1>2, <1>3, <2>2, StayingIsPaid
<1>6. CASE Commit(w)
  <2>1. Risk(p)' \subseteq Risk(p)
    BY <1>6, CommittingIsPaid DEF Commit, CommitAt
  <2>2. QED  BY <1>2, <1>3, <2>1, StayingIsPaid
<1>7. CASE DeadLetter(w) \/ DeadCommit(w)
  <2>1. /\ pc[w] \in {"dead_letter", "dead_commit"} /\ CommitUnknown(w)
        /\ UNCHANGED <<input, index>>
        /\ Busy(w)' => UNCHANGED <<part[w], offset[w]>>
        /\ \A v \in Workers \ {w} :
              UNCHANGED <<pc[v], part[v], offset[v], leased[v]>>
    BY <1>1, <1>7
       DEF DeadLetter, DeadCommit, CommitAt, CommitUnknown, Goto, Release,
           LoopTypeOK, Busy, Live
  <2>2. Risk(p)' \subseteq Risk(p)
    BY <2>1, BuryingIsPaid
  <2>3. QED  BY <1>2, <1>3, <2>2, StayingIsPaid
<1>8. QED  BY <1>4, <1>5, <1>6, <1>7 DEF WorkerStep

\* What a failure leaves at risk: one transaction more while the replica goes
\* on, none when it goes down.
LEMMA FailuresArePaid ==
    ASSUME IInv, [Next]_vars, NEW w \in Workers, Failure(w) \/ Crash(w),
           UNCHANGED index \/ Failure(w),
           NEW p \in Partitions, RiskPaid(p)
    PROVE  RiskPaid(p)'
<1>1. /\ pc \in [Workers -> Steps] /\ input \in [Partitions -> Seq(Messages)]
      /\ LoopTypeOK(Messages, Steps)
  BY DEF IInv, LoopTypeOK
<1>2. UNCHANGED <<owner, input>> /\ faults' = faults + 1
  BY DEF Failure, IndexRaises, CommitRaises, CommitRaisesAt,
         DeadLetterRaises, DeadCommitRaises, CommitKillsAt, Crash, Fault
<1>3. \A v \in Workers \ {w} :
         UNCHANGED <<pc[v], part[v], offset[v], leased[v]>>
  BY <1>1
     DEF Failure, IndexRaises, CommitRaises, CommitRaisesAt, RetryOrGiveUp,
         DeadLetterRaises, DeadCommitRaises, CommitKillsAt, Crash, Release,
         LoopTypeOK
<1>4. CASE IndexRaises(w) \/ CommitRaises(w)
  <2>1. /\ Busy(w) /\ CommitUnknown(w)
        /\ IndexDocument(w) \/ UNCHANGED index
        /\ UNCHANGED <<part, offset>>
    BY <1>4, BusyPc
       DEF IndexRaises, CommitRaises, CommitRaisesAt, RetryOrGiveUp,
           CommitUnknown, Outside
  <2>2. Live' = Live
    BY <1>1, <1>4
       DEF IndexRaises, CommitRaises, CommitRaisesAt, RetryOrGiveUp, Live
  <2>3. Risk(p)' \subseteq Risk(p) \cup {Message(w).txn}
    BY <1>2, <1>3, <2>1, OnlyItsTransaction
  <2>4. QED  BY <1>2, <2>2, <2>3, StayingIsPaid
<1>5. ASSUME Release(w, "down"), w \in Live, Risk(p)' \subseteq Risk(p)
      PROVE  RiskPaid(p)'
  <2>1. Live' = Live \ {w}
    BY <1>1, <1>5 DEF Release, Live
  <2>2. QED  BY <1>2, <1>5, <2>1, LeavingIsPaid
<1>6. CASE DeadLetterRaises(w) \/ DeadCommitRaises(w)
  <2>1. /\ pc[w] \in {"dead_letter", "dead_commit"} /\ CommitUnknown(w)
        /\ UNCHANGED index /\ Release(w, "down") /\ w \in Live
    BY <1>6
       DEF DeadLetterRaises, DeadCommitRaises, CommitKillsAt, CommitUnknown,
           Live
  <2>2. ~Busy(w)'
    BY <1>1, <2>1 DEF Release, Busy, Live
  <2>3. Risk(p)' \subseteq Risk(p)
    BY <1>2, <1>3, <2>1, <2>2, BuryingIsPaid
  <2>4. QED  BY <1>5, <2>1, <2>3
<1>7. CASE Crash(w) /\ UNCHANGED index
  <2>1. UNCHANGED committed /\ Release(w, "down") /\ w \in Live
    BY <1>1, <1>7 DEF Crash, Live, Steps
  <2>2. ~Threatens(w, p)' /\ \A v \in Workers \ {w} : Live # {v}
    BY <1>1, <2>1 DEF Release, Threatens, Busy, Live
  <2>3. Risk(p)' \subseteq Risk(p)
    BY <1>1, <1>2, <1>3, <1>7, <2>1, <2>2, NothingWritten, UnchangedGrows
  <2>4. QED  BY <1>5, <2>1, <2>3
<1>8. QED  BY <1>4, <1>6, <1>7 DEF Failure

\* Every step keeps the account.
LEMMA RisksPaidStep == IInv /\ RisksPaid /\ [Next]_vars => RisksPaid'
<1> SUFFICES ASSUME IInv, RisksPaid, [Next]_vars, NEW p \in Partitions
             PROVE  RiskPaid(p)'
  BY DEF RisksPaid
<1>1. RiskPaid(p)
  BY DEF RisksPaid
<1>2. CASE UNCHANGED vars \/ \E m \in Messages : Arrive(m)
  <2>1. UNCHANGED <<pc, part, offset, leased, owner, committed, index, faults>>
    BY <1>2 DEF Arrive, groupVars, workerVars, vars, loopVars
  <2>2. Live' = Live
    BY <2>1 DEF Live
  <2>3. Risk(p)' \subseteq Risk(p)
    BY <2>1, <2>2, LoopInvStep, NothingWritten
  <2>4. QED  BY <1>1, <2>1, <2>2, <2>3, StayingIsPaid
<1>3. ASSUME NEW w \in Workers, WorkerStep(w) \/ Failure(w)
      PROVE  RiskPaid(p)'
  BY <1>1, <1>3, WorkerStepsArePaid, FailuresArePaid
<1>4. CASE Group
  <2>1. UNCHANGED index
    BY <1>4 DEF Group
  <2>2. QED
    BY <1>1, <1>4, <2>1, FailuresArePaid, RegroupingIsPaid DEF Group
<1>5. QED  BY <1>2, <1>3, <1>4 DEF Next

\* Nothing is at risk at the start, and nobody is absent.
LEMMA InitRisks == Init => RisksPaid
<1> SUFFICES ASSUME Init, NEW p \in Partitions
             PROVE  RiskPaid(p)
  BY DEF RisksPaid
<1>1. Live = Workers /\ \A w \in Workers : ~Busy(w)
  BY DEF Init, LoopInit, Live, Busy
<1>2. Absent = {} /\ Due(p) = 0
  BY <1>1 DEF Init, LoopInit, Absent, Due
<1>3. \A x : x \notin Risk(p)
  BY <1>1, RiskDef DEF Threatens, Init, LoopInit
<1>4. Risk(p) = {}
  BY <1>3
<1>5. faults = 0 /\ StalePerFailure \in {1, 2}
  BY DEF Init, LoopInit, StalePerFailure
<1>6. QED  BY <1>2, <1>4, <1>5, FS_EmptySet DEF RiskPaid

\* In a partition no more documents are out of date than there were failures,
\* or, with three replicas and more, twice as many.
THEOREM StaleDocumentsCost == SafeSpec => []StaleCostsFailures
<1>1. ASSUME IInv, RisksPaid, NEW p \in Partitions
      PROVE  Cardinality(Stale(p)) <= StalePerFailure * faults
  <2>1. RiskPaid(p)
    BY <1>1 DEF RisksPaid
  <2>2. /\ Cardinality(Risk(p)) \in Nat /\ Cardinality(Stale(p)) \in Nat
        /\ Cardinality(Stale(p)) <= Cardinality(Risk(p))
    <3>1. Stale(p) \subseteq Risk(p) /\ IsFiniteSet(Risk(p))
      BY <1>1, AccountNumbers DEF Risk
    <3>2. QED  BY <3>1, FS_Subset, FS_CardinalityType
  <2>3. QED
    BY <1>1, <2>1, <2>2, AccountNumbers, FailuresPay DEF RiskPaid
<1>2. IInv /\ RisksPaid => StaleCostsFailures
  BY <1>1 DEF StaleCostsFailures
<1>3. Init => IInv /\ RisksPaid
  BY InitIInv, InitRisks
<1>4. IInv /\ RisksPaid /\ [Next]_vars => IInv' /\ RisksPaid'
  BY NextIInv, RisksPaidStep
<1>5. SafeSpec => [](IInv /\ RisksPaid)
  BY <1>3, <1>4, PTL DEF SafeSpec
<1>6. QED  BY <1>2, <1>5, PTL

-----------------------------------------------------------------------------
(* What has been passed.                                                    *)

\* What is settled stays settled and where it was, and a commit passes only
\* what the worker that commits has settled.
LEMMA PassedStep ==
    IInv /\ Promise!PassedIsSettled /\ [Next]_vars => Promise!PassedIsSettled'
<1> SUFFICES ASSUME IInv, Promise!PassedIsSettled, [Next]_vars
             PROVE  Promise!PassedIsSettled'
  OBVIOUS
<1>1. IInv' /\ Grows(input, input') /\ [Promise!Next]_Promise!vars
  <2>1. Grows(input, input')
    BY LoopInvStep DEF IInv
  <2>2. QED  BY <2>1, NextIInv, StepRefines
<1>2. \A p \in Partitions :
         /\ committed[p] \in Nat /\ committed[p] <= Len(input[p])
         /\ committed'[p] \in Nat /\ committed'[p] <= Len(input'[p])
         /\ Len(input[p]) \in Nat /\ Len(input'[p]) \in Nat
         /\ \A i \in 1..Len(input[p]) : input'[p][i] = input[p][i]
  BY <1>1 DEF IInv, LoopTypeOK, Positions, CommittedInLog, Grows
<1>3. \A p \in Partitions : \A i \in 1..committed[p] :
         input[p][i].txn \in Indexed \cup dlq
  <2>1. ASSUME NEW p \in Partitions, NEW i \in 1..committed[p]
        PROVE  input[p][i].txn \in Indexed \cup dlq
    <3>1. i \in 1..Len(input[p])
      BY <1>2
    <3>2. [q \in Partitions |-> [j \in 1..Len(input[q]) |-> input[q][j].txn]][p][i]
              = input[p][i].txn
      BY <3>1
    <3>3. QED  BY <3>2 DEF Promise!PassedIsSettled
  <2>2. QED  BY <2>1
<1>4. Indexed \cup dlq \subseteq Indexed' \cup dlq'
  BY <1>1
     DEF Promise!Next, Promise!vars, Promise!Arrive, Promise!Handle,
         Promise!Bury, Promise!Advance
<1>5. ASSUME NEW p \in Partitions, NEW i \in 1..committed'[p], i > committed[p]
      PROVE  i <= Len(input[p]) /\ input[p][i].txn \in Indexed \cup dlq
  <2>1. committed' # committed
    BY <1>2, <1>5
  <2>2. PICK w \in Workers :
            /\ Busy(w) /\ CommitUnknown(w)
            /\ pc[w] \in {"commit", "dead_commit"}
    BY <2>1, CommitterStands
  <2>3. /\ part[w] \in Partitions /\ committed[part[w]] \in Nat
        /\ offset[w] = committed[part[w]] + 1
        /\ offset[w] <= Len(input[part[w]])
        /\ committed' = [committed EXCEPT ![part[w]] = @ + 1]
    BY <2>1, <2>2, CommitAdvances DEF IInv
  <2>4. p = part[w] /\ i = offset[w]
    BY <1>2, <1>5, <2>3
  <2>5. input[p][i].txn = Message(w).txn
    BY <2>4 DEF Message
  <2>6. Message(w).txn \in Indexed \cup dlq
    BY <2>2 DEF IInv, SettledBeforeCommit
  <2>7. QED  BY <2>3, <2>4, <2>5, <2>6
<1>6. ASSUME NEW p \in Partitions, NEW i \in 1..committed'[p]
      PROVE  input'[p][i].txn \in Indexed' \cup dlq'
  <2>1. i <= Len(input[p]) /\ input[p][i].txn \in Indexed \cup dlq
    BY <1>2, <1>3, <1>5
  <2>2. QED  BY <1>2, <1>4, <2>1
<1>7. QED  BY <1>2, <1>6 DEF Promise!PassedIsSettled

\* Every event whose offset has been passed belongs to a transaction that is in
\* the index or in the dead-letter topic, whatever crashes, retries and
\* reassignments came between.
THEOREM NoEventIsLost == SafeSpec => []Promise!PassedIsSettled
<1>1. Init => Promise!PassedIsSettled
  BY DEF Init, LoopInit, Promise!PassedIsSettled
<1>2. QED  BY <1>1, InitIInv, NextIInv, PassedStep, PTL DEF SafeSpec

=============================================================================
