------------------------- MODULE PaymentServiceProofs -------------------------
(***************************************************************************)
(* Proofs about PaymentService, for any number of replicas, partitions,     *)
(* requests, retries and failures.                                          *)
(***************************************************************************)
EXTENDS PaymentService, ConsumerLoopProofs

-----------------------------------------------------------------------------
(* Lemmas about the data                                                    *)

\* process_transaction copies the request into its result.
LEMMA ResultKeepsRequest ==
    ASSUME NEW r \in Requests
    PROVE  /\ ProcessTransaction(r) \in ProcessedEvents
           /\ ProcessTransaction(r).request = r
<1>1. ProcessTransaction(r).request = r
  <2>1. CASE r.amount <= 0
    BY <2>1 DEF ProcessTransaction, Rejected, Processed
  <2>2. CASE ~(r.amount <= 0)
    BY <2>2 DEF ProcessTransaction, Rejected, Processed
  <2>3. QED  BY <2>1, <2>2
<1>2. QED  BY <1>1 DEF ProcessedEvents

\* Every request has a partition of payment-initiated.
LEMMA RequestIsRouted ==
    ASSUME NEW r \in Requests
    PROVE  PartitionOf[r.txn] \in Partitions
BY PaymentServiceAssumption DEF Txns

\* What a busy worker holds is a request of its partition.
LEMMA MessageType ==
    ASSUME TypeOK, Positions, Routed, NEW w \in Workers, Busy(w)
    PROVE  /\ Message(w) \in Requests
           /\ PartitionOf[Message(w).txn] = part[w]
           /\ part[w] \in Partitions
           /\ offset[w] \in 1..Len(input[part[w]])
<1>1. part[w] \in Partitions /\ offset[w] \in 1..Len(input[part[w]])
  BY DEF TypeOK, Positions, Holds
<1>2. input[part[w]] \in Seq(Requests)
  BY <1>1 DEF TypeOK
<1>3. input[part[w]][offset[w]] \in Requests
  BY <1>1, <1>2
<1>4. PartitionOf[input[part[w]][offset[w]].txn] = part[w]
  BY <1>1 DEF Routed
<1>5. QED  BY <1>1, <1>3, <1>4 DEF Message

-----------------------------------------------------------------------------
(* Types                                                                    *)

\* consume() starts with typed state.
LEMMA InitType == Init => TypeOK
BY AnyPartitionType, ConsumerLoopAssumption
   DEF Init, LoopInit, TypeOK, Steps

\* Every step of the service keeps the types: one case per handler.
LEMMA TypeStep == IInv /\ [Next]_vars => TypeOK'
<1> SUFFICES ASSUME IInv, [Next]_vars
             PROVE  TypeOK'
  OBVIOUS
<1> USE DEF IInv
<1>1. ASSUME NEW r \in Requests, Submit(r)
      PROVE  TypeOK'
  <2>1. PartitionOf[r.txn] \in Partitions
    BY RequestIsRouted
  <2>2. Append(input[PartitionOf[r.txn]], r) \in Seq(Requests)
    BY <2>1 DEF TypeOK
  <2> input' \in [Partitions -> Seq(Requests)]
    BY <1>1, <2>2 DEF Submit, TypeOK
  <2>3. QED  BY <1>1 DEF Submit, TypeOK, groupVars, workerVars
<1>2. ASSUME NEW w \in Workers, NEW p \in Partitions, Begin(w, p, "publish"),
             UNCHANGED <<output, dlq>>
      PROVE  TypeOK'
  <2>0. committed[p] \in Nat
    BY DEF TypeOK
  <2>1. committed[p] + 1 \in Nat
    BY <2>0
  <2>2. offset' \in [Workers -> Nat]
    BY <1>2, <2>1 DEF Begin, TypeOK
  <2>3. pc' \in [Workers -> Steps]
    BY <1>2 DEF Begin, TypeOK, Steps
  <2>4. QED  BY <1>2, <2>2, <2>3 DEF Begin, TypeOK
<1>3. ASSUME NEW w \in Workers, Busy(w), AppendResult(w)
      PROVE  output' \in [Partitions -> Seq(ProcessedEvents)]
  <2>1. Message(w) \in Requests /\ PartitionOf[Message(w).txn] \in Partitions
    BY <1>3, MessageType
  <2>2. ProcessTransaction(Message(w)) \in ProcessedEvents
    BY <2>1, ResultKeepsRequest
  <2>3. output[PartitionOf[Message(w).txn]] \in Seq(ProcessedEvents)
    BY <2>1 DEF TypeOK
  <2>4. Append(output[PartitionOf[Message(w).txn]],
               ProcessTransaction(Message(w))) \in Seq(ProcessedEvents)
    BY <2>2, <2>3
  <2>5. QED  BY <1>3, <2>4 DEF AppendResult, TypeOK
<1>4. ASSUME NEW w \in Workers, Publish(w)
      PROVE  TypeOK'
  <2>1. Busy(w)
    BY <1>4 DEF Publish, Busy, Live
  <2>2. QED  BY <1>3, <1>4, <2>1 DEF Publish, Goto, NoFault, TypeOK, Steps
<1>5. ASSUME NEW w \in Workers, RetryOrGiveUp(w, "publish")
      PROVE  /\ pc' \in [Workers -> Steps]
             /\ attempts' \in [Workers -> Nat]
             /\ UNCHANGED <<part, offset, leased>>
  <2>1. attempts[w] + 1 \in Nat
    BY DEF TypeOK
  <2>2. attempts' \in [Workers -> Nat]
    BY <1>5, <2>1 DEF RetryOrGiveUp, TypeOK
  <2>3. pc' \in [Workers -> Steps]
    BY <1>5 DEF RetryOrGiveUp, TypeOK, Steps
  <2>4. QED  BY <1>5, <2>2, <2>3 DEF RetryOrGiveUp
<1>6. ASSUME Fault
      PROVE  faults' \in 0..MaxFaults
  BY <1>6, ConsumerLoopAssumption DEF Fault, TypeOK
<1>7. ASSUME NEW w \in Workers, PublishRaises(w)
      PROVE  TypeOK'
  <2>1. Busy(w)
    BY <1>7 DEF PublishRaises, Busy, Live
  <2>2. output' \in [Partitions -> Seq(ProcessedEvents)]
    BY <1>3, <1>7, <2>1 DEF PublishRaises, TypeOK
  <2>3. QED  BY <1>5, <1>6, <1>7, <2>2 DEF PublishRaises, TypeOK
<1>8. ASSUME NEW w \in Workers, CommitUnknown(w)
      PROVE  committed' \in [Partitions -> Nat]
  BY <1>8 DEF CommitUnknown, AdvanceOffset, TypeOK
<1>9. ASSUME NEW w \in Workers, NEW step \in {"idle", "down"}, Release(w, step)
      PROVE  /\ pc' \in [Workers -> Steps]
             /\ part' \in [Workers -> Partitions]
             /\ offset' \in [Workers -> Nat]
             /\ attempts' \in [Workers -> Nat]
             /\ leased' \in [Workers -> BOOLEAN]
  BY <1>9, AnyPartitionType DEF Release, TypeOK, Steps
<1>10. ASSUME NEW w \in Workers, NEW step, CommitAt(w, step),
              UNCHANGED <<output, dlq>>
       PROVE  TypeOK'
  BY <1>8, <1>9, <1>10 DEF CommitAt, CommitUnknown, TypeOK
<1>11. ASSUME NEW w \in Workers, CommitRaises(w)
       PROVE  TypeOK'
  BY <1>5, <1>6, <1>8, <1>11 DEF CommitRaises, CommitRaisesAt, TypeOK
<1>12. ASSUME NEW w \in Workers, DeadLetter(w)
       PROVE  TypeOK'
  <2>1. Busy(w)
    BY <1>12 DEF DeadLetter, Busy, Live
  <2>2. QED
    BY <1>12, <2>1, MessageType DEF DeadLetter, Goto, NoFault, TypeOK, Steps
<1>13. ASSUME NEW w \in Workers, DeadLetterRaises(w)
       PROVE  TypeOK'
  <2>1. Busy(w)
    BY <1>13 DEF DeadLetterRaises, Busy, Live
  <2>2. dlq' \subseteq Requests
    <3>1. Message(w) \in Requests
      BY <2>1, MessageType
    <3>2. QED  BY <1>13, <3>1 DEF DeadLetterRaises, TypeOK
  <2>3. QED  BY <1>6, <1>9, <1>13, <2>2 DEF DeadLetterRaises, TypeOK
<1>14. ASSUME NEW w \in Workers, DeadCommitRaises(w)
       PROVE  TypeOK'
  BY <1>6, <1>8, <1>9, <1>14 DEF DeadCommitRaises, CommitKillsAt, TypeOK
<1>15. ASSUME NEW members \in SUBSET Workers, Assign(members)
       PROVE  /\ owner' \in [Partitions -> Workers]
              /\ leased' \in [Workers -> BOOLEAN]
  BY <1>15 DEF Assign
<1>16. ASSUME Environment
       PROVE  TypeOK'
  <2>1. Live \subseteq Workers
    BY DEF Live
  <2>2. ASSUME NEW w \in Workers, Crash(w), UNCHANGED <<output, dlq>>
        PROVE  TypeOK'
    BY <1>6, <1>9, <2>2 DEF Crash, TypeOK
  <2>3. ASSUME NEW w \in Workers, Restart(w), UNCHANGED <<output, dlq>>
        PROVE  TypeOK'
    BY <1>15, <2>1, <2>3 DEF Restart, TypeOK, Steps
  <2>4. ASSUME Rebalance, UNCHANGED <<output, dlq>>
        PROVE  TypeOK'
    BY <1>6, <1>15, <2>1, <2>4 DEF Rebalance, workerVars, TypeOK
  <2>5. ASSUME Takeover, UNCHANGED <<output, dlq>>
        PROVE  TypeOK'
    BY <1>15, <2>1, <2>5 DEF Takeover, workerVars, TypeOK
  <2>6. QED  BY <1>16, <2>2, <2>3, <2>4, <2>5 DEF Environment
<1>17. CASE UNCHANGED vars
  BY <1>17 DEF vars, loopVars, groupVars, workerVars, TypeOK
<1>18. QED
  BY <1>1, <1>2, <1>4, <1>7, <1>10, <1>11, <1>12, <1>13, <1>14, <1>16, <1>17
     DEF Next, WorkerStep, Failure, Fetch, Commit, DeadCommit

-----------------------------------------------------------------------------
(* Every step is one of the kinds of step of the shared loop.               *)

\* The typing the lemmas about the loop ask for.
LEMMA LoopTypes == ASSUME TypeOK PROVE LoopTypeOK(Requests, Steps)
BY DEF TypeOK, LoopTypeOK

Arrival == \E r \in Requests : Submit(r)

Fetching == \E w \in Workers, p \in Partitions : Begin(w, p, "publish")

BodySteps == {"publish", "commit", "dead_letter", "dead_commit"}

Keeping == \E w \in Workers, step \in BodySteps : Keeps(w, step)

Dropping == \E w \in Workers, step \in {"idle", "down"} : Drops(w, step)

\* Every step is one of the five kinds the loop lemmas are about.
LEMMA StepKinds ==
    ASSUME Next
    PROVE  Arrival \/ Fetching \/ Keeping \/ Dropping \/ Regroups
<1>1. ASSUME NEW w \in Workers, RetryOrGiveUp(w, "publish"), Busy(w),
             CommitUnknown(w), UNCHANGED <<input, owner>>
      PROVE  Keeping
  BY <1>1 DEF RetryOrGiveUp, Keeping, Keeps, BodySteps
<1>2. ASSUME NEW w \in Workers, Publish(w)
      PROVE  Keeping
  <2>1. Keeps(w, "commit")
    BY <1>2 DEF Publish, Goto, Keeps, Busy, Live, CommitUnknown
  <2>2. QED  BY <2>1 DEF Keeping, BodySteps
<1>3. ASSUME NEW w \in Workers, PublishRaises(w)
      PROVE  Keeping
  BY <1>1, <1>3 DEF PublishRaises, Busy, Live, CommitUnknown
<1>4. ASSUME NEW w \in Workers, NEW step \in {"commit", "dead_commit"},
             CommitAt(w, step)
      PROVE  Dropping
  <2>1. Drops(w, "idle")
    BY <1>4 DEF CommitAt, Drops, Busy, Live, CommitUnknown
  <2>2. QED  BY <2>1 DEF Dropping
<1>5. ASSUME NEW w \in Workers, CommitRaises(w)
      PROVE  Keeping
  BY <1>1, <1>5 DEF CommitRaises, CommitRaisesAt, Busy, Live
<1>6. ASSUME NEW w \in Workers, DeadLetter(w)
      PROVE  Keeping
  <2>1. Keeps(w, "dead_commit")
    BY <1>6 DEF DeadLetter, Goto, Keeps, Busy, Live, CommitUnknown
  <2>2. QED  BY <2>1 DEF Keeping, BodySteps
<1>7. ASSUME NEW w \in Workers, DeadLetterRaises(w) \/ Crash(w)
      PROVE  Dropping
  <2>1. Drops(w, "down")
    BY <1>7 DEF DeadLetterRaises, Crash, Drops
  <2>2. QED  BY <2>1 DEF Dropping
<1>8. ASSUME NEW w \in Workers, DeadCommitRaises(w)
      PROVE  Dropping
  <2>1. Drops(w, "down")
    BY <1>8 DEF DeadCommitRaises, CommitKillsAt, Drops, Busy, Live
  <2>2. QED  BY <2>1 DEF Dropping
<1>9. ASSUME Rebalance \/ Takeover \/ \E w \in Workers : Restart(w)
      PROVE  Regroups
  BY <1>9 DEF Rebalance, Takeover, Restart, Regroups, Assign, workerVars
<1>10. QED
  BY <1>2, <1>3, <1>4, <1>5, <1>6, <1>7, <1>8, <1>9
     DEF Next, WorkerStep, Failure, Environment, Fetch, Commit, DeadCommit,
         Arrival, Fetching

-----------------------------------------------------------------------------
(* Positions, routing and the growth of the topics                          *)

\* No step of a worker, a broker or the group displaces a worker.
LEMMA PositionsStep == IInv /\ [Next]_vars => Positions'
<1> SUFFICES ASSUME IInv, [Next]_vars
             PROVE  Positions'
  OBVIOUS
<1>1. LoopTypeOK(Requests, Steps) /\ Positions
  BY LoopTypes DEF IInv
<1>2. CASE Arrival
  <2>1. PICK r \in Requests : Submit(r)
    BY <1>2 DEF Arrival
  <2>2. QED
    BY <1>1, <2>1, RequestIsRouted, ArrivalKeepsPositions
       DEF Submit, groupVars, workerVars
<1>3. CASE Fetching
  BY <1>1, <1>3, BeginKeepsPositions DEF Fetching, Outside
<1>4. CASE Keeping
  BY <1>1, <1>4, KeepsKeepsPositions DEF Keeping, BodySteps, Outside
<1>5. CASE Dropping
  BY <1>1, <1>5, DropsKeepsPositions DEF Dropping, Outside
<1>6. CASE Regroups
  BY <1>1, <1>6, RegroupsKeepsPositions
<1>7. CASE UNCHANGED vars
  BY <1>1, <1>7
     DEF vars, loopVars, groupVars, workerVars, Positions, CommittedInLog,
         Holds, Covers, Busy, Live
<1>8. QED  BY <1>2, <1>3, <1>4, <1>5, <1>6, <1>7, StepKinds

\* Nothing is ever removed from a topic.
LEMMA TopicsGrow ==
    ASSUME IInv, [Next]_vars
    PROVE  /\ Grows(input, input')
           /\ Grows(output, output')
           /\ dlq \subseteq dlq'
<1>1. /\ input \in [Partitions -> Seq(Requests)]
      /\ output \in [Partitions -> Seq(ProcessedEvents)]
  BY DEF IInv, TypeOK
<1>2. ASSUME NEW r \in Requests, Submit(r)
      PROVE  Grows(input, input') /\ UNCHANGED <<output, dlq>>
  BY <1>1, <1>2, RequestIsRouted, OneAppendGrows DEF Submit
<1>3. ASSUME NEW w \in Workers, Busy(w), AppendResult(w)
      PROVE  Grows(output, output')
  <2>1. /\ PartitionOf[Message(w).txn] \in Partitions
        /\ ProcessTransaction(Message(w)) \in ProcessedEvents
    BY <1>3, MessageType, ResultKeepsRequest DEF IInv
  <2>2. QED  BY <1>1, <1>3, <2>1, OneAppendGrows DEF AppendResult
<1>4. ASSUME NEW w \in Workers, Publish(w) \/ PublishRaises(w)
      PROVE  Grows(output, output') /\ UNCHANGED <<input, dlq>>
  <2>1. Busy(w)
    BY <1>4 DEF Publish, PublishRaises, Busy, Live
  <2>2. QED
    BY <1>1, <1>3, <1>4, <2>1, UnchangedGrows DEF Publish, PublishRaises
<1>5. ASSUME NEW w \in Workers, DeadLetter(w) \/ DeadLetterRaises(w)
      PROVE  dlq \subseteq dlq' /\ UNCHANGED <<input, output>>
  BY <1>5 DEF DeadLetter, DeadLetterRaises
<1>6. ASSUME NEW w \in Workers,
             \/ Fetch(w) \/ Commit(w) \/ DeadCommit(w)
             \/ CommitRaises(w) \/ DeadCommitRaises(w)
      PROVE  UNCHANGED <<input, output, dlq>>
  BY <1>6
     DEF Fetch, Begin, Commit, DeadCommit, CommitAt, CommitRaises,
         CommitRaisesAt, DeadCommitRaises, CommitKillsAt
<1>7. Environment => UNCHANGED <<input, output, dlq>>
  BY DEF Environment, Crash, Restart, Rebalance, Takeover
<1>8. CASE UNCHANGED vars
  BY <1>1, <1>8, UnchangedGrows DEF vars, loopVars
<1>9. CASE UNCHANGED <<input, output, dlq>>
  BY <1>1, <1>9, UnchangedGrows
<1>10. CASE Next
  BY <1>1, <1>2, <1>4, <1>5, <1>6, <1>7, <1>9, <1>10, UnchangedGrows
     DEF Next, WorkerStep, Failure
<1>11. QED  BY <1>8, <1>10

\* Requests stay in the partition of their txn_id.
LEMMA RoutedStep == IInv /\ [Next]_vars => Routed'
<1> SUFFICES ASSUME IInv, [Next]_vars
             PROVE  Routed'
  OBVIOUS
<1>1. input \in [Partitions -> Seq(Requests)] /\ Routed
  BY DEF IInv, TypeOK
<1>2. ASSUME NEW r \in Requests, Submit(r)
      PROVE  Routed'
  <2>1. ASSUME NEW p \in Partitions, NEW i \in 1..Len(input'[p])
        PROVE  PartitionOf[input'[p][i].txn] = p
    <3>1. CASE p # PartitionOf[r.txn]
      <4>1. input'[p] = input[p]
        BY <1>1, <1>2, <3>1 DEF Submit
      <4>2. QED  BY <1>1, <2>1, <4>1 DEF Routed
    <3>2. CASE p = PartitionOf[r.txn]
      <4>1. input'[p] = Append(input[p], r)
        BY <1>1, <1>2, <3>2 DEF Submit
      <4>2. CASE i \in 1..Len(input[p])
        BY <1>1, <4>1, <4>2, AppendKeeps DEF Routed
      <4>3. CASE i = Len(input[p]) + 1
        BY <1>1, <3>2, <4>1, <4>3, AppendKeeps
      <4>4. QED  BY <1>1, <2>1, <4>1, <4>2, <4>3, AppendKeeps
    <3>3. QED  BY <3>1, <3>2
  <2>2. QED  BY <2>1 DEF Routed
<1>3. UNCHANGED input => Routed'
  BY <1>1 DEF Routed
<1>4. CASE Arrival
  BY <1>2, <1>4 DEF Arrival
<1>5. CASE UNCHANGED vars \/ Fetching \/ Keeping \/ Dropping \/ Regroups
  BY <1>3, <1>5
     DEF vars, loopVars, Fetching, Begin, Keeping, Keeps, Dropping, Drops,
         Regroups
<1>6. QED  BY <1>4, <1>5, StepKinds

-----------------------------------------------------------------------------
(* Nothing is passed before it is safe                                      *)

\* An offset moves only for a worker that stands at a commit.
LEMMA OnlyCommitsAdvance ==
    ASSUME IInv, [Next]_vars, NEW p \in Partitions,
           committed'[p] # committed[p]
    PROVE  \E w \in Workers :
               /\ pc[w] \in {"commit", "dead_commit"}
               /\ part[w] = p
               /\ committed'[p] = offset[w]
               /\ offset[w] = committed[p] + 1
<1>1. ASSUME NEW w \in Workers, pc[w] \in {"commit", "dead_commit"},
             CommitUnknown(w)
      PROVE  /\ part[w] = p
             /\ committed'[p] = offset[w]
             /\ offset[w] = committed[p] + 1
  <2>1. Busy(w)
    BY <1>1 DEF Busy, Live
  <2>2. LoopTypeOK(Requests, Steps) /\ Positions
    BY LoopTypes DEF IInv
  <2>3. QED  BY <1>1, <2>1, <2>2, CommitFacts
<1>2. ASSUME NEW w \in Workers,
             \/ Commit(w) \/ DeadCommit(w)
             \/ CommitRaises(w) \/ DeadCommitRaises(w)
      PROVE  pc[w] \in {"commit", "dead_commit"} /\ CommitUnknown(w)
  BY <1>2
     DEF Commit, DeadCommit, CommitAt, CommitRaises, CommitRaisesAt,
         DeadCommitRaises, CommitKillsAt, CommitUnknown
<1>3. ASSUME NEW w \in Workers,
             \/ Fetch(w) \/ Publish(w) \/ PublishRaises(w)
             \/ DeadLetter(w) \/ DeadLetterRaises(w)
      PROVE  FALSE
  BY <1>3
     DEF Fetch, Begin, Publish, PublishRaises, DeadLetter, DeadLetterRaises
<1>4. ASSUME Environment \/ UNCHANGED vars \/ \E r \in Requests : Submit(r)
      PROVE  FALSE
  BY <1>4
     DEF Environment, Crash, Restart, Rebalance, Takeover, vars, loopVars,
         groupVars, Submit
<1>5. PICK w \in Workers :
          \/ Commit(w) \/ DeadCommit(w)
          \/ CommitRaises(w) \/ DeadCommitRaises(w)
  BY <1>3, <1>4 DEF Next, WorkerStep, Failure
<1>6. QED  BY <1>1, <1>2, <1>5

\* A worker reaches commit() only after its publish or its dead letter.
LEMMA SettledBeforeCommitStep == IInv /\ [Next]_vars => SettledBeforeCommit'
<1> SUFFICES ASSUME IInv, [Next]_vars
             PROVE  SettledBeforeCommit'
  OBVIOUS
<1>1. /\ TypeOK /\ Positions /\ Routed /\ SettledBeforeCommit
      /\ LoopTypeOK(Requests, Steps)
  BY LoopTypes DEF IInv
<1>2. Grows(input, input') /\ Grows(output, output') /\ dlq \subseteq dlq'
  BY TopicsGrow
\* A worker that was at its commit before the step, with the same message.
<1>3. ASSUME NEW w \in Workers, pc[w] \in {"commit", "dead_commit"},
             pc'[w] = pc[w], part'[w] = part[w], offset'[w] = offset[w]
      PROVE  /\ Message(w)' = Message(w)
             /\ pc[w] = "commit" =>
                   \E j \in 1..Len(output'[part[w]]) :
                       output'[part[w]][j].request = Message(w)
             /\ pc[w] = "dead_commit" => Message(w) \in dlq'
  <2>1. Busy(w)
    BY <1>3 DEF Busy, Live
  <2>2. part[w] \in Partitions /\ offset[w] \in 1..Len(input[part[w]])
    BY <1>1, <2>1, MessageType
  <2>3. Message(w)' = Message(w)
    BY <1>2, <1>3, <2>2 DEF Grows, Message
  <2>4. CASE pc[w] = "commit"
    <3>1. PICK j \in 1..Len(output[part[w]]) :
              output[part[w]][j].request = Message(w)
      BY <1>1, <2>4 DEF SettledBeforeCommit
    <3>2. /\ j \in 1..Len(output'[part[w]])
          /\ output'[part[w]][j] = output[part[w]][j]
      BY <1>2, <2>2 DEF Grows
    <3>3. QED  BY <2>3, <2>4, <3>1, <3>2
  <2>5. CASE pc[w] = "dead_commit"
    BY <1>1, <1>2, <2>3, <2>5 DEF SettledBeforeCommit
  <2>6. QED  BY <1>3, <2>4, <2>5
<1>4. ASSUME NEW w \in Workers, Publish(w)
      PROVE  \E j \in 1..Len(output'[part'[w]]) :
                 output'[part'[w]][j].request = Message(w)'
  <2>1. Busy(w)
    BY <1>4 DEF Publish, Busy, Live
  <2>2. /\ Message(w) \in Requests
        /\ PartitionOf[Message(w).txn] = part[w]
        /\ part[w] \in Partitions
    BY <1>1, <2>1, MessageType
  <2>3. /\ Message(w)' = Message(w) /\ part'[w] = part[w]
    BY <1>4 DEF Publish, Goto, Message
  <2>4. /\ output[part[w]] \in Seq(ProcessedEvents)
        /\ ProcessTransaction(Message(w)) \in ProcessedEvents
        /\ ProcessTransaction(Message(w)).request = Message(w)
    BY <1>1, <2>2, ResultKeepsRequest DEF TypeOK
  <2>5. output'[part[w]] =
            Append(output[part[w]], ProcessTransaction(Message(w)))
    BY <1>1, <1>4, <2>2 DEF Publish, AppendResult, TypeOK
  <2>6. /\ Len(output[part[w]]) + 1 \in 1..Len(output'[part[w]])
        /\ output'[part[w]][Len(output[part[w]]) + 1] =
               ProcessTransaction(Message(w))
    BY <2>4, <2>5, AppendKeeps
  <2>7. QED  BY <2>3, <2>4, <2>6
<1>5. ASSUME NEW w \in Workers, DeadLetter(w)
      PROVE  Message(w)' \in dlq'
  BY <1>5 DEF DeadLetter, Goto, Message
\* Who is at a commit after the step was there before, or just got there.
<1>6. ASSUME NEW w \in Workers, pc'[w] \in {"commit", "dead_commit"}
      PROVE  \/ /\ pc'[w] = pc[w] /\ part'[w] = part[w]
                /\ offset'[w] = offset[w]
             \/ Publish(w) /\ pc'[w] = "commit"
             \/ DeadLetter(w) /\ pc'[w] = "dead_commit"
  <2> DEFINE Here == \/ /\ pc'[w] = pc[w] /\ part'[w] = part[w]
                        /\ offset'[w] = offset[w]
                     \/ Publish(w) /\ pc'[w] = "commit"
                     \/ DeadLetter(w) /\ pc'[w] = "dead_commit"
  <2>1. ASSUME NEW v \in Workers, NEW step \in {"idle", "down"},
               Release(v, step)
        PROVE  Here
    BY <1>1, <1>6, <2>1 DEF Release, TypeOK
  <2>2. ASSUME NEW v \in Workers, RetryOrGiveUp(v, "publish")
        PROVE  Here
    BY <1>1, <1>6, <2>2 DEF RetryOrGiveUp, TypeOK
  <2>3. ASSUME NEW v \in Workers, Publish(v) \/ DeadLetter(v)
        PROVE  Here
    BY <1>1, <1>6, <2>3 DEF Publish, DeadLetter, Goto, TypeOK
  <2>4. ASSUME NEW v \in Workers, Fetch(v)
        PROVE  Here
    BY <1>1, <1>6, <2>4 DEF Fetch, Begin, TypeOK
  <2>5. ASSUME NEW v \in Workers,
               \/ Commit(v) \/ DeadCommit(v) \/ DeadLetterRaises(v)
               \/ DeadCommitRaises(v) \/ Crash(v)
        PROVE  Here
    BY <2>1, <2>5
       DEF Commit, DeadCommit, CommitAt, DeadLetterRaises, DeadCommitRaises,
           CommitKillsAt, Crash
  <2>6. ASSUME NEW v \in Workers, PublishRaises(v) \/ CommitRaises(v)
        PROVE  Here
    BY <2>2, <2>6 DEF PublishRaises, CommitRaises, CommitRaisesAt
  <2>7. ASSUME NEW v \in Workers, Restart(v)
        PROVE  Here
    BY <1>1, <1>6, <2>7 DEF Restart, TypeOK
  <2>8. ASSUME \/ Rebalance \/ Takeover \/ UNCHANGED vars
               \/ \E r \in Requests : Submit(r)
        PROVE  Here
    BY <2>8 DEF Rebalance, Takeover, vars, loopVars, workerVars, Submit
  <2>9. QED
    BY <2>3, <2>4, <2>5, <2>6, <2>7, <2>8
       DEF Next, WorkerStep, Failure, Environment
<1>7. QED  BY <1>3, <1>4, <1>5, <1>6 DEF SettledBeforeCommit

\* An offset is passed by a worker at its commit, hence settled.
LEMMA CommittedIsSettledStep == IInv /\ [Next]_vars => CommittedIsSettled'
<1> SUFFICES ASSUME IInv, [Next]_vars,
                    NEW p \in Partitions, NEW i \in 1..committed'[p]
             PROVE  Settled(p, i)'
  BY DEF CommittedIsSettled
<1>1. /\ TypeOK /\ Positions /\ Routed /\ SettledBeforeCommit
      /\ CommittedIsSettled /\ CommittedInLog
  BY DEF IInv, Positions
<1>2. Grows(input, input') /\ Grows(output, output') /\ dlq \subseteq dlq'
  BY TopicsGrow
<1>3. committed[p] \in Nat /\ Len(input[p]) \in Nat
  BY <1>1 DEF TypeOK
<1>4. i \in 1..Len(input[p]) /\ Settled(p, i)
  <2>1. CASE i \in 1..committed[p]
    <3>1. committed[p] <= Len(input[p])
      BY <1>1 DEF CommittedInLog
    <3>2. QED  BY <1>1, <1>3, <2>1, <3>1 DEF CommittedIsSettled
  <2>2. CASE i \notin 1..committed[p]
    <3>1. PICK w \in Workers :
              /\ pc[w] \in {"commit", "dead_commit"}
              /\ part[w] = p
              /\ committed'[p] = offset[w]
              /\ offset[w] = committed[p] + 1
      BY <2>2, OnlyCommitsAdvance
    <3>2. Busy(w)
      BY <3>1 DEF Busy, Live
    <3>3. i = offset[w]
      BY <1>3, <2>2, <3>1
    <3>4. offset[w] \in 1..Len(input[p])
      BY <1>1, <3>1, <3>2, MessageType
    <3>5. Settled(p, offset[w])
      BY <1>1, <3>1 DEF SettledBeforeCommit, Settled, Message
    <3>6. QED  BY <3>3, <3>4, <3>5
  <2>3. QED  BY <2>1, <2>2
<1>5. input'[p][i] = input[p][i]
  BY <1>2, <1>4 DEF Grows
<1>6. CASE input[p][i] \in dlq
  BY <1>2, <1>5, <1>6 DEF Settled
<1>7. CASE \E j \in 1..Len(output[p]) : output[p][j].request = input[p][i]
  <2>1. PICK j \in 1..Len(output[p]) : output[p][j].request = input[p][i]
    BY <1>7
  <2>2. j \in 1..Len(output'[p]) /\ output'[p][j] = output[p][j]
    BY <1>2 DEF Grows
  <2>3. QED  BY <1>5, <2>1, <2>2 DEF Settled
<1>8. QED  BY <1>4, <1>6, <1>7 DEF Settled

\* A result that is new in a step is the result of a busy worker's message.
LEMMA NewResults ==
    ASSUME IInv, [Next]_vars, NEW p \in Partitions,
           NEW j \in 1..Len(output'[p]), j \notin 1..Len(output[p])
    PROVE  \E w \in Workers :
               /\ Busy(w) /\ part[w] = p
               /\ output'[p][j].request = Message(w)
               /\ UNCHANGED <<input, committed>>
<1>1. TypeOK /\ Positions /\ Routed
  BY DEF IInv
<1>2. output # output'
  OBVIOUS
<1>3. ASSUME NEW w \in Workers,
             \/ Fetch(w) \/ Commit(w) \/ DeadCommit(w) \/ DeadLetter(w)
             \/ CommitRaises(w) \/ DeadCommitRaises(w) \/ DeadLetterRaises(w)
      PROVE  FALSE
  BY <1>2, <1>3
     DEF Fetch, Commit, DeadCommit, CommitRaises, DeadCommitRaises,
         DeadLetter, DeadLetterRaises
<1>4. ~Environment /\ ~UNCHANGED vars /\ ~ \E r \in Requests : Submit(r)
  BY <1>2 DEF Environment, vars, Submit
<1>5. PICK w \in Workers : Publish(w) \/ PublishRaises(w)
  BY <1>3, <1>4 DEF Next, WorkerStep, Failure
<1>6. Busy(w) /\ AppendResult(w) /\ UNCHANGED <<input, committed>>
  BY <1>2, <1>5 DEF Publish, PublishRaises, Busy, Live
<1>7. /\ Message(w) \in Requests
      /\ PartitionOf[Message(w).txn] = part[w]
      /\ part[w] \in Partitions
  BY <1>1, <1>6, MessageType
<1>8. /\ ProcessTransaction(Message(w)) \in ProcessedEvents
      /\ ProcessTransaction(Message(w)).request = Message(w)
  BY <1>7, ResultKeepsRequest
<1>9. output[p] \in Seq(ProcessedEvents)
  BY <1>1 DEF TypeOK
<1>10. output' = [output EXCEPT ![part[w]] =
                     Append(@, ProcessTransaction(Message(w)))]
  BY <1>6, <1>7 DEF AppendResult
<1>11. p = part[w]
  BY <1>1, <1>7, <1>10 DEF TypeOK
<1>12. output'[p] = Append(output[p], ProcessTransaction(Message(w)))
  BY <1>1, <1>10, <1>11 DEF TypeOK
<1>13. j = Len(output[p]) + 1
  BY <1>8, <1>9, <1>12, AppendKeeps
<1>14. QED  BY <1>6, <1>8, <1>9, <1>11, <1>12, <1>13, AppendKeeps

\* A new result is for a message its worker holds, hence within reach.
LEMMA NoOvertakingStep == IInv /\ [Next]_vars => NoOvertaking'
<1> SUFFICES ASSUME IInv, [Next]_vars,
                    NEW p \in Partitions, NEW j \in 1..Len(output'[p])
             PROVE  \E i \in 1..Len(input'[p]) :
                        /\ i <= committed'[p] + 1
                        /\ input'[p][i] = output'[p][j].request
  BY DEF NoOvertaking
<1>1. /\ TypeOK /\ Positions /\ Routed /\ NoOvertaking
      /\ LoopTypeOK(Requests, Steps)
  BY LoopTypes DEF IInv
<1>2. Grows(input, input') /\ Grows(output, output')
  BY TopicsGrow
<1>3. CASE j \in 1..Len(output[p])
  <2>1. PICK i \in 1..Len(input[p]) :
            i <= committed[p] + 1 /\ input[p][i] = output[p][j].request
    BY <1>1, <1>3 DEF NoOvertaking
  <2>2. i \in 1..Len(input'[p]) /\ input'[p][i] = input[p][i]
    BY <1>2 DEF Grows
  <2>3. output'[p][j] = output[p][j]
    BY <1>2, <1>3 DEF Grows
  <2>4. committed[p] \in Nat
    BY <1>1 DEF TypeOK
  <2>5. i <= committed'[p] + 1
    <3>1. CASE committed'[p] = committed[p]
      BY <2>1, <3>1
    <3>2. CASE committed'[p] # committed[p]
      <4>1. committed'[p] = committed[p] + 1
        BY <3>2, OnlyCommitsAdvance
      <4>2. QED  BY <2>1, <2>4, <4>1
    <3>3. QED  BY <3>1, <3>2
  <2>6. QED  BY <2>1, <2>2, <2>3, <2>5
<1>4. CASE j \notin 1..Len(output[p])
  <2>1. PICK w \in Workers :
            /\ Busy(w) /\ part[w] = p
            /\ output'[p][j].request = Message(w)
            /\ UNCHANGED <<input, committed>>
    BY <1>4, NewResults
  <2>2. /\ offset[w] \in 1..Len(input[p])
        /\ offset[w] <= committed[p] + 1
    BY <1>1, <2>1, MessageType, HoldsFacts
  <2>3. QED  BY <2>1, <2>2 DEF Message
<1>5. QED  BY <1>3, <1>4

-----------------------------------------------------------------------------
(* The theorems                                                             *)

\* consume() starts with the invariant.
LEMMA InitIInv == Init => IInv
<1> SUFFICES ASSUME Init
             PROVE  IInv
  OBVIOUS
<1>1. TypeOK
  BY InitType
<1>2. /\ \A p \in Partitions : /\ input[p] = <<>> /\ output[p] = <<>>
                               /\ committed[p] = 0
      /\ \A w \in Workers : pc[w] = "idle" /\ leased[w] = FALSE
  BY DEF Init, LoopInit
<1>3. Positions
  BY <1>2 DEF Positions, CommittedInLog, Busy, Live
<1>4. Routed /\ SettledBeforeCommit /\ CommittedIsSettled /\ NoOvertaking
  BY <1>2 DEF Routed, SettledBeforeCommit, CommittedIsSettled, NoOvertaking
<1>5. QED  BY <1>1, <1>3, <1>4 DEF IInv

\* The inductive invariant of the service holds in every reachable state, for
\* any replicas, partitions, requests, retries and failures.
THEOREM Invariance == SafeSpec => []IInv
<1>1. Init => IInv
  BY InitIInv
<1>2. IInv /\ [Next]_vars => IInv'
  BY TypeStep, PositionsStep, RoutedStep, SettledBeforeCommitStep,
     CommittedIsSettledStep, NoOvertakingStep
     DEF IInv
<1>3. QED  BY <1>1, <1>2, PTL DEF SafeSpec

\* Types are kept: in particular a worker always finds a request behind the
\* offset it holds, whatever the group did meanwhile.
THEOREM TypeCorrect == SafeSpec => []TypeOK
<1>1. IInv => TypeOK
  BY DEF IInv
<1>2. QED  BY <1>1, Invariance, PTL

\* No payment is lost: what consumer.commit() has passed is in
\* payment-processed or in payment-processed-dlq.
THEOREM NoPaymentIsLost == SafeSpec => []CommittedIsSettled
<1>1. IInv => CommittedIsSettled
  BY DEF IInv
<1>2. QED  BY <1>1, Invariance, PTL

\* No result runs ahead of the partition its request is in.
THEOREM ResultsStayBehind == SafeSpec => []NoOvertaking
<1>1. IInv => NoOvertaking
  BY DEF IInv
<1>2. QED  BY <1>1, Invariance, PTL

-----------------------------------------------------------------------------
(* The service implements AtLeastOnce                                       *)

\* Publishing w's message makes it handled, and nothing else.
LEMMA PublishingHandles ==
    ASSUME IInv, NEW w \in Workers, Busy(w), AppendResult(w)
    PROVE  Handled' = Handled \cup {Message(w)}
<1>1. /\ Message(w) \in Requests
      /\ PartitionOf[Message(w).txn] = part[w]
      /\ part[w] \in Partitions
  BY MessageType DEF IInv
<1>2. /\ output \in [Partitions -> Seq(ProcessedEvents)]
      /\ output[part[w]] \in Seq(ProcessedEvents)
      /\ ProcessTransaction(Message(w)) \in ProcessedEvents
      /\ ProcessTransaction(Message(w)).request = Message(w)
  BY <1>1, ResultKeepsRequest DEF IInv, TypeOK
<1>3. output' = [output EXCEPT ![part[w]] =
                    Append(@, ProcessTransaction(Message(w)))]
  BY <1>1 DEF AppendResult
<1>4. output'[part[w]] =
          Append(output[part[w]], ProcessTransaction(Message(w)))
  BY <1>1, <1>2, <1>3
<1>5. /\ Len(output'[part[w]]) = Len(output[part[w]]) + 1
      /\ Len(output[part[w]]) \in Nat
      /\ output'[part[w]][Len(output[part[w]]) + 1].request = Message(w)
      /\ \A j \in 1..Len(output[part[w]]) :
            output'[part[w]][j] = output[part[w]][j]
  BY <1>2, <1>4, AppendKeeps
<1>6. ASSUME NEW r \in Handled
      PROVE  r \in Handled'
  <2>1. PICK p \in Partitions : \E j \in 1..Len(output[p]) :
            output[p][j].request = r
    BY <1>6 DEF Handled
  <2>2. CASE p # part[w]
    <3>1. output'[p] = output[p]
      BY <1>2, <1>3, <2>2
    <3>2. QED  BY <1>6, <2>1, <3>1 DEF Handled
  <2>3. CASE p = part[w]
    <3>1. PICK j \in 1..Len(output[p]) : output[p][j].request = r
      BY <2>1
    <3>2. j \in 1..Len(output'[p]) /\ output'[p][j].request = r
      BY <1>5, <2>3, <3>1
    <3>3. QED  BY <1>6, <3>2 DEF Handled
  <2>4. QED  BY <2>2, <2>3
<1>7. Message(w) \in Handled'
  <2>1. Len(output[part[w]]) + 1 \in 1..Len(output'[part[w]])
    BY <1>5
  <2>2. QED  BY <1>1, <1>5, <2>1 DEF Handled
<1>8. ASSUME NEW r \in Handled', r # Message(w)
      PROVE  r \in Handled
  <2>1. PICK p \in Partitions : \E j \in 1..Len(output'[p]) :
            output'[p][j].request = r
    BY <1>8 DEF Handled
  <2>2. CASE p # part[w]
    <3>1. output'[p] = output[p]
      BY <1>2, <1>3, <2>2
    <3>2. QED  BY <1>8, <2>1, <3>1 DEF Handled
  <2>3. CASE p = part[w]
    <3>1. PICK j \in 1..Len(output'[p]) : output'[p][j].request = r
      BY <2>1
    <3>2. j \in 1..Len(output[p]) /\ output[p][j].request = r
      BY <1>5, <1>8, <2>3, <3>1
    <3>3. QED  BY <1>8, <3>2 DEF Handled
  <2>4. QED  BY <2>2, <2>3
<1>9. QED  BY <1>6, <1>7, <1>8

\* The service starts where the promise starts.
LEMMA InitRefines == Init => Promise!Init
BY DEF Init, LoopInit, Promise!Init, Handled

\* Every step of the service is one the promise allows, or a stutter.
LEMMA StepRefines == IInv /\ [Next]_vars => [Promise!Next]_Promise!vars
<1> SUFFICES ASSUME IInv, [Next]_vars
             PROVE  Promise!Next \/ UNCHANGED Promise!vars
  BY DEF Promise!vars
<1>1. /\ TypeOK /\ Positions /\ Routed /\ SettledBeforeCommit
      /\ LoopTypeOK(Requests, Steps)
  BY LoopTypes DEF IInv
<1> DEFINE Stutters == UNCHANGED <<input, committed, output, dlq>>
<1>2. Stutters => UNCHANGED Promise!vars
  BY DEF Promise!vars, Handled
<1>3. ASSUME NEW r \in Requests, Submit(r)
      PROVE  Promise!Next
  <2>1. PartitionOf[r.txn] \in Partitions
    BY RequestIsRouted
  <2>2. Promise!Arrive(PartitionOf[r.txn], r)
    BY <1>3 DEF Submit, groupVars, Handled, Promise!Arrive
  <2>3. QED  BY <2>1, <2>2 DEF Promise!Next
\* The message in a worker's hands is one the promise allows to touch.
<1>4. ASSUME NEW w \in Workers, Busy(w)
      PROVE  /\ part[w] \in Partitions
             /\ offset[w] \in Promise!Reached(part[w])
             /\ Message(w) = input[part[w]][offset[w]]
  BY <1>1, <1>4, MessageType, HoldsFacts DEF Promise!Reached, Message
<1>5. ASSUME NEW w \in Workers, Publish(w) \/ PublishRaises(w)
      PROVE  Promise!Next \/ Stutters
  <2>1. Busy(w)
    BY <1>5 DEF Publish, PublishRaises, Busy, Live
  <2>2. UNCHANGED <<input, committed, dlq>>
    BY <1>5 DEF Publish, PublishRaises
  <2>3. CASE AppendResult(w)
    <3>1. Promise!Handle(part[w], offset[w])
      BY <1>4, <2>1, <2>2, <2>3, PublishingHandles DEF Promise!Handle
    <3>2. QED  BY <1>4, <2>1, <3>1 DEF Promise!Next
  <2>4. CASE UNCHANGED output
    BY <2>2, <2>4
  <2>5. QED  BY <1>5, <2>3, <2>4 DEF Publish, PublishRaises
<1>6. ASSUME NEW w \in Workers, DeadLetter(w) \/ DeadLetterRaises(w)
      PROVE  Promise!Next \/ Stutters
  <2>1. Busy(w)
    BY <1>6 DEF DeadLetter, DeadLetterRaises, Busy, Live
  <2>2. UNCHANGED <<input, committed, output>>
    BY <1>6 DEF DeadLetter, DeadLetterRaises
  <2>3. CASE dlq' = dlq \cup {Message(w)}
    <3>1. Promise!Bury(part[w], offset[w])
      BY <1>4, <2>1, <2>2, <2>3 DEF Promise!Bury, Handled
    <3>2. QED  BY <1>4, <2>1, <3>1 DEF Promise!Next
  <2>4. CASE UNCHANGED dlq
    BY <2>2, <2>4
  <2>5. QED  BY <1>6, <2>3, <2>4 DEF DeadLetter, DeadLetterRaises
<1>7. ASSUME NEW w \in Workers, pc[w] \in {"commit", "dead_commit"},
             CommitUnknown(w), UNCHANGED <<input, output, dlq>>
      PROVE  Promise!Next \/ Stutters
  <2>1. Busy(w)
    BY <1>7 DEF Busy, Live
  <2>2. CASE committed' = committed
    BY <1>7, <2>2
  <2>3. CASE committed' # committed
    <3>1. /\ leased[w]
          /\ committed' = [committed EXCEPT ![part[w]] = offset[w]]
      BY <1>7, <2>3 DEF CommitUnknown, AdvanceOffset
    <3>2. /\ part[w] \in Partitions
          /\ offset[w] \in 1..Len(input[part[w]])
          /\ Message(w) \in Requests
          /\ committed[part[w]] \in Nat
      BY <1>1, <2>1, MessageType DEF TypeOK
    <3>3. committed'[part[w]] = offset[w]
      BY <1>1, <3>1, <3>2 DEF TypeOK
    <3>4. committed[part[w]] # offset[w]
      BY <1>1, <2>3, <3>1, <3>2 DEF TypeOK
    <3>5. offset[w] = committed[part[w]] + 1
      BY <1>1, <1>7, <2>1, <3>2, <3>3, <3>4, CommitFacts
    <3>6. committed[part[w]] < Len(input[part[w]])
      BY <3>2, <3>5
    <3>7. Message(w) \in Handled \cup dlq
      BY <1>1, <1>7, <3>2 DEF SettledBeforeCommit, Handled
    <3>8. committed' = [committed EXCEPT ![part[w]] = @ + 1]
      BY <3>1, <3>5
    <3>9. Promise!Advance(part[w])
      BY <1>7, <3>5, <3>6, <3>7, <3>8
         DEF Message, Handled, Promise!Advance
    <3>10. QED  BY <3>2, <3>9 DEF Promise!Next
  <2>4. QED  BY <2>2, <2>3
<1>8. ASSUME NEW w \in Workers,
             \/ Commit(w) \/ DeadCommit(w)
             \/ CommitRaises(w) \/ DeadCommitRaises(w)
      PROVE  Promise!Next \/ Stutters
  BY <1>7, <1>8
     DEF Commit, DeadCommit, CommitAt, CommitRaises, CommitRaisesAt,
         DeadCommitRaises, CommitKillsAt, CommitUnknown
<1>9. ASSUME NEW w \in Workers, Fetch(w)
      PROVE  Stutters
  BY <1>9 DEF Fetch, Begin
<1>10. CASE Environment \/ UNCHANGED vars
  BY <1>2, <1>10
     DEF Environment, Crash, Restart, Rebalance, Takeover, vars, loopVars,
         groupVars
<1>11. QED
  BY <1>2, <1>3, <1>5, <1>6, <1>8, <1>9, <1>10 DEF Next, WorkerStep, Failure

\* In spite of retries, crashes, orphaned workers and commits of unknown
\* outcome, the service takes only the steps AtLeastOnce allows.
THEOREM ServiceImplementsAtLeastOnce == SafeSpec => Promise!SafeSpec
<1>1. QED
  BY InitRefines, StepRefines, Invariance, PTL
     DEF SafeSpec, Promise!SafeSpec

-----------------------------------------------------------------------------
(* What a dead letter costs: MAX_PROCESSING_RETRIES failed attempts.        *)

\* The attempts of one delivery, one at least.
Tries == Max(1, MaxRetries)

\* A delivery is at attempt 1..Tries, and at its last before the dead letter.
AttemptsInv ==
    \A w \in Workers : Busy(w) =>
        /\ 1 <= attempts[w] /\ attempts[w] <= Tries
        /\ pc[w] = "dead_letter" => attempts[w] = Tries

\* The failed attempts of the delivery in w's hands that no dead letter has
\* used up: each is one of the failures counted so far.
Spent(w) ==
    IF pc[w] = "dead_letter" THEN Tries
    ELSE IF pc[w] \in {"publish", "commit"} THEN attempts[w] - 1 ELSE 0

Failures == {x \in Workers \X (1..Tries) : x[2] <= Spent(x[1])}

BudgetInv ==
    /\ IsFiniteSet(dlq)
    /\ Cardinality(Failures) + Cardinality(dlq) * Tries <= faults

RetryInv == IInv /\ AttemptsInv /\ BudgetInv

\* Tries is a number of attempts.
LEMMA TriesType == Tries \in Nat /\ Tries >= 1 /\ Tries >= MaxRetries
                   /\ (Tries = MaxRetries \/ Tries = 1)
BY ConsumerLoopAssumption DEF Tries, Max

\* What a worker has spent is a number of attempts too.
LEMMA SpentType ==
    ASSUME IInv, AttemptsInv, NEW w \in Workers
    PROVE  Spent(w) \in Nat /\ Spent(w) <= Tries
<1>1. attempts[w] \in Nat
  BY DEF IInv, TypeOK
<1>2. CASE pc[w] \in {"publish", "commit"}
  <2>1. Busy(w)
    BY <1>2 DEF Busy, Live
  <2>2. QED  BY <1>1, <1>2, <2>1, TriesType DEF AttemptsInv, Spent
<1>3. QED  BY <1>2, TriesType DEF Spent

\* The failures counted are finitely many.
LEMMA FailuresFinite ==
    /\ IsFiniteSet(Failures) /\ Cardinality(Failures) \in Nat
    /\ IsFiniteSet(Failures') /\ Cardinality(Failures') \in Nat
<1>0. IsFiniteSet(1..Tries) /\ IsFiniteSet(Workers)
  <2>1. Tries \in Int /\ 1 \in Int
    BY TriesType
  <2>2. IsFiniteSet(1..Tries)
    BY <2>1, FS_Interval
  <2>3. QED  BY <2>2, ConsumerLoopAssumption
<1>1. IsFiniteSet(Workers \X (1..Tries))
  BY <1>0, FS_Product
<1>2. /\ Failures \in SUBSET (Workers \X (1..Tries))
      /\ Failures' \in SUBSET (Workers \X (1..Tries))
  BY DEF Failures
<1>3. QED  BY <1>1, <1>2, FS_Subset, FS_CardinalityType

\* What a step does to the attempts: nothing (they may be forgotten), or one
\* more of them failed, or those of a delivery became a dead letter.
Forgets ==
    /\ \A w \in Workers : Spent(w)' <= Spent(w)
    /\ dlq' = dlq /\ faults' >= faults

Fails(v) ==
    /\ Spent(v)' = Spent(v) + 1
    /\ \A w \in Workers \ {v} : Spent(w)' = Spent(w)
    /\ dlq' = dlq /\ faults' = faults + 1

Buries(v) ==
    /\ Spent(v) = Tries /\ Spent(v)' = 0
    /\ \A w \in Workers \ {v} : Spent(w)' = Spent(w)
    /\ dlq' = dlq \cup {Message(v)} /\ faults' >= faults

\* An attempt that fails is retried, or was the last.
LEMMA RetryFails ==
    ASSUME IInv, AttemptsInv, NEW v \in Workers, pc[v] \in {"publish", "commit"},
           RetryOrGiveUp(v, "publish"), Fault, UNCHANGED dlq
    PROVE  Fails(v) /\ AttemptsInv'
<1>0. faults \in 0..MaxFaults /\ MaxFaults \in Nat
  BY ConsumerLoopAssumption DEF IInv, TypeOK
<1>1. /\ attempts \in [Workers -> Nat] /\ pc \in [Workers -> Steps]
      /\ faults \in Nat
  BY <1>0 DEF IInv, TypeOK
<1>2. Busy(v) /\ attempts[v] \in Nat /\ 1 <= attempts[v] /\ attempts[v] <= Tries
  BY <1>1 DEF Busy, Live, AttemptsInv
<1>3. \A w \in Workers \ {v} : /\ pc'[w] = pc[w] /\ attempts'[w] = attempts[w]
                               /\ Spent(w)' = Spent(w) /\ Busy(w)' = Busy(w)
  BY <1>1 DEF RetryOrGiveUp, Spent, Busy, Live
<1>4. CASE attempts[v] < MaxRetries /\ pc' = [pc EXCEPT ![v] = "publish"]
           /\ attempts' = [attempts EXCEPT ![v] = @ + 1]
  <2>1. pc'[v] = "publish" /\ attempts'[v] = attempts[v] + 1
    BY <1>1, <1>4
  <2>2. Spent(v)' = Spent(v) + 1
    BY <2>1, <1>2 DEF Spent
  <2>3. 1 <= attempts'[v] /\ attempts'[v] <= Tries
    BY <2>1, <1>2, <1>4, TriesType, ConsumerLoopAssumption
  <2>4. AttemptsInv'
    BY <2>1, <2>3, <1>3 DEF AttemptsInv
  <2>5. QED  BY <2>2, <2>4, <1>3 DEF Fails, Fault
<1>5. CASE attempts[v] >= MaxRetries /\ pc' = [pc EXCEPT ![v] = "dead_letter"]
           /\ UNCHANGED attempts
  <2>1. attempts[v] = Tries
    BY <1>2, <1>5, TriesType, ConsumerLoopAssumption
  <2>2. pc'[v] = "dead_letter" /\ attempts'[v] = attempts[v]
    BY <1>1, <1>5
  <2>3. Spent(v)' = Spent(v) + 1
    BY <2>1, <2>2, <1>2, TriesType DEF Spent
  <2>4. AttemptsInv'
    BY <2>1, <2>2, <1>2, <1>3 DEF AttemptsInv
  <2>5. QED  BY <2>3, <2>4, <1>3 DEF Fails, Fault
<1>6. QED  BY <1>4, <1>5 DEF RetryOrGiveUp

\* A worker that lets go forgets what it has spent.
LEMMA ReleaseForgets ==
    ASSUME IInv, AttemptsInv, NEW v \in Workers, NEW step \in {"idle", "down"},
           Release(v, step)
    PROVE  /\ AttemptsInv'
           /\ Spent(v)' = 0
           /\ \A w \in Workers \ {v} : Spent(w)' = Spent(w)
           /\ \A w \in Workers : Spent(w)' <= Spent(w)
<1>1. attempts \in [Workers -> Nat] /\ pc \in [Workers -> Steps]
  BY DEF IInv, TypeOK
<1>2. pc'[v] = step /\ ~Busy(v)'
  BY <1>1 DEF Release, Busy, Live
<1>3. \A w \in Workers \ {v} : /\ pc'[w] = pc[w] /\ attempts'[w] = attempts[w]
                               /\ Spent(w)' = Spent(w) /\ Busy(w)' = Busy(w)
  BY <1>1 DEF Release, Spent, Busy, Live
<1>4. Spent(v)' = 0
  BY <1>2 DEF Spent
<1>5. \A w \in Workers : Spent(w) \in Nat
  BY SpentType
<1>6. AttemptsInv'
  BY <1>2, <1>3 DEF AttemptsInv
<1>7. QED  BY <1>3, <1>4, <1>5, <1>6

\* Every step is one of the three, and keeps the attempts within their bound.
LEMMA AttemptsStep ==
    ASSUME IInv, AttemptsInv, [Next]_vars
    PROVE  /\ AttemptsInv'
           /\ Forgets \/ \E v \in Workers : Fails(v) \/ Buries(v)
<1> DEFINE Goal == /\ AttemptsInv'
                   /\ Forgets \/ \E v \in Workers : Fails(v) \/ Buries(v)
<1>0. faults \in 0..MaxFaults /\ MaxFaults \in Nat
  BY ConsumerLoopAssumption DEF IInv, TypeOK
<1>1. /\ attempts \in [Workers -> Nat] /\ pc \in [Workers -> Steps]
      /\ faults \in Nat
  BY <1>0 DEF IInv, TypeOK
<1>2. \A w \in Workers : Spent(w) \in Nat /\ Spent(w) <= Tries
  BY SpentType
<1>3. ASSUME UNCHANGED <<pc, attempts, dlq>>, faults' >= faults
      PROVE  Goal
  <2>1. \A w \in Workers : Spent(w)' = Spent(w) /\ Busy(w)' = Busy(w)
    BY <1>3 DEF Spent, Busy, Live
  <2>2. QED  BY <2>1, <1>2, <1>3 DEF Forgets, AttemptsInv
<1>4. ASSUME NEW v \in Workers, NEW step \in {"idle", "down"}, Release(v, step),
             UNCHANGED dlq, faults' >= faults
      PROVE  Goal
  BY <1>4, ReleaseForgets DEF Forgets
<1>5. ASSUME NEW v \in Workers, NEW step \in {"commit", "dead_commit"},
             Goto(v, step), Busy(v), pc[v] # "dead_letter" => pc[v] = "publish",
             pc[v] = "publish" <=> step = "commit"
      PROVE  /\ AttemptsInv'
             /\ \A w \in Workers \ {v} : Spent(w)' = Spent(w)
             /\ Spent(v)' = IF step = "commit" THEN Spent(v) ELSE 0
  <2>1. /\ pc'[v] = step /\ attempts' = attempts
        /\ \A w \in Workers \ {v} : pc'[w] = pc[w] /\ Busy(w)' = Busy(w)
    BY <1>1, <1>5 DEF Goto, Busy, Live
  <2>2. QED  BY <2>1, <1>5 DEF AttemptsInv, Spent
<1>6. ASSUME NEW r \in Requests, Submit(r)
      PROVE  Goal
  BY <1>3, <1>6, <1>1 DEF Submit, workerVars
<1>7. ASSUME NEW v \in Workers, Fetch(v)
      PROVE  Goal
  <2>1. PICK p \in Partitions : Begin(v, p, "publish")
    BY <1>7 DEF Fetch
  <2>2. /\ pc[v] = "idle" /\ pc'[v] = "publish" /\ attempts'[v] = 1
        /\ \A w \in Workers \ {v} : /\ pc'[w] = pc[w] /\ attempts'[w] = attempts[w]
                                    /\ Busy(w)' = Busy(w)
    BY <2>1, <1>1 DEF Begin, Busy, Live
  <2>3. \A w \in Workers : Spent(w)' = Spent(w)
    BY <2>2 DEF Spent
  <2>4. AttemptsInv'
    BY <2>2, TriesType DEF AttemptsInv
  <2>5. dlq' = dlq /\ faults' = faults
    BY <1>7 DEF Fetch, Begin
  <2>6. QED  BY <2>3, <2>4, <2>5, <1>1, <1>2 DEF Forgets
<1>8. ASSUME NEW v \in Workers, Publish(v)
      PROVE  Goal
  <2>1. Busy(v) /\ pc[v] = "publish" /\ Goto(v, "commit")
    BY <1>8 DEF Publish, Busy, Live
  <2>2. AttemptsInv' /\ \A w \in Workers : Spent(w)' = Spent(w)
    BY <2>1, <1>5
  <2>3. QED  BY <2>2, <1>1, <1>2, <1>8 DEF Publish, NoFault, Forgets
<1>9. ASSUME NEW v \in Workers, PublishRaises(v) \/ CommitRaises(v)
      PROVE  Goal
  BY <1>9, RetryFails DEF PublishRaises, CommitRaises, CommitRaisesAt
<1>10. ASSUME NEW v \in Workers, NEW step, CommitAt(v, step), UNCHANGED dlq
       PROVE  Goal
  BY <1>4, <1>10, <1>1 DEF CommitAt
<1>11. ASSUME NEW v \in Workers, DeadCommitRaises(v) \/ (Crash(v) /\ UNCHANGED dlq)
       PROVE  Goal
  BY <1>4, <1>11, <1>1 DEF DeadCommitRaises, CommitKillsAt, Crash, Fault
<1>12. ASSUME NEW v \in Workers, DeadLetter(v)
       PROVE  Goal
  <2>1. Busy(v) /\ pc[v] = "dead_letter" /\ Goto(v, "dead_commit")
    BY <1>12 DEF DeadLetter, Busy, Live
  <2>2. /\ AttemptsInv' /\ Spent(v)' = 0
        /\ \A w \in Workers \ {v} : Spent(w)' = Spent(w)
    BY <2>1, <1>5
  <2>3. Spent(v) = Tries
    BY <2>1 DEF Spent
  <2>4. QED  BY <2>2, <2>3, <1>1, <1>12 DEF DeadLetter, NoFault, Buries
<1>13. ASSUME NEW v \in Workers, DeadLetterRaises(v)
       PROVE  Goal
  <2>1. Release(v, "down") /\ Spent(v) = Tries /\ faults' >= faults
    BY <1>13, <1>1 DEF DeadLetterRaises, Fault, Spent
  <2>2. CASE dlq' = dlq \cup {Message(v)}
    BY <2>1, <2>2, ReleaseForgets DEF Buries
  <2>3. CASE UNCHANGED dlq
    BY <2>1, <2>3, <1>4
  <2>4. QED  BY <2>2, <2>3, <1>13 DEF DeadLetterRaises
<1>14. ASSUME NEW v \in Workers, Restart(v), UNCHANGED dlq
       PROVE  Goal
  <2>1. /\ pc[v] = "down" /\ pc'[v] = "idle" /\ UNCHANGED <<attempts, faults>>
        /\ \A w \in Workers \ {v} : pc'[w] = pc[w] /\ Busy(w)' = Busy(w)
    BY <1>14, <1>1 DEF Restart, Busy, Live
  <2>2. ~Busy(v)' /\ \A w \in Workers : Spent(w)' = Spent(w)
    BY <2>1 DEF Spent, Busy, Live
  <2>3. QED  BY <2>1, <2>2, <1>1, <1>2, <1>14 DEF Forgets, AttemptsInv
<1>15. ASSUME (Rebalance \/ Takeover) /\ UNCHANGED dlq
       PROVE  Goal
  BY <1>3, <1>15, <1>1 DEF Rebalance, Takeover, workerVars, Fault
<1>16. ASSUME UNCHANGED vars
       PROVE  Goal
  BY <1>3, <1>16, <1>1 DEF vars, loopVars, workerVars
<1>17. QED
  BY <1>6, <1>7, <1>8, <1>9, <1>10, <1>11, <1>12, <1>13, <1>14, <1>15, <1>16
     DEF Next, WorkerStep, Failure, Environment, Commit, DeadCommit

\* What a worker has spent after a step is a number of attempts.
LEMMA SpentTypeNext ==
    ASSUME TypeOK', AttemptsInv', NEW w \in Workers
    PROVE  Spent(w)' \in Nat
<1>1. attempts'[w] \in Nat
  BY DEF TypeOK
<1>2. CASE pc'[w] \in {"publish", "commit"}
  <2>1. Busy(w)'
    BY <1>2 DEF Busy, Live
  <2>2. QED  BY <1>1, <1>2, <2>1, TriesType DEF AttemptsInv, Spent
<1>3. QED  BY <1>2, TriesType DEF Spent

\* A dead letter more takes Tries failures more.
LEMMA OneMore ==
    ASSUME NEW d \in Nat, NEW t \in Nat
    PROVE  (d + 1) * t = d * t + t /\ d * t \in Nat
OBVIOUS

\* A step that adds no failed attempt and no dead letter keeps the budget.
LEMMA ForgetsKeepsBudget ==
    ASSUME IInv, AttemptsInv, BudgetInv, TypeOK', AttemptsInv', Forgets
    PROVE  BudgetInv'
<1>1. \A w \in Workers : /\ Spent(w) \in Nat /\ Spent(w)' \in Nat
                         /\ Spent(w)' <= Spent(w)
  BY SpentType, SpentTypeNext DEF Forgets
<1>2. Failures' \in SUBSET Failures
  BY <1>1, TriesType DEF Failures
<1>3. Cardinality(Failures') <= Cardinality(Failures)
  BY <1>2, FailuresFinite, FS_Subset
<1>4. /\ faults \in Int /\ faults' \in Int /\ faults' >= faults
      /\ dlq' = dlq
  BY ConsumerLoopAssumption DEF TypeOK, IInv, Forgets
<1>5. Cardinality(dlq) \in Nat
  BY FS_CardinalityType DEF BudgetInv
<1>6. Cardinality(dlq) * Tries \in Nat
  BY <1>5, TriesType, OneMore
<1>7. QED  BY <1>3, <1>4, <1>6, FailuresFinite DEF BudgetInv

\* A failed attempt is paid for by the failure it is.
LEMMA FailsKeepsBudget ==
    ASSUME IInv, AttemptsInv, BudgetInv, TypeOK', NEW v \in Workers, Fails(v)
    PROVE  BudgetInv'
<1> DEFINE x == <<v, Spent(v) + 1>>
<1>1. \A w \in Workers : Spent(w) \in Nat
  BY SpentType
<1>2. Failures' \in SUBSET (Failures \cup {x})
  <2> SUFFICES ASSUME NEW y \in Failures'
               PROVE  y \in Failures \cup {x}
    OBVIOUS
  <2>1. PICK w \in Workers, k \in 1..Tries : y = <<w, k>> /\ k <= Spent(w)'
    BY DEF Failures
  <2>2. CASE w = v
    <3>1. k <= Spent(v) + 1 /\ k \in Int
      BY <2>1, <2>2, TriesType DEF Fails
    <3>2. k <= Spent(v) \/ k = Spent(v) + 1
      BY <3>1, <1>1
    <3>3. QED  BY <2>1, <2>2, <3>2 DEF Failures
  <2>3. CASE w # v
    BY <2>1, <2>3 DEF Fails, Failures
  <2>4. QED  BY <2>2, <2>3
<1>3. /\ IsFiniteSet(Failures \cup {x})
      /\ Cardinality(Failures \cup {x}) <= Cardinality(Failures) + 1
  <2> HIDE DEF x
  <2>1. IsFiniteSet(Failures) /\ Cardinality(Failures) \in Int
    BY FailuresFinite
  <2>2. /\ IsFiniteSet(Failures \cup {x})
        /\ Cardinality(Failures \cup {x}) =
              IF x \in Failures THEN Cardinality(Failures)
                                ELSE Cardinality(Failures) + 1
    BY <2>1, FS_AddElement
  <2>3. QED  BY <2>1, <2>2
<1>4. /\ Cardinality(Failures \cup {x}) \in Nat
      /\ Cardinality(Failures') <= Cardinality(Failures \cup {x})
  BY <1>2, <1>3, FS_Subset, FS_CardinalityType
<1>5. Cardinality(Failures') <= Cardinality(Failures) + 1
  BY <1>3, <1>4, FailuresFinite
<1>6. faults \in Int /\ faults' = faults + 1 /\ dlq' = dlq
  BY ConsumerLoopAssumption DEF TypeOK, IInv, Fails
<1>7. Cardinality(dlq) \in Nat
  BY FS_CardinalityType DEF BudgetInv
<1>8. Cardinality(dlq) * Tries \in Nat
  BY <1>7, TriesType, OneMore
<1>9. QED  BY <1>5, <1>6, <1>8, FailuresFinite DEF BudgetInv

\* A dead letter is paid for by the Tries attempts of its delivery.
LEMMA BuriesKeepsBudget ==
    ASSUME IInv, AttemptsInv, BudgetInv, TypeOK', NEW v \in Workers, Buries(v)
    PROVE  BudgetInv'
<1> DEFINE Own == {v} \X (1..Tries)
<1>1. \A w \in Workers : Spent(w) \in Nat
  BY SpentType
<1>2. IsFiniteSet(Own) /\ Cardinality(Own) = Tries
  <2>1. Tries \in Int /\ 1 \in Int
    BY TriesType
  <2>2. IsFiniteSet(1..Tries) /\ Cardinality(1..Tries) = Tries
    BY <2>1, TriesType, FS_Interval
  <2>3. IsFiniteSet({v}) /\ Cardinality({v}) = 1
    BY FS_Singleton
  <2>4. QED  BY <2>2, <2>3, TriesType, FS_Product
<1>3. Failures' \cup Own \in SUBSET Failures
  <2>1. Own \subseteq Failures
    BY TriesType DEF Buries, Failures
  <2>2. Failures' \subseteq Failures
    <3> SUFFICES ASSUME NEW y \in Failures'
                 PROVE  y \in Failures
      OBVIOUS
    <3>1. PICK w \in Workers, k \in 1..Tries : y = <<w, k>> /\ k <= Spent(w)'
      BY DEF Failures
    <3>2. w # v
      BY <3>1, TriesType DEF Buries
    <3>3. QED  BY <3>1, <3>2 DEF Buries, Failures
  <2>3. QED  BY <2>1, <2>2
<1>4. Failures' \cap Own = {}
  <2>1. \A y \in Failures' : y[1] # v
    <3> SUFFICES ASSUME NEW y \in Failures'
                 PROVE  y[1] # v
      OBVIOUS
    <3>1. PICK w \in Workers, k \in 1..Tries : y = <<w, k>> /\ k <= Spent(w)'
      BY DEF Failures
    <3>2. QED  BY <3>1, TriesType DEF Buries
  <2>2. QED  BY <2>1
<1>5. Cardinality(Failures' \cup Own) = Cardinality(Failures') + Tries
  <2>1. Cardinality(Failures' \cap Own) = 0
    BY <1>4, FS_EmptySet
  <2>2. Cardinality(Failures' \cup Own) =
            Cardinality(Failures') + Cardinality(Own)
            - Cardinality(Failures' \cap Own)
    BY <1>2, FailuresFinite, FS_Union
  <2>3. QED  BY <2>1, <2>2, <1>2, FailuresFinite, TriesType
<1>6. Cardinality(Failures') + Tries <= Cardinality(Failures)
  BY <1>3, <1>5, FailuresFinite, FS_Subset
<1>7. /\ IsFiniteSet(dlq')
      /\ Cardinality(dlq') = Cardinality(dlq)
         \/ Cardinality(dlq') = Cardinality(dlq) + 1
  <2>1. dlq' = dlq \cup {Message(v)}
    BY DEF Buries
  <2>2. QED  BY <2>1, FS_AddElement DEF BudgetInv
<1>8. /\ faults \in Int /\ faults' \in Int /\ faults' >= faults
  BY ConsumerLoopAssumption DEF TypeOK, IInv, Buries
<1>9. Cardinality(dlq) \in Nat
  BY FS_CardinalityType DEF BudgetInv
<1>10. /\ Cardinality(dlq) * Tries \in Nat
       /\ (Cardinality(dlq) + 1) * Tries = Cardinality(dlq) * Tries + Tries
  BY <1>9, TriesType, OneMore
<1>11. Cardinality(dlq') * Tries <= Cardinality(dlq) * Tries + Tries
  BY <1>7, <1>10, TriesType
<1>12. Cardinality(dlq') * Tries \in Nat
  BY <1>7, <1>9, TriesType, OneMore
<1>13. Cardinality(Failures') + Cardinality(dlq') * Tries <= faults'
  BY <1>6, <1>8, <1>10, <1>11, <1>12, FailuresFinite, TriesType DEF BudgetInv
<1>14. QED  BY <1>7, <1>13 DEF BudgetInv

\* Nothing has been tried at the start.
LEMMA InitRetry == Init => AttemptsInv /\ BudgetInv
<1> SUFFICES ASSUME Init
             PROVE  AttemptsInv /\ BudgetInv
  OBVIOUS
<1>1. \A w \in Workers : ~Busy(w) /\ Spent(w) = 0
  BY DEF Init, LoopInit, Busy, Live, Spent
<1>2. Failures = {}
  BY <1>1, TriesType DEF Failures
<1>3. dlq = {} /\ faults = 0
  BY DEF Init, LoopInit
<1>4. Cardinality({}) = 0 /\ IsFiniteSet({})
  BY FS_EmptySet
<1>5. BudgetInv
  BY <1>2, <1>3, <1>4, TriesType DEF BudgetInv
<1>6. QED  BY <1>1, <1>5 DEF AttemptsInv

\* A request is dead-lettered only after MAX_PROCESSING_RETRIES failed
\* attempts of one delivery, which no other dead letter is charged with:
\* attempts that a crash or a rebalance interrupts are lost to the count.
THEOREM DeadLettersCostRetries == SafeSpec => []DeadLetterAfterRetries
<1>1. Init => RetryInv
  BY InitIInv, InitRetry DEF RetryInv
<1>2. RetryInv /\ [Next]_vars => RetryInv'
  <2> SUFFICES ASSUME RetryInv, [Next]_vars
               PROVE  RetryInv'
    OBVIOUS
  <2>1. IInv /\ AttemptsInv /\ BudgetInv
    BY DEF RetryInv
  <2>2. IInv'
    BY <2>1, TypeStep, PositionsStep, RoutedStep, SettledBeforeCommitStep,
       CommittedIsSettledStep, NoOvertakingStep
       DEF IInv
  <2>3. TypeOK'
    BY <2>2 DEF IInv
  <2>4. /\ AttemptsInv'
        /\ Forgets \/ \E v \in Workers : Fails(v) \/ Buries(v)
    BY <2>1, AttemptsStep
  <2>5. BudgetInv'
    BY <2>1, <2>3, <2>4, ForgetsKeepsBudget, FailsKeepsBudget,
       BuriesKeepsBudget
  <2>6. QED  BY <2>2, <2>4, <2>5 DEF RetryInv
<1>3. RetryInv => DeadLetterAfterRetries
  <2> SUFFICES ASSUME RetryInv
               PROVE  DeadLetterAfterRetries
    OBVIOUS
  <2>1. /\ IsFiniteSet(dlq) /\ faults \in Int
        /\ Cardinality(Failures) + Cardinality(dlq) * Tries <= faults
    BY ConsumerLoopAssumption DEF RetryInv, IInv, TypeOK, BudgetInv
  <2>2. Cardinality(dlq) \in Nat
    BY <2>1, FS_CardinalityType
  <2>3. Cardinality(dlq) * Tries \in Nat
    BY <2>2, TriesType, OneMore
  <2>4. Cardinality(dlq) * Tries <= faults
    BY <2>1, <2>3, FailuresFinite
  <2>5. QED  BY <2>4 DEF DeadLetterAfterRetries, Tries
<1>4. QED  BY <1>1, <1>2, <1>3, PTL DEF SafeSpec

-----------------------------------------------------------------------------
(* What a duplicate costs: every delivery publishes once, but for failures. *)

\* Each handler is, for the loop, an arrival, a fetch, a step inside the body
\* or a letting go.
LEMMA NextIsLoopStep ==
    ASSUME IInv, [Next]_vars
    PROVE  LoopStep(Requests, Steps)
<1>0. /\ LoopTypeOK(Requests, Steps)
      /\ {"idle", "down"} \subseteq Steps \cap Outside
      /\ BodySteps \subseteq Steps \ Outside
  BY LoopTypes DEF IInv, Steps, Outside, BodySteps
<1>1. ASSUME NEW r \in Requests, Submit(r)
      PROVE  LoopStep(Requests, Steps)
  BY <1>1, RequestIsRouted DEF Submit, Arrives, LoopStep
<1>2. ASSUME NEW w \in Workers, Fetch(w)
      PROVE  LoopStep(Requests, Steps)
  BY <1>0, <1>2 DEF Fetch, BodySteps, LoopStep
<1>3. ASSUME NEW w \in Workers, Publish(w) \/ DeadLetter(w)
      PROVE  LoopStep(Requests, Steps)
  <2>1. Busy(w) /\ UNCHANGED <<input, committed, owner>>
    BY <1>3 DEF Publish, DeadLetter, Busy, Live
  <2>2. Goto(w, "commit") \/ Goto(w, "dead_commit")
    BY <1>3 DEF Publish, DeadLetter
  <2>3. QED  BY <1>0, <2>1, <2>2, GotoStep DEF BodySteps
<1>4. ASSUME NEW w \in Workers, PublishRaises(w) \/ CommitRaises(w)
      PROVE  LoopStep(Requests, Steps)
  <2>1. Busy(w) /\ CommitUnknown(w) /\ UNCHANGED <<input, owner>>
        /\ RetryOrGiveUp(w, "publish")
    BY <1>4 DEF PublishRaises, CommitRaises, CommitRaisesAt, CommitUnknown,
                Busy, Live
  <2>2. "publish" \in Steps \ Outside /\ "dead_letter" \in Steps
    BY <1>0 DEF BodySteps
  <2>3. QED  BY <1>0, <2>1, <2>2, RetryStep
<1>5. ASSUME NEW w \in Workers, DeadLetterRaises(w)
      PROVE  LoopStep(Requests, Steps)
  BY <1>0, <1>5, ReleaseStep DEF DeadLetterRaises
<1>6. ASSUME NEW w \in Workers,
             Commit(w) \/ DeadCommit(w) \/ DeadCommitRaises(w)
      PROVE  LoopStep(Requests, Steps)
  BY <1>0, <1>6, CommitStep
     DEF Commit, DeadCommit, DeadCommitRaises, BodySteps
<1>7. ASSUME Environment
      PROVE  LoopStep(Requests, Steps)
  BY <1>0, <1>7, GroupStep DEF Environment
<1>8. ASSUME UNCHANGED vars
      PROVE  LoopStep(Requests, Steps)
  BY <1>8 DEF vars, loopVars, LoopStep
<1>9. QED
  BY <1>1, <1>2, <1>3, <1>4, <1>5, <1>6, <1>7, <1>8
     DEF Next, WorkerStep, Failure

\* The results for r, the messages with r that were handed out, and the
\* workers about to publish its result.
Results(r) ==
    {j \in 1..Len(output[PartitionOf[r.txn]]) :
        output[PartitionOf[r.txn]][j].request = r}

Turns(r) ==
    {i \in Taken(PartitionOf[r.txn]) : input[PartitionOf[r.txn]][i] = r}

Pending(r) == {w \in Workers : pc[w] = "publish" /\ Message(w) = r}

\* Every result was a turn, or a delivery that a failure had caused or will.
CopiesInv ==
    \A r \in Requests :
        Cardinality(Results(r)) + Cardinality(Pending(r))
            + Debt(PartitionOf[r.txn])
        <= Cardinality(Turns(r)) + 2 * faults

\* All of them are finitely many.
LEMMA CopiesFinite ==
    ASSUME TypeOK, NEW r \in Requests
    PROVE  /\ IsFiniteSet(Results(r)) /\ Cardinality(Results(r)) \in Nat
           /\ IsFiniteSet(Turns(r)) /\ Cardinality(Turns(r)) \in Nat
           /\ Pending(r) \in SUBSET Workers /\ Cardinality(Pending(r)) \in Nat
<1> DEFINE p == PartitionOf[r.txn]
<1>1. p \in Partitions
  BY RequestIsRouted
<1>2. Len(output[p]) \in Int /\ Len(input[p]) \in Int /\ 1 \in Int
  BY <1>1 DEF TypeOK
<1>3. IsFiniteSet(1..Len(output[p])) /\ IsFiniteSet(1..Len(input[p]))
  BY <1>2, FS_Interval
<1>4. /\ Results(r) \in SUBSET (1..Len(output[p]))
      /\ Turns(r) \in SUBSET (1..Len(input[p]))
      /\ Pending(r) \in SUBSET Workers
  BY DEF Results, Turns, Taken, Pending
<1>5. QED  BY <1>3, <1>4, FS_Subset, FS_CardinalityType, SomeWorkers

\* ... also after a step.
LEMMA CopiesFiniteNext ==
    ASSUME TypeOK', NEW r \in Requests
    PROVE  /\ IsFiniteSet(Results(r)') /\ Cardinality(Results(r)') \in Nat
           /\ IsFiniteSet(Turns(r)') /\ Cardinality(Turns(r)') \in Nat
           /\ Pending(r)' \in SUBSET Workers /\ Cardinality(Pending(r)') \in Nat
<1> DEFINE p == PartitionOf[r.txn]
<1>1. p \in Partitions
  BY RequestIsRouted
<1>2. Len(output'[p]) \in Int /\ Len(input'[p]) \in Int /\ 1 \in Int
  BY <1>1 DEF TypeOK
<1>3. IsFiniteSet(1..Len(output'[p])) /\ IsFiniteSet(1..Len(input'[p]))
  BY <1>2, FS_Interval
<1>4. /\ Results(r)' \in SUBSET (1..Len(output'[p]))
      /\ Turns(r)' \in SUBSET (1..Len(input'[p]))
      /\ Pending(r)' \in SUBSET Workers
  BY DEF Results, Turns, Taken, Pending
<1>5. QED  BY <1>3, <1>4, FS_Subset, FS_CardinalityType, SomeWorkers

\* The turns of a step: none is given back, or one that the step pays for.
LEMMA TurnsStep ==
    ASSUME IInv, TypeOK', [Next]_vars, NEW r \in Requests
    PROVE  /\ Taken(PartitionOf[r.txn]) \subseteq Taken(PartitionOf[r.txn])'
                 => Turns(r) \subseteq Turns(r)'
           /\ Pays(PartitionOf[r.txn]) =>
                 Debt(PartitionOf[r.txn])' + Cardinality(Turns(r))
                    <= Debt(PartitionOf[r.txn]) + Cardinality(Turns(r)')
                          + 2 * (faults' - faults)
<1> DEFINE p == PartitionOf[r.txn]
<1>0. p \in Partitions
  BY RequestIsRouted
<1>1. /\ LoopTypeOK(Requests, Steps) /\ Positions
      /\ LoopStep(Requests, Steps) /\ Grows(input, input')
  BY LoopTypes, NextIsLoopStep, TopicsGrow DEF IInv
<1>2. \A i \in Turns(r) : i \in Taken(p)' => i \in Turns(r)'
  BY <1>0, <1>1 DEF Turns, Taken, Grows
<1>3. PICK x : Taken(p) \subseteq Taken(p)' \cup {x}
  BY <1>0, <1>1, TakenStays
<1>4. Turns(r) \subseteq Turns(r)' \cup {x}
  BY <1>2, <1>3 DEF Turns
<1>5. Taken(p) \subseteq Taken(p)' => Turns(r) \subseteq Turns(r)'
  BY <1>2 DEF Turns
<1>6. IsFiniteSet(Turns(r)')
  BY CopiesFiniteNext
<1>7. /\ Cardinality(Turns(r)') \in Nat /\ Cardinality(Turns(r)) \in Nat
      /\ Cardinality(Turns(r)) <= Cardinality(Turns(r)') + 1
      /\ Turns(r) \subseteq Turns(r)'
            => Cardinality(Turns(r)) <= Cardinality(Turns(r)')
  BY <1>4, <1>6, OneElementMore
<1>8. ~Loses(p) => Cardinality(Turns(r)) <= Cardinality(Turns(r)')
  BY <1>0, <1>1, <1>5, <1>7, TakenStays
<1>9. ASSUME Pays(p)
      PROVE  Debt(p)' + Cardinality(Turns(r))
                <= Debt(p) + Cardinality(Turns(r)') + 2 * (faults' - faults)
  BY <1>7, <1>8, <1>9 DEF Pays
<1>10. QED  BY <1>5, <1>9

\* Nobody is about to publish r who was not, unless he was elsewhere.
LEMMA PendingStep ==
    ASSUME IInv, [Next]_vars, NEW r \in Requests, NEW w \in Workers,
           \A v \in Workers \ {w} : pc'[v] = "publish" => pc[v] = "publish"
    PROVE  /\ Pending(r)' \subseteq Pending(r) \cup {w}
           /\ (pc'[w] = "publish" => pc[w] = "publish")
                 => Pending(r)' \subseteq Pending(r)
<1>1. ASSUME NEW v \in Workers, pc[v] = "publish", v \in Pending(r)'
      PROVE  v \in Pending(r)
  <2>1. Busy(v)'
    BY <1>1 DEF Pending, Busy, Live
  <2>2. Stays(v)
    BY <1>1, <2>1, NextIsLoopStep, BusyStaysOrBegins, LoopTypes
       DEF IInv, Begin
  <2>3. QED  BY <1>1, <2>2 DEF Pending, Stays
<1>2. \A v \in Pending(r)' : v \in Workers /\ pc'[v] = "publish"
  BY DEF Pending
<1>3. QED  BY <1>1, <1>2

\* A result that is appended is one more for its own request.
LEMMA ResultsStep ==
    ASSUME IInv, NEW r \in Requests, NEW w \in Workers, Busy(w),
           AppendResult(w) \/ UNCHANGED output
    PROVE  /\ \E x : Results(r)' \subseteq Results(r) \cup {x}
           /\ Message(w) # r => Results(r)' \subseteq Results(r)
<1> DEFINE p == PartitionOf[r.txn]
<1>0. p \in Partitions
  BY RequestIsRouted
<1>1. CASE UNCHANGED output
  BY <1>1 DEF Results
<1>2. CASE AppendResult(w)
  <2>1. /\ Message(w) \in Requests /\ PartitionOf[Message(w).txn] \in Partitions
        /\ ProcessTransaction(Message(w)) \in ProcessedEvents
        /\ ProcessTransaction(Message(w)).request = Message(w)
    BY MessageType, ResultKeepsRequest DEF IInv
  <2>2. /\ output \in [Partitions -> Seq(ProcessedEvents)]
        /\ output[p] \in Seq(ProcessedEvents)
    BY <1>0 DEF IInv, TypeOK
  <2>3. CASE PartitionOf[Message(w).txn] # p
    <3>1. output'[p] = output[p]
      BY <1>2, <2>2, <2>3 DEF AppendResult
    <3>2. QED  BY <3>1 DEF Results
  <2>4. CASE PartitionOf[Message(w).txn] = p
    <3>1. output'[p] = Append(output[p], ProcessTransaction(Message(w)))
      BY <1>0, <1>2, <2>2, <2>4 DEF AppendResult
    <3>2. /\ Len(output'[p]) = Len(output[p]) + 1 /\ Len(output[p]) \in Nat
          /\ \A j \in 1..Len(output[p]) : output'[p][j] = output[p][j]
          /\ output'[p][Len(output[p]) + 1].request = Message(w)
      BY <2>1, <2>2, <3>1, AppendKeeps
    <3>3. /\ Results(r)' \subseteq Results(r) \cup {Len(output[p]) + 1}
          /\ Message(w) # r => Results(r)' \subseteq Results(r)
      <4>1. ASSUME NEW j \in Results(r)'
            PROVE  j \in Results(r) \/ (j = Len(output[p]) + 1 /\ Message(w) = r)
        <5>1. j \in 1..(Len(output[p]) + 1) /\ output'[p][j].request = r
          BY <3>2 DEF Results
        <5>2. CASE j = Len(output[p]) + 1
          BY <3>2, <5>1, <5>2
        <5>3. CASE j \in 1..Len(output[p])
          BY <3>2, <5>1, <5>3 DEF Results
        <5>4. QED  BY <3>2, <5>1, <5>2, <5>3
      <4>2. QED  BY <4>1
    <3>4. QED  BY <3>3
  <2>5. QED  BY <2>3, <2>4
<1>3. QED  BY <1>1, <1>2

\* The account of r, for whatever a step does to its four counts.
LEMMA AccountStep ==
    ASSUME TypeOK, TypeOK', CopiesInv, NEW r \in Requests,
           \/ /\ Cardinality(Results(r)') + Cardinality(Pending(r)')
                    <= Cardinality(Results(r)) + Cardinality(Pending(r))
              /\ Debt(PartitionOf[r.txn])' + Cardinality(Turns(r))
                    <= Debt(PartitionOf[r.txn]) + Cardinality(Turns(r)')
                          + 2 * (faults' - faults)
           \/ /\ Cardinality(Results(r)') + Cardinality(Pending(r)')
                    <= Cardinality(Results(r)) + Cardinality(Pending(r)) + 1
              /\ Debt(PartitionOf[r.txn])' + Cardinality(Turns(r)) + 1
                    <= Debt(PartitionOf[r.txn]) + Cardinality(Turns(r)')
                          + 2 * (faults' - faults)
    PROVE  Cardinality(Results(r)') + Cardinality(Pending(r)')
                + Debt(PartitionOf[r.txn])'
              <= Cardinality(Turns(r)') + 2 * faults'
<1> DEFINE p == PartitionOf[r.txn]
<1>1. /\ Cardinality(Results(r)) \in Nat /\ Cardinality(Results(r)') \in Nat
      /\ Cardinality(Pending(r)) \in Nat /\ Cardinality(Pending(r)') \in Nat
      /\ Cardinality(Turns(r)) \in Nat /\ Cardinality(Turns(r)') \in Nat
  BY CopiesFinite, CopiesFiniteNext
<1>2. Debt(p) \in Nat /\ Debt(p)' \in Nat
  BY DebtType
<1>3. faults \in Int /\ faults' \in Int
  BY ConsumerLoopAssumption DEF TypeOK
<1>4. Cardinality(Results(r)) + Cardinality(Pending(r)) + Debt(p)
         <= Cardinality(Turns(r)) + 2 * faults
  BY DEF CopiesInv
<1>5. QED  BY <1>1, <1>2, <1>3, <1>4

\* Every step keeps the account.
LEMMA CopiesStep == IInv /\ TypeOK' /\ CopiesInv /\ [Next]_vars => CopiesInv'
<1> SUFFICES ASSUME IInv, TypeOK', CopiesInv, [Next]_vars, NEW r \in Requests
             PROVE  Cardinality(Results(r)') + Cardinality(Pending(r)')
                        + Debt(PartitionOf[r.txn])'
                       <= Cardinality(Turns(r)') + 2 * faults'
  BY DEF CopiesInv, Results, Pending, Turns
<1> DEFINE p    == PartitionOf[r.txn]
           Goal == Cardinality(Results(r)') + Cardinality(Pending(r)') + Debt(p)'
                      <= Cardinality(Turns(r)') + 2 * faults'
<1>0. /\ LoopTypeOK(Requests, Steps) /\ Positions /\ p \in Partitions
      /\ TypeOK /\ pc \in [Workers -> Steps]
      /\ faults \in Nat /\ faults' \in Nat
  <2>1. TypeOK /\ Positions /\ pc \in [Workers -> Steps]
        /\ faults \in 0..MaxFaults /\ faults' \in 0..MaxFaults
    BY DEF IInv, TypeOK
  <2>2. faults \in Nat /\ faults' \in Nat
    BY <2>1, ConsumerLoopAssumption
  <2>3. QED  BY <2>1, <2>2, LoopTypes, RequestIsRouted
<1>1. /\ IsFiniteSet(Results(r)) /\ Cardinality(Results(r)) \in Nat
      /\ Cardinality(Results(r)') \in Nat
      /\ Pending(r) \in SUBSET Workers /\ IsFiniteSet(Pending(r))
      /\ Cardinality(Pending(r)) \in Nat /\ Cardinality(Pending(r)') \in Nat
      /\ IsFiniteSet(Turns(r)')
      /\ Cardinality(Turns(r)) \in Nat /\ Cardinality(Turns(r)') \in Nat
      /\ Debt(p) \in Nat /\ Debt(p)' \in Nat
  BY <1>0, CopiesFinite, CopiesFiniteNext, DebtType, SomeWorkers
<1>2. ASSUME Pays(p), UNCHANGED output, Pending(r)' \subseteq Pending(r)
      PROVE  Goal
  <2>1. Results(r)' = Results(r)
    BY <1>2 DEF Results
  <2>2. Cardinality(Pending(r)') <= Cardinality(Pending(r))
    BY <1>1, <1>2, FS_Subset
  <2>3. QED  BY <1>0, <1>1, <1>2, <2>1, <2>2, TurnsStep, AccountStep
<1>3. ASSUME NEW v \in Workers, Release(v, "down") \/ Release(v, "idle")
      PROVE  Pending(r)' \subseteq Pending(r)
  <2>1. /\ pc'[v] # "publish"
        /\ \A w \in Workers \ {v} : pc'[w] = pc[w]
    BY <1>0, <1>3 DEF Release
  <2>2. QED  BY <2>1, PendingStep
<1>4. ASSUME NEW v \in Workers, NEW step \in {"commit", "dead_commit"},
             CommitAt(v, step), UNCHANGED output
      PROVE  Goal
  <2>1. step \notin Outside
    BY DEF Outside
  <2>2. Taken(p) \subseteq Taken(p)' /\ Debt(p)' = Debt(p) /\ faults' = faults
    BY <1>0, <1>4, <2>1, TakenStaysAtCommit, CommittingIsFree
  <2>3. Cardinality(Turns(r)) <= Cardinality(Turns(r)')
    BY <1>1, <2>2, TurnsStep, FS_Subset
  <2>4. Pending(r)' \subseteq Pending(r)
    BY <1>3, <1>4 DEF CommitAt
  <2>5. Results(r)' = Results(r)
    BY <1>4 DEF Results
  <2>6. Cardinality(Pending(r)') <= Cardinality(Pending(r))
    BY <1>1, <2>4, FS_Subset
  <2>7. QED  BY <1>0, <1>1, <2>2, <2>3, <2>5, <2>6, AccountStep
<1>5. ASSUME NEW v \in Workers, Fetch(v)
      PROVE  Goal
  <2>1. PICK q \in Partitions : Begin(v, q, "publish")
    BY <1>5 DEF Fetch
  <2>2. "publish" \notin Outside
    BY DEF Outside
  <2>3. Pays(p) /\ ~Loses(p)
    BY <1>0, <2>1, <2>2, BeginPays
  <2>4. /\ \A w \in Workers \ {v} : pc'[w] = pc[w]
        /\ part'[v] = q /\ offset'[v] = committed[q] + 1
        /\ pc'[v] = "publish" /\ UNCHANGED <<input, faults, output>>
        /\ committed[q] + 1 \in 1..Len(input[q])
    <3>1. /\ \A w \in Workers \ {v} : pc'[w] = pc[w]
          /\ part'[v] = q /\ offset'[v] = committed[q] + 1
          /\ pc'[v] = "publish" /\ UNCHANGED <<input, faults, output>>
      BY <1>0, <1>5, <2>1 DEF Fetch, Begin, LoopTypeOK
    <3>2. /\ committed[q] \in Nat /\ Len(input[q]) \in Nat
          /\ committed[q] < Len(input[q])
      BY <1>0, <2>1 DEF Begin, LoopTypeOK
    <3>3. QED  BY <3>1, <3>2
  <2>5. Pending(r)' \subseteq Pending(r) \cup {v}
    BY <2>4, PendingStep
  <2>6. CASE Message(v)' # r
    <3>1. Pending(r)' \subseteq Pending(r)
      BY <2>5, <2>6 DEF Pending
    <3>2. QED  BY <1>2, <2>3, <2>4, <3>1
  <2>7. CASE Message(v)' = r
    <3>1. input[q][committed[q] + 1] = r
      BY <2>4, <2>7 DEF Message
    <3>2. q = p
      BY <2>4, <3>1 DEF IInv, Routed
    <3>3. committed[p] + 1 \notin Taken(p) /\ committed[p] + 1 \in Taken(p)'
      BY <1>0, <2>1, <3>2, BeginTakes
    <3>4. committed[p] + 1 \notin Turns(r) /\ committed[p] + 1 \in Turns(r)'
      BY <2>4, <3>1, <3>2, <3>3 DEF Turns
    <3>5. Taken(p) \subseteq Taken(p)'
      BY <1>0, <2>3, NextIsLoopStep, TakenStays
    <3>6. Turns(r) \cup {committed[p] + 1} \subseteq Turns(r)'
      BY <3>4, <3>5, TurnsStep
    <3>7. IsFiniteSet(Turns(r)) /\ Cardinality(Turns(r)) + 1 <= Cardinality(Turns(r)')
      <4>1. IsFiniteSet(Turns(r))
        BY <1>0, CopiesFinite
      <4>2. Cardinality(Turns(r) \cup {committed[p] + 1})
               = Cardinality(Turns(r)) + 1
        BY <3>4, <4>1, FS_AddElement
      <4>3. QED  BY <1>1, <3>6, <4>1, <4>2, FS_Subset
    <3>8. Results(r)' = Results(r)
      BY <2>4 DEF Results
    <3>9. Cardinality(Pending(r)') <= Cardinality(Pending(r)) + 1
      BY <1>1, <2>5, OneElementMore
    <3>10. Debt(p)' <= Debt(p)
      BY <1>0, <1>1, <2>3, <2>4 DEF Pays
    <3>11. /\ Cardinality(Results(r)') + Cardinality(Pending(r)')
                 <= Cardinality(Results(r)) + Cardinality(Pending(r)) + 1
           /\ Debt(p)' + Cardinality(Turns(r)) + 1
                 <= Debt(p) + Cardinality(Turns(r)') + 2 * (faults' - faults)
      <4>1. 2 * (faults' - faults) = 0
        BY <1>0, <2>4
      <4>2. Cardinality(Results(r)') = Cardinality(Results(r))
        BY <3>8
      <4>3. QED  BY <1>1, <3>7, <3>9, <3>10, <4>1, <4>2
    <3>12. QED  BY <1>0, <3>11, AccountStep
  <2>8. QED  BY <2>6, <2>7
<1>6. ASSUME NEW v \in Workers, Busy(v), NEW step \in BodySteps,
             pc' = [pc EXCEPT ![v] = step], UNCHANGED <<owner, leased, part>>,
             faults <= faults'
      PROVE  /\ Pays(p) /\ Debt(p)' <= Debt(p) + 2 * (faults' - faults)
             /\ Cardinality(Turns(r)) <= Cardinality(Turns(r)')
             /\ Debt(p)' <= Debt(p)
             /\ \A w \in Workers \ {v} : pc'[w] = pc[w]
             /\ pc'[v] = step
  <2>1. step \notin Outside
    BY DEF BodySteps, Outside
  <2>2. Pays(p) /\ ~Loses(p)
    BY <1>0, <1>6, <2>1, StayingPays
  <2>3. Taken(p) \subseteq Taken(p)'
    BY <1>0, <2>2, NextIsLoopStep, TakenStays
  <2>4. Cardinality(Turns(r)) <= Cardinality(Turns(r)')
    BY <1>1, <2>3, TurnsStep, FS_Subset
  <2>5. Debt(p)' = Debt(p)
    <3>1. Live' = Live
      BY <1>0, <1>6, <2>1 DEF Busy, Live, Outside
    <3>2. QED  BY <1>6, <3>1 DEF Debt, Absent, Looming
  <2>6. QED  BY <1>0, <1>1, <1>6, <2>2, <2>4, <2>5 DEF Pays
<1>7. ASSUME NEW v \in Workers, Publish(v)
      PROVE  Goal
  <2>1. /\ Busy(v) /\ pc[v] = "publish" /\ pc' = [pc EXCEPT ![v] = "commit"]
        /\ UNCHANGED <<owner, leased, part, faults>> /\ AppendResult(v)
    BY <1>7 DEF Publish, Goto, NoFault, Busy, Live
  <2>2. /\ Cardinality(Turns(r)) <= Cardinality(Turns(r)')
        /\ Debt(p)' <= Debt(p) /\ pc'[v] = "commit"
        /\ \A w \in Workers \ {v} : pc'[w] = pc[w]
    <3>1. "commit" \in BodySteps /\ faults <= faults'
      BY <1>0, <2>1 DEF BodySteps
    <3>2. QED  BY <1>6, <2>1, <3>1
  <2>3. Pending(r)' \subseteq Pending(r) /\ v \notin Pending(r)'
    <3>1. Pending(r)' \subseteq Pending(r)
      BY <2>2, PendingStep
    <3>2. QED  BY <2>2, <3>1 DEF Pending
  <2>4. CASE Message(v) = r
    <3>1. v \in Pending(r)
      BY <2>1, <2>4 DEF Pending
    <3>2. Cardinality(Pending(r) \ {v}) = Cardinality(Pending(r)) - 1
      BY <1>1, <3>1, OneWorkerMore
    <3>3. Pending(r)' \subseteq Pending(r) \ {v} /\ IsFiniteSet(Pending(r) \ {v})
      BY <1>1, <2>3, FS_RemoveElement
    <3>4. Cardinality(Pending(r)') <= Cardinality(Pending(r)) - 1
      BY <3>2, <3>3, FS_Subset
    <3>5. Cardinality(Results(r)') <= Cardinality(Results(r)) + 1
      BY <1>1, <2>1, ResultsStep, OneElementMore
    <3>6. QED  BY <1>0, <1>1, <2>1, <2>2, <3>4, <3>5, AccountStep
  <2>5. CASE Message(v) # r
    <3>1. Cardinality(Pending(r)') <= Cardinality(Pending(r))
      BY <1>1, <2>3, FS_Subset
    <3>2. Cardinality(Results(r)') <= Cardinality(Results(r))
      BY <1>1, <2>1, <2>5, ResultsStep, FS_Subset
    <3>3. QED  BY <1>0, <1>1, <2>1, <2>2, <3>1, <3>2, AccountStep
  <2>6. QED  BY <2>4, <2>5
<1>8. ASSUME NEW v \in Workers, PublishRaises(v) \/ CommitRaises(v)
      PROVE  Goal
  <2>1. /\ Busy(v) /\ pc[v] \in {"publish", "commit"}
        /\ RetryOrGiveUp(v, "publish") /\ UNCHANGED owner
        /\ faults' = faults + 1
        /\ IF pc[v] = "publish" THEN AppendResult(v) \/ UNCHANGED output
                                ELSE UNCHANGED output
    BY <1>8 DEF PublishRaises, CommitRaises, CommitRaisesAt, Fault, Busy, Live
  <2>2. PICK step \in BodySteps : pc' = [pc EXCEPT ![v] = step]
    BY <2>1 DEF RetryOrGiveUp, BodySteps
  <2>3. UNCHANGED <<leased, part>> /\ faults <= faults'
    BY <1>0, <2>1 DEF RetryOrGiveUp
  <2>4. /\ Cardinality(Turns(r)) <= Cardinality(Turns(r)')
        /\ Debt(p)' <= Debt(p)
        /\ \A w \in Workers \ {v} : pc'[w] = pc[w]
    BY <1>6, <2>1, <2>2, <2>3
  <2>5. Pending(r)' \subseteq Pending(r) \cup {v}
    BY <2>4, PendingStep
  <2>6. CASE pc[v] = "publish"
    <3>1. Pending(r)' \subseteq Pending(r)
      BY <2>4, <2>6, PendingStep
    <3>2. Cardinality(Pending(r)') <= Cardinality(Pending(r))
      BY <1>1, <3>1, FS_Subset
    <3>3. Cardinality(Results(r)') <= Cardinality(Results(r)) + 1
      BY <1>1, <2>1, <2>6, ResultsStep, OneElementMore
    <3>4. QED  BY <1>0, <1>1, <2>1, <2>4, <3>2, <3>3, AccountStep
  <2>7. CASE pc[v] = "commit"
    <3>1. Cardinality(Pending(r)') <= Cardinality(Pending(r)) + 1
      BY <1>1, <2>5, OneElementMore
    <3>2. Results(r)' = Results(r)
      BY <2>1, <2>7 DEF Results
    <3>3. QED  BY <1>0, <1>1, <2>1, <2>4, <3>1, <3>2, AccountStep
  <2>8. QED  BY <2>1, <2>6, <2>7
<1>9. ASSUME NEW v \in Workers, DeadLetter(v)
      PROVE  Goal
  <2>1. /\ Busy(v) /\ pc' = [pc EXCEPT ![v] = "dead_commit"]
        /\ UNCHANGED <<owner, leased, part, faults, output>>
    BY <1>9 DEF DeadLetter, Goto, NoFault, Busy, Live
  <2>2. /\ Pays(p) /\ pc'[v] = "dead_commit"
        /\ \A w \in Workers \ {v} : pc'[w] = pc[w]
    <3>1. "dead_commit" \in BodySteps /\ faults <= faults'
      BY <1>0, <2>1 DEF BodySteps
    <3>2. QED  BY <1>6, <2>1, <3>1
  <2>3. QED  BY <1>2, <2>1, <2>2, PendingStep
<1>10. ASSUME NEW v \in Workers, UNCHANGED output,
              DeadLetterRaises(v) \/ DeadCommitRaises(v) \/ Crash(v)
       PROVE  Goal
  <2>1. Release(v, "down") /\ Fault /\ UNCHANGED owner
    BY <1>10 DEF DeadLetterRaises, DeadCommitRaises, CommitKillsAt, Crash
  <2>2. Pays(p)
    BY <1>0, <2>1, EndingPays
  <2>3. QED  BY <1>2, <1>3, <1>10, <2>1, <2>2
<1>11. ASSUME Rebalance \/ Takeover \/ \E v \in Workers : Restart(v),
              UNCHANGED output
       PROVE  Goal
  <2>1. Pays(p)
    BY <1>0, <1>11, GroupPays
  <2>2. \A w \in Workers : pc'[w] = "publish" => pc[w] = "publish"
    BY <1>0, <1>11 DEF Rebalance, Takeover, Restart, workerVars
  <2>3. Pending(r)' \subseteq Pending(r)
    BY <2>2, PendingStep, ConsumerLoopAssumption
  <2>4. QED  BY <1>2, <1>11, <2>1, <2>3
<1>12. ASSUME UNCHANGED vars \/ \E m \in Requests : Submit(m)
       PROVE  Goal
  <2>1. UNCHANGED <<pc, owner, leased, part, faults, output>>
    BY <1>12 DEF vars, loopVars, groupVars, workerVars, Submit
  <2>2. Pays(p)
    BY <1>0, <2>1, QuietPays DEF Live
  <2>3. Pending(r)' \subseteq Pending(r)
    BY <2>1, PendingStep, ConsumerLoopAssumption
  <2>4. QED  BY <1>2, <2>1, <2>2, <2>3
<1>13. QED
  BY <1>4, <1>5, <1>7, <1>8, <1>9, <1>10, <1>11, <1>12
     DEF Next, WorkerStep, Failure, Environment, Commit, DeadCommit,
         DeadLetterRaises, DeadCommitRaises

\* Every request is published once for each time it was submitted, and at
\* most twice more for every failure.
THEOREM DuplicatesCostFailures == SafeSpec => []DuplicatesBounded
<1>1. Init => CopiesInv
  <2> SUFFICES ASSUME Init, NEW r \in Requests
               PROVE  Cardinality(Results(r)) + Cardinality(Pending(r))
                         + Debt(PartitionOf[r.txn])
                        <= Cardinality(Turns(r)) + 2 * faults
    BY DEF CopiesInv
  <2>1. /\ Live = Workers /\ faults = 0
        /\ \A w \in Workers : pc[w] = "idle"
        /\ owner \in [Partitions -> Workers]
        /\ \A p \in Partitions : output[p] = <<>> /\ input[p] = <<>>
    BY DEF Init, LoopInit, Live
  <2>2. PartitionOf[r.txn] \in Partitions
    BY RequestIsRouted
  <2>3. /\ Results(r) = {} /\ Pending(r) = {} /\ Turns(r) = {}
        /\ Absent = {} /\ Looming(PartitionOf[r.txn]) = 0
    BY <2>1, <2>2 DEF Results, Pending, Turns, Taken, Absent, Looming
  <2>4. QED  BY <2>1, <2>3, FS_EmptySet DEF Debt
<1>2. IInv /\ CopiesInv => DuplicatesBounded
  <2> SUFFICES ASSUME IInv, CopiesInv, NEW r \in Requests
               PROVE  Copies(PartitionOf[r.txn], r)
                         <= Submissions(PartitionOf[r.txn], r) + 2 * faults
    BY DEF DuplicatesBounded
  <2> DEFINE p == PartitionOf[r.txn]
             Given == {i \in 1..Len(input[p]) : input[p][i] = r}
  <2>1. TypeOK /\ p \in Partitions
    BY RequestIsRouted DEF IInv
  <2>2. /\ Cardinality(Results(r)) \in Nat /\ Cardinality(Pending(r)) \in Nat
        /\ Cardinality(Turns(r)) \in Nat /\ Debt(p) \in Nat /\ faults \in Int
    <3>1. faults \in 0..MaxFaults
      BY <2>1 DEF TypeOK
    <3>2. faults \in Int
      BY <3>1, ConsumerLoopAssumption
    <3>3. QED  BY <2>1, <3>2, CopiesFinite, DebtType
  <2>3. IsFiniteSet(Given)
    <3>1. Len(input[p]) \in Int /\ 1 \in Int
      BY <2>1 DEF TypeOK
    <3>2. IsFiniteSet(1..Len(input[p]))
      BY <3>1, FS_Interval
    <3>3. QED  BY <3>2, FS_Subset
  <2>4. Cardinality(Turns(r)) <= Cardinality(Given) /\ Cardinality(Given) \in Nat
    <3>1. Turns(r) \subseteq Given
      BY DEF Turns, Taken
    <3>2. QED  BY <2>3, <3>1, FS_Subset, FS_CardinalityType
  <2>5. /\ Copies(p, r) = Cardinality(Results(r))
        /\ Submissions(p, r) = Cardinality(Given)
    BY DEF Copies, Submissions, Results
  <2>6. Cardinality(Results(r)) + Cardinality(Pending(r)) + Debt(p)
           <= Cardinality(Turns(r)) + 2 * faults
    BY DEF CopiesInv
  <2>7. QED  BY <2>2, <2>4, <2>5, <2>6
<1>3. IInv /\ CopiesInv /\ [Next]_vars => IInv' /\ CopiesInv'
  <2>1. IInv /\ [Next]_vars => IInv' /\ TypeOK'
    BY TypeStep, PositionsStep, RoutedStep, SettledBeforeCommitStep,
       CommittedIsSettledStep, NoOvertakingStep
       DEF IInv
  <2>2. QED  BY <2>1, CopiesStep
<1>4. QED  BY <1>1, <1>2, <1>3, InitIInv, PTL DEF SafeSpec

=============================================================================
