----------------------- MODULE NotificationServiceProofs -----------------------
(***************************************************************************)
(* Proofs about NotificationService, for any number of replicas,            *)
(* partitions, messages, retries and failures.                              *)
(***************************************************************************)
EXTENDS NotificationService, ConsumerLoopProofs

\* The inductive invariant: a worker at the commit of a dead letter has
\* written it.
BuriedFirst == \A w \in Workers : pc[w] = "dead_commit" => TxnOf(w) \in dlq

IInv ==
    /\ LoopTypeOK(Messages, Steps) /\ faults \in Nat
    /\ TypeOK
    /\ Positions
    /\ BuriedFirst

-----------------------------------------------------------------------------
(* Every step is a step of the loop.                                        *)

\* The steps of the body.
LEMMA StepsOfBody ==
    /\ {"idle", "down", "halted"} \subseteq Steps \cap Outside
    /\ {"mark", "existing", "store", "commit", "dead_letter", "dead_commit"}
          \subseteq Steps \ Outside
    /\ \A m \in Messages : First(m) \in {"mark", "commit"}
BY DEF Steps, Outside, First

\* The message in a busy worker's hands is one of the topic.
LEMMA HeldMessage ==
    ASSUME IInv, NEW w \in Workers, Busy(w)
    PROVE  Message(w) \in Messages /\ TxnOf(w) \in Txns
<1>1. /\ part[w] \in Partitions /\ offset[w] \in Nat
      /\ 1 <= offset[w] /\ offset[w] <= Len(input[part[w]])
  BY HoldsFacts DEF IInv
<1>2. input[part[w]] \in Seq(Messages)
  BY <1>1 DEF IInv, LoopTypeOK
<1>3. QED  BY <1>1, <1>2 DEF Message, TxnOf, Txns

\* So is the one an idle worker takes next.
LEMMA NextMessage ==
    ASSUME IInv, NEW w \in Workers, NEW p \in Partitions, NEW step,
           Begin(w, p, step)
    PROVE  /\ input[p][committed[p] + 1] \in Messages
           /\ Message(w)' = input[p][committed[p] + 1]
<1>1. /\ committed[p] \in Nat /\ input[p] \in Seq(Messages)
      /\ committed[p] < Len(input[p])
  BY DEF Begin, IInv, LoopTypeOK
<1>2. committed[p] + 1 \in 1..Len(input[p])
  BY <1>1
<1>3. part'[w] = p /\ offset'[w] = committed[p] + 1 /\ input' = input
  BY DEF Begin, IInv, LoopTypeOK
<1>4. QED  BY <1>1, <1>2, <1>3 DEF Message

\* Each handler is, for the loop, an arrival, a fetch, a step inside the body
\* or a letting go.
LEMMA NextIsLoopStep ==
    ASSUME IInv, Next
    PROVE  LoopStep(Messages, Steps)
<1> DEFINE Goal == LoopStep(Messages, Steps)
<1>1. LoopTypeOK(Messages, Steps) /\ Positions
  BY DEF IInv
<1>2. ASSUME NEW m \in Messages, Arrive(m)
      PROVE  Goal
  <2>1. PartitionOf[m.txn] \in Partitions
    BY NotificationServiceAssumption DEF Txns
  <2>2. Arrives(Messages)
    BY <1>2, <2>1 DEF Arrive, Arrives
  <2>3. QED  BY <2>2 DEF LoopStep
<1>3. ASSUME NEW w \in Workers, Fetch(w)
      PROVE  Goal
  <2>1. PICK p \in Partitions : Begin(w, p, First(input[p][committed[p] + 1]))
    BY <1>3 DEF Fetch
  <2>2. First(input[p][committed[p] + 1]) \in Steps \ Outside
    BY <2>1, NextMessage, StepsOfBody
  <2>3. QED  BY <2>1, <2>2 DEF LoopStep
<1>4. ASSUME NEW w \in Workers, NEW step \in Steps \ Outside,
             pc[w] \in Steps \ Outside, Goto(w, step),
             UNCHANGED <<input, committed, owner>>
      PROVE  Goal
  BY <1>1, <1>4, GotoStep, BusyPc
<1>5. ASSUME NEW w \in Workers,
             MarkSent(w) \/ ReadExisting(w) \/ Store(w) \/ DeadLetter(w)
      PROVE  Goal
  BY <1>4, <1>5, StepsOfBody
     DEF MarkSent, ReadExisting, Store, Inside, DeadLetter
<1>6. ASSUME NEW w \in Workers, pc[w] \in Steps \ Outside,
             NEW first \in Steps \ Outside,
             RetryOrGiveUp(w, first), CommitUnknown(w),
             UNCHANGED <<input, owner>>
      PROVE  Goal
  <2>1. Busy(w) /\ "dead_letter" \in Steps
    BY <1>6, BusyPc, StepsOfBody
  <2>2. QED  BY <1>1, <1>6, <2>1, RetryStep
<1>7. ASSUME NEW w \in Workers, RedisRaises(w)
      PROVE  Goal
  BY <1>6, <1>7, StepsOfBody DEF RedisRaises, CommitUnknown
<1>8. ASSUME NEW w \in Workers, CommitRaises(w)
      PROVE  Goal
  <2>1. pc[w] = "commit"
    BY <1>8 DEF CommitRaises, CommitRaisesAt
  <2>2. First(Message(w)) \in Steps \ Outside
    BY <2>1, BusyPc, HeldMessage, StepsOfBody
  <2>3. QED
    BY <1>6, <1>8, <2>1, <2>2, StepsOfBody DEF CommitRaises, CommitRaisesAt
<1>9. ASSUME NEW w \in Workers, DeadLetterRaises(w)
      PROVE  Goal
  BY <1>9, ReleaseStep, StepsOfBody DEF DeadLetterRaises
<1>10. ASSUME NEW w \in Workers,
              Commit(w) \/ DeadCommit(w) \/ DeadCommitRaises(w)
       PROVE  Goal
  BY <1>10, CommitStep, StepsOfBody DEF Commit, DeadCommit, DeadCommitRaises
<1>11. ASSUME Group
       PROVE  Goal
  BY <1>1, <1>11, GroupStep, StepsOfBody DEF Group
<1>12. ASSUME NEW t \in Txns, MarkExpires(t) \/ NoteExpires(t)
       PROVE  Goal
  BY <1>12 DEF MarkExpires, NoteExpires, LoopStep
<1>13. QED
  BY <1>2, <1>3, <1>5, <1>7, <1>8, <1>9, <1>10, <1>11, <1>12
     DEF Next, WorkerStep, Failure

\* The loop keeps its types and its places.
LEMMA LoopInvStep ==
    ASSUME IInv, [Next]_vars
    PROVE  /\ LoopStep(Messages, Steps)
           /\ LoopTypeOK(Messages, Steps)'
           /\ Positions'
<1>1. LoopTypeOK(Messages, Steps) /\ Positions
  BY DEF IInv
<1>2. LoopStep(Messages, Steps)
  BY NextIsLoopStep DEF vars, loopVars, LoopStep
<1>3. "idle" \in Steps
  BY DEF Steps
<1>4. QED
  BY <1>1, <1>2, <1>3, LoopStepKeepsTypes, LoopStepKeepsPositions

\* A worker that is busy before and after a step holds the same message.
LEMMA SameMessage ==
    ASSUME IInv, [Next]_vars, NEW v \in Workers, Busy(v), Busy(v)'
    PROVE  Message(v)' = Message(v) /\ TxnOf(v)' = TxnOf(v)
<1>1. Stays(v) \/ \E q \in Partitions : Begin(v, q, pc'[v])
  BY LoopInvStep, BusyStaysOrBegins DEF IInv
<1>2. Message(v)' = Message(v)
  BY <1>1, BusyPc DEF Begin, Outside, Stays
<1>3. QED  BY <1>2 DEF TxnOf

-----------------------------------------------------------------------------
(* What a step does to one worker.                                          *)

\* v takes a message: one without channels goes to the commit at once.
Takes(v) ==
    \E p \in Partitions : Begin(v, p, First(input[p][committed[p] + 1]))

\* v goes on with its message.
GoesOn(v) ==
    /\ Busy(v)
    /\ \/ pc'[v] = pc[v]
       \/ pc'[v] = "dead_letter"
       \/ pc'[v] = "mark" /\ pc[v] \in {"mark", "existing", "store"}
       \/ pc'[v] = First(Message(v)) /\ pc[v] = "commit"
       \/ pc'[v] = "existing" /\ pc[v] = "mark" /\ TxnOf(v) \in sent
       \/ pc'[v] = "store" /\ pc[v] = "mark" /\ MarkSent(v)
       \/ pc'[v] = "commit" /\ pc[v] = "existing"
       \/ pc'[v] = "commit" /\ pc[v] = "store" /\ Store(v)
       \/ pc'[v] = "dead_commit" /\ pc[v] = "dead_letter" /\ Bury(v)

Edge(v) == pc'[v] \in Outside \/ Takes(v) \/ GoesOn(v)

\* The handlers of one worker, its crash included.
Acts(w) == WorkerStep(w) \/ Failure(w) \/ (Crash(w) /\ UNCHANGED noteVars)

\* The handlers touch only their own worker.
LEMMA OthersStay ==
    ASSUME IInv, NEW w \in Workers, Acts(w)
    PROVE  /\ \A v \in Workers : v # w => pc'[v] = pc[v]
           /\ UNCHANGED input
           /\ (Busy(w) /\ CommitUnknown(w)) \/ UNCHANGED committed
           /\ dlq \subseteq dlq'
<1>1. pc \in [Workers -> Steps]
  BY DEF IInv, LoopTypeOK
<1>2. ASSUME \/ Fetch(w) \/ MarkSent(w) \/ ReadExisting(w) \/ Store(w)
             \/ DeadLetter(w) \/ RedisRaises(w) \/ DeadLetterRaises(w)
             \/ Crash(w) /\ UNCHANGED noteVars
      PROVE  /\ \A v \in Workers : v # w => pc'[v] = pc[v]
             /\ UNCHANGED <<input, committed>> /\ dlq \subseteq dlq'
  BY <1>1, <1>2
     DEF Fetch, Begin, MarkSent, ReadExisting, Store, Inside, Goto,
         DeadLetter, RedisRaises, RetryOrGiveUp, DeadLetterRaises, Bury,
         Crash, Release, noteVars
<1>3. ASSUME Commit(w) \/ DeadCommit(w) \/ DeadCommitRaises(w) \/ CommitRaises(w)
      PROVE  /\ \A v \in Workers : v # w => pc'[v] = pc[v]
             /\ UNCHANGED <<input, dlq>>
             /\ pc[w] \in {"commit", "dead_commit"} /\ CommitUnknown(w)
  BY <1>1, <1>3
     DEF Commit, DeadCommit, DeadCommitRaises, CommitAt, CommitKillsAt,
         Release, CommitRaises, CommitRaisesAt, RetryOrGiveUp, CommitUnknown,
         noteVars
<1>4. pc[w] \in {"commit", "dead_commit"} => Busy(w)
  BY BusyPc DEF Outside
<1>5. QED  BY <1>2, <1>3, <1>4 DEF Acts, WorkerStep, Failure

\* The mover takes one of the edges.
LEMMA MoverTakesAnEdge ==
    ASSUME IInv, NEW w \in Workers, Acts(w)
    PROVE  Edge(w)
<1>1. pc \in [Workers -> Steps]
  BY DEF IInv, LoopTypeOK
<1>2. pc[w] \notin Outside => Busy(w)
  BY BusyPc
<1>3. CASE Fetch(w)
  BY <1>3 DEF Fetch, Takes, Edge
<1>4. CASE MarkSent(w)
  BY <1>1, <1>2, <1>4 DEF MarkSent, Inside, Goto, Edge, GoesOn, Outside
<1>5. CASE ReadExisting(w)
  BY <1>1, <1>2, <1>5 DEF ReadExisting, Inside, Goto, Edge, GoesOn, Outside
<1>6. CASE Store(w)
  <2>1. pc[w] = "store" /\ pc'[w] = "commit"
    BY <1>1, <1>6 DEF Store, Inside, Goto
  <2>2. QED  BY <1>2, <1>6, <2>1 DEF Edge, GoesOn, Outside
<1>7. CASE DeadLetter(w)
  BY <1>1, <1>2, <1>7 DEF DeadLetter, Goto, Edge, GoesOn, Outside
<1>8. CASE RedisRaises(w)
  <2>1. pc[w] \in {"mark", "existing", "store"}
    BY <1>8 DEF RedisRaises
  <2>2. pc'[w] \in {"mark", "dead_letter"}
    BY <1>1, <1>8 DEF RedisRaises, RetryOrGiveUp
  <2>3. QED  BY <1>2, <2>1, <2>2 DEF Edge, GoesOn, Outside
<1>9. CASE CommitRaises(w)
  BY <1>1, <1>2, <1>9
     DEF CommitRaises, CommitRaisesAt, RetryOrGiveUp, Edge, GoesOn, Outside
<1>10. CASE \/ Commit(w) \/ DeadCommit(w) \/ DeadCommitRaises(w)
            \/ DeadLetterRaises(w) \/ Crash(w)
  BY <1>1, <1>10
     DEF Commit, DeadCommit, CommitAt, DeadCommitRaises, CommitKillsAt,
         DeadLetterRaises, Crash, Release, Edge, Outside
<1>11. QED
  BY <1>3, <1>4, <1>5, <1>6, <1>7, <1>8, <1>9, <1>10
     DEF Acts, WorkerStep, Failure

\* What a handler does to the stores concerns the transaction in its hands.
LEMMA HandlersAreLocal ==
    ASSUME IInv, NEW w \in Workers, Acts(w)
    PROVE  \/ UNCHANGED noteVars
           \/ /\ Busy(w)
              /\ sent' = sent \/ sent' = sent \cup {TxnOf(w)}
              /\ stored' = stored \/ (pc[w] = "store" /\ StoreNote(w))
              /\ \/ dispatched' = dispatched
                 \/ dispatched' = [dispatched EXCEPT ![TxnOf(w)] = @ + 1]
              /\ dlq' = dlq \/ Bury(w)
<1>1. pc[w] \notin Outside => Busy(w)
  BY BusyPc
<1>2. CASE MarkSent(w) \/ Store(w) \/ DeadLetter(w) \/ DeadLetterRaises(w)
  BY <1>1, <1>2
     DEF MarkSent, Store, Inside, DeadLetter, DeadLetterRaises, Outside
<1>3. CASE RedisRaises(w)
  BY <1>1, <1>3 DEF RedisRaises, Outside
<1>4. CASE \/ Fetch(w) \/ ReadExisting(w) \/ Commit(w) \/ CommitRaises(w)
           \/ DeadCommit(w) \/ DeadCommitRaises(w)
           \/ Crash(w) /\ UNCHANGED noteVars
  BY <1>4
     DEF Fetch, ReadExisting, Inside, Commit, CommitRaises, DeadCommit,
         DeadCommitRaises, noteVars
<1>5. QED  BY <1>2, <1>3, <1>4 DEF Acts, WorkerStep, Failure

\* Every other step moves no worker, except one that comes back.
LEMMA EnvironmentStays ==
    ASSUME IInv, [Next]_vars, ~ \E w \in Workers : Acts(w)
    PROVE  /\ \A v \in Workers : \/ pc'[v] = pc[v]
                                 \/ pc[v] = "down" /\ pc'[v] = "idle"
           /\ UNCHANGED <<committed, dispatched, dlq>>
           /\ \/ UNCHANGED <<sent, stored>>
              \/ \E t \in Txns : MarkExpires(t) \/ NoteExpires(t)
<1>1. pc \in [Workers -> Steps]
  BY DEF IInv, LoopTypeOK
<1>2. CASE (\E w \in Workers : Restart(w)) /\ UNCHANGED noteVars
  BY <1>1, <1>2 DEF Restart, noteVars
<1>3. CASE \/ (Rebalance \/ Takeover) /\ UNCHANGED noteVars
           \/ \E m \in Messages : Arrive(m)
           \/ \E t \in Txns : MarkExpires(t) \/ NoteExpires(t)
           \/ UNCHANGED vars
  BY <1>3
     DEF Rebalance, Takeover, Arrive, MarkExpires, NoteExpires, vars,
         loopVars, groupVars, workerVars, noteVars
<1>4. QED  BY <1>2, <1>3 DEF Next, Group, Acts

\* Every worker is on an edge in every step.
LEMMA EdgesTaken ==
    ASSUME IInv, [Next]_vars, NEW v \in Workers
    PROVE  Edge(v)
<1>1. ASSUME pc'[v] = pc[v] \/ (pc[v] = "down" /\ pc'[v] = "idle")
      PROVE  Edge(v)
  BY <1>1, BusyPc DEF Edge, GoesOn, Outside
<1>2. CASE \E w \in Workers : Acts(w)
  BY <1>1, <1>2, OthersStay, MoverTakesAnEdge
<1>3. CASE ~ \E w \in Workers : Acts(w)
  BY <1>1, <1>3, EnvironmentStays
<1>4. QED  BY <1>2, <1>3

\* The dead-letter topic keeps what is written to it.
LEMMA DlqGrows ==
    ASSUME IInv, [Next]_vars
    PROVE  dlq \subseteq dlq'
BY OthersStay, EnvironmentStays

\* At most one failure is counted in a step.
LEMMA FaultSteps ==
    ASSUME [Next]_vars
    PROVE  faults' = faults \/ faults' = faults + 1
<1>1. ASSUME NEW w \in Workers, WorkerStep(w) \/ Failure(w)
      PROVE  faults' = faults \/ faults' = faults + 1
  BY <1>1
     DEF WorkerStep, Failure, Fetch, Begin, MarkSent, ReadExisting, Store,
         Inside, NoFault, Fault, RedisRaises, Commit, CommitAt, CommitRaises,
         CommitRaisesAt, DeadLetter, DeadLetterRaises, DeadCommit,
         DeadCommitRaises, CommitKillsAt
<1>2. ASSUME Group \/ UNCHANGED vars
      PROVE  faults' = faults \/ faults' = faults + 1
  BY <1>2
     DEF Group, Crash, Restart, Rebalance, Takeover, Fault, vars, loopVars
<1>3. ASSUME \/ \E m \in Messages : Arrive(m)
             \/ \E t \in Txns : MarkExpires(t) \/ NoteExpires(t)
      PROVE  faults' = faults \/ faults' = faults + 1
  BY <1>3 DEF Arrive, MarkExpires, NoteExpires, Fault
<1>4. QED  BY <1>1, <1>2, <1>3 DEF Next

-----------------------------------------------------------------------------
(* The invariant is inductive.                                              *)

\* The stores keep their types.
LEMMA StoreTypes ==
    ASSUME IInv, [Next]_vars
    PROVE  /\ sent' \subseteq Txns /\ dlq' \subseteq Txns
           /\ stored' \in [Txns -> {NoNote} \cup {Note(m) : m \in Messages}]
           /\ dispatched' \in [Txns -> Nat]
<1>1. /\ sent \subseteq Txns /\ dlq \subseteq Txns
      /\ stored \in [Txns -> {NoNote} \cup {Note(m) : m \in Messages}]
      /\ dispatched \in [Txns -> Nat]
  BY DEF IInv, TypeOK
<1>2. ASSUME NEW w \in Workers, Acts(w), ~ UNCHANGED noteVars
      PROVE  /\ sent' \subseteq Txns /\ dlq' \subseteq Txns
             /\ stored' \in [Txns -> {NoNote} \cup {Note(m) : m \in Messages}]
             /\ dispatched' \in [Txns -> Nat]
  <2>1. /\ Busy(w)
        /\ sent' = sent \/ sent' = sent \cup {TxnOf(w)}
        /\ stored' = stored \/ StoreNote(w)
        /\ \/ dispatched' = dispatched
           \/ dispatched' = [dispatched EXCEPT ![TxnOf(w)] = @ + 1]
        /\ dlq' = dlq \/ Bury(w)
    BY <1>2, HandlersAreLocal
  <2>2. Message(w) \in Messages /\ TxnOf(w) \in Txns
    BY <2>1, HeldMessage
  <2>3. dispatched[TxnOf(w)] + 1 \in Nat
    BY <1>1, <2>2
  <2>4. dispatched' \in [Txns -> Nat]
    BY <1>1, <2>1, <2>3
  <2>5. stored' \in [Txns -> {NoNote} \cup {Note(m) : m \in Messages}]
    BY <1>1, <2>1, <2>2 DEF StoreNote
  <2>6. QED  BY <1>1, <2>1, <2>2, <2>4, <2>5 DEF Bury
<1>3. CASE ~ \E w \in Workers : Acts(w)
  <2>1. UNCHANGED <<dispatched, dlq>>
    BY <1>3, EnvironmentStays
  <2>2. \/ UNCHANGED <<sent, stored>>
        \/ \E t \in Txns : MarkExpires(t) \/ NoteExpires(t)
    BY <1>3, EnvironmentStays
  <2>3. QED  BY <1>1, <2>1, <2>2 DEF MarkExpires, NoteExpires
<1>4. CASE UNCHANGED noteVars
  BY <1>1, <1>4 DEF noteVars
<1>5. QED  BY <1>2, <1>3, <1>4

\* Only an event with channels is marked and stored.
LEMMA RoutedStep ==
    ASSUME IInv, [Next]_vars, NEW w \in Workers,
           pc'[w] \in {"mark", "existing", "store"}
    PROVE  Routed(Message(w)')
<1>1. Takes(w) \/ GoesOn(w)
  BY EdgesTaken DEF Edge, Outside
<1>2. CASE Takes(w)
  <2>1. PICK p \in Partitions : Begin(w, p, First(input[p][committed[p] + 1]))
    BY <1>2 DEF Takes
  <2>2. pc'[w] = First(Message(w)')
    BY <2>1, NextMessage DEF Begin, IInv, LoopTypeOK
  <2>3. QED  BY <2>2 DEF First
<1>3. CASE GoesOn(w)
  <2>1. Busy(w) /\ Busy(w)'
    BY <1>3, BusyPcNext DEF GoesOn, Outside
  <2>2. Message(w)' = Message(w)
    BY <2>1, SameMessage
  <2>3. pc[w] \in {"mark", "existing", "store"} => Routed(Message(w))
    BY DEF IInv, TypeOK
  <2>4. pc[w] \in {"mark", "existing", "store"} \/ pc'[w] = First(Message(w))
    BY <1>3 DEF GoesOn
  <2>5. QED  BY <2>2, <2>3, <2>4 DEF First
<1>4. QED  BY <1>1, <1>2, <1>3

\* The types are kept.
LEMMA TypeStep == IInv /\ [Next]_vars => TypeOK'
<1> SUFFICES ASSUME IInv, [Next]_vars
             PROVE  TypeOK'
  OBVIOUS
<1>1. /\ input' \in [Partitions -> Seq(Messages)]
      /\ pc' \in [Workers -> Steps]
  BY LoopInvStep DEF LoopTypeOK
<1>2. \A p \in Partitions : \A i \in 1..Len(input'[p]) : input'[p][i] \in Messages
  BY <1>1
<1>3. \A w \in Workers :
          pc'[w] \in {"mark", "existing", "store"} => Routed(Message(w)')
  BY RoutedStep
<1>4. QED  BY <1>1, <1>2, <1>3, StoreTypes DEF TypeOK

\* A dead letter is written before its offset is passed.
LEMMA BuriedFirstStep == IInv /\ [Next]_vars => BuriedFirst'
<1> SUFFICES ASSUME IInv, [Next]_vars, NEW w \in Workers,
                    pc'[w] = "dead_commit"
             PROVE  TxnOf(w)' \in dlq'
  BY DEF BuriedFirst
<1>1. GoesOn(w)
  <2>1. ASSUME Takes(w)
        PROVE  FALSE
    <3>1. PICK p \in Partitions : Begin(w, p, First(input[p][committed[p] + 1]))
      BY <2>1 DEF Takes
    <3>2. pc'[w] \in {"mark", "commit"}
      BY <3>1, NextMessage, StepsOfBody DEF Begin, IInv, LoopTypeOK
    <3>3. QED  BY <3>2
  <2>2. QED  BY <2>1, EdgesTaken DEF Edge, Outside
<1>2. Busy(w) /\ Busy(w)'
  BY <1>1, BusyPcNext DEF GoesOn, Outside
<1>3. TxnOf(w)' = TxnOf(w)
  BY <1>2, SameMessage
<1>4. CASE pc[w] = "dead_commit"
  BY <1>3, <1>4, DlqGrows DEF IInv, BuriedFirst
<1>5. CASE pc[w] # "dead_commit"
  <2>1. Bury(w)
    BY <1>1, <1>5 DEF GoesOn, First
  <2>2. QED  BY <1>3, <2>1 DEF Bury
<1>6. QED  BY <1>4, <1>5

\* Before the first message there is nothing to be wrong about.
LEMMA InitIInv == Init => IInv
<1> SUFFICES ASSUME Init
             PROVE  IInv
  OBVIOUS
<1>1. LoopTypeOK(Messages, Steps)
  BY AnyPartitionType, StepsOfBody DEF Init, LoopInit, LoopTypeOK
<1>2. \A w \in Workers : pc[w] = "idle"
  BY DEF Init, LoopInit
<1>3. Positions
  BY <1>2
     DEF Init, LoopInit, Positions, CommittedInLog, Holds, Covers, Busy
<1>4. TypeOK
  BY <1>1, <1>2 DEF Init, TypeOK, LoopTypeOK
<1>5. BuriedFirst
  BY <1>2 DEF BuriedFirst
<1>6. faults \in Nat
  BY DEF Init, LoopInit
<1>7. QED  BY <1>1, <1>3, <1>4, <1>5, <1>6 DEF IInv

\* Every step keeps all of it.
LEMMA NextIInv == IInv /\ [Next]_vars => IInv'
<1> SUFFICES ASSUME IInv, [Next]_vars
             PROVE  IInv'
  OBVIOUS
<1>1. faults' \in Nat
  BY FaultSteps DEF IInv
<1>2. QED  BY <1>1, LoopInvStep, TypeStep, BuriedFirstStep DEF IInv

\* The inductive invariant holds in every state the service reaches.
THEOREM Invariance == SafeSpec => []IInv
<1>1. QED  BY InitIInv, NextIInv, PTL DEF SafeSpec

\* Each variable has its type, and only an event that asks for a notification
\* is marked or stored.
THEOREM TypeCorrect == SafeSpec => []TypeOK
<1>1. IInv => TypeOK
  BY DEF IInv
<1>2. QED  BY <1>1, Invariance, PTL

-----------------------------------------------------------------------------
(* Counting dispatches: each is paid for by a mark or a failure.            *)

\* The workers about to store and dispatch the notification of t.
AtStore(t) == {w \in Workers : pc[w] = "store" /\ TxnOf(w) = t}

MarkOf(t) == IF t \in sent THEN 1 ELSE 0

\* What was dispatched and what is about to be, is covered by the mark that is
\* there now and the failures so far.
DispatchInv ==
    \A t \in Txns :
        dispatched[t] + Cardinality(AtStore(t)) <= MarkOf(t) + faults

\* A worker comes to the store only by setting the mark.
LEMMA ComingToStore ==
    ASSUME IInv, [Next]_vars, NEW t \in Txns, NEW v \in AtStore(t)'
    PROVE  \/ v \in AtStore(t)
           \/ MarkSent(v) /\ pc[v] = "mark" /\ TxnOf(v) = t /\ t \notin sent
<1>1. v \in Workers /\ pc'[v] = "store" /\ TxnOf(v)' = t
  BY DEF AtStore
<1>2. GoesOn(v)
  <2>1. ASSUME Takes(v)
        PROVE  FALSE
    <3>1. PICK p \in Partitions : Begin(v, p, First(input[p][committed[p] + 1]))
      BY <2>1 DEF Takes
    <3>2. pc'[v] \in {"mark", "commit"}
      BY <1>1, <3>1, NextMessage, StepsOfBody DEF Begin, IInv, LoopTypeOK
    <3>3. QED  BY <1>1, <3>2
  <2>2. QED  BY <1>1, <2>1, EdgesTaken DEF Edge, Outside
<1>3. Busy(v) /\ Busy(v)'
  BY <1>1, <1>2, BusyPcNext DEF GoesOn, Outside
<1>4. TxnOf(v) = t
  BY <1>1, <1>3, SameMessage
<1>5. pc[v] = "store" \/ (pc[v] = "mark" /\ MarkSent(v))
  BY <1>1, <1>2 DEF GoesOn, First
<1>6. ASSUME MarkSent(v)
      PROVE  t \notin sent
  BY <1>1, <1>4, <1>6 DEF MarkSent, Inside, Goto, IInv, LoopTypeOK
<1>7. QED  BY <1>1, <1>4, <1>5, <1>6 DEF AtStore

\* Only a store dispatches.
LEMMA OnlyStoreDispatches ==
    ASSUME [Next]_vars, ~ UNCHANGED dispatched
    PROVE  \E w \in Workers : Store(w)
<1>1. ASSUME NEW w \in Workers, WorkerStep(w) \/ Failure(w), ~ Store(w)
      PROVE  UNCHANGED dispatched
  BY <1>1
     DEF WorkerStep, Failure, Fetch, MarkSent, ReadExisting, Commit,
         DeadLetter, DeadCommit, RedisRaises, CommitRaises, DeadLetterRaises,
         DeadCommitRaises, noteVars
<1>2. ASSUME \/ Group \/ UNCHANGED vars
             \/ \E m \in Messages : Arrive(m)
             \/ \E t \in Txns : MarkExpires(t) \/ NoteExpires(t)
      PROVE  UNCHANGED dispatched
  BY <1>2 DEF Group, Arrive, MarkExpires, NoteExpires, vars, noteVars
<1>3. QED  BY <1>1, <1>2 DEF Next

\* A mark that goes away is a failure.
LEMMA MarksExpireAsFaults ==
    ASSUME [Next]_vars, NEW t \in sent, t \notin sent'
    PROVE  faults' = faults + 1
<1>1. ASSUME NEW w \in Workers, WorkerStep(w) \/ Failure(w)
      PROVE  sent \subseteq sent'
  BY <1>1
     DEF WorkerStep, Failure, Fetch, MarkSent, ReadExisting, Store, Commit,
         DeadLetter, DeadCommit, RedisRaises, CommitRaises, DeadLetterRaises,
         DeadCommitRaises, noteVars
<1>2. ASSUME \/ Group \/ UNCHANGED vars
             \/ \E m \in Messages : Arrive(m)
             \/ \E s \in Txns : NoteExpires(s)
      PROVE  UNCHANGED sent
  BY <1>2 DEF Group, Arrive, NoteExpires, vars, noteVars
<1>3. PICK s \in Txns : MarkExpires(s)
  BY <1>1, <1>2 DEF Next
<1>4. QED  BY <1>3 DEF MarkExpires, Fault

\* The counts are numbers.
LEMMA StoreCounts ==
    ASSUME IInv, NEW t \in Txns
    PROVE  /\ AtStore(t) \in SUBSET Workers
           /\ Cardinality(AtStore(t)) \in Nat
           /\ dispatched[t] \in Nat /\ faults \in Nat
BY SomeWorkers DEF AtStore, IInv, TypeOK

\* Every step keeps the books.
LEMMA DispatchStep == IInv /\ DispatchInv /\ [Next]_vars => DispatchInv'
<1> SUFFICES ASSUME IInv, DispatchInv, [Next]_vars, NEW t \in Txns
             PROVE  dispatched'[t] + Cardinality(AtStore(t)')
                        <= MarkOf(t)' + faults'
  BY DEF DispatchInv
<1> DEFINE Before == AtStore(t)
           After  == AtStore(t)'
<1>1. /\ Before \in SUBSET Workers /\ Cardinality(Before) \in Nat
      /\ dispatched[t] \in Nat /\ faults \in Nat
      /\ dispatched[t] + Cardinality(Before) <= MarkOf(t) + faults
  BY StoreCounts DEF DispatchInv
<1>2. IInv'
  BY NextIInv
<1>3. /\ After \in SUBSET Workers /\ Cardinality(After) \in Nat
      /\ dispatched'[t] \in Nat /\ faults' \in Nat
  <2>1. After \in SUBSET Workers
    BY DEF AtStore
  <2>2. dispatched'[t] \in Nat /\ faults' \in Nat
    BY <1>2 DEF IInv, TypeOK
  <2>3. QED  BY <2>1, <2>2, SomeWorkers
<1>4. \A v \in After : \/ v \in Before
                       \/ MarkSent(v) /\ TxnOf(v) = t /\ t \notin sent
  BY ComingToStore
<1>5. ASSUME NEW v \in Workers, MarkSent(v), TxnOf(v) = t, t \notin sent
      PROVE  dispatched'[t] + Cardinality(After) <= MarkOf(t)' + faults'
  <2>1. After \subseteq Before \cup {v}
    <3>1. ASSUME NEW u \in After, u # v
          PROVE  u \in Before
      <4>1. Acts(v)
        BY <1>5 DEF Acts, WorkerStep
      <4>2. u \in Workers /\ pc'[u] = pc[u]
        BY <1>3, <3>1, <4>1, OthersStay
      <4>3. pc[u] = "store"
        BY <4>2 DEF AtStore
      <4>4. ~ MarkSent(u)
        BY <4>3 DEF MarkSent, Inside
      <4>5. QED  BY <1>4, <4>4
    <3>2. QED  BY <3>1
  <2>2. Cardinality(Before \cup {v}) <= Cardinality(Before) + 1
    BY <1>1, AtMostOneMore
  <2>3. Before \cup {v} \in SUBSET Workers
    BY <1>1
  <2>4. /\ Cardinality(Before \cup {v}) \in Nat
        /\ Cardinality(After) <= Cardinality(Before \cup {v})
    BY <2>1, <2>3, FewerWorkers, SomeWorkers
  <2>5. dispatched' = dispatched /\ faults' = faults /\ t \in sent'
    BY <1>5 DEF MarkSent, Inside, NoFault
  <2>6. MarkOf(t) = 0 /\ MarkOf(t)' = 1
    BY <1>5, <2>5 DEF MarkOf
  <2> HIDE DEF Before, After
  <2>7. QED  BY <1>1, <1>3, <2>2, <2>4, <2>5, <2>6
<1>6. ASSUME ~ \E v \in Workers : MarkSent(v) /\ TxnOf(v) = t /\ t \notin sent
      PROVE  dispatched'[t] + Cardinality(After) <= MarkOf(t)' + faults'
  <2>1. After \subseteq Before
    BY <1>3, <1>4, <1>6
  <2>2. ASSUME NEW w \in Workers, Store(w), TxnOf(w) = t
        PROVE  dispatched'[t] + Cardinality(After) <= MarkOf(t)' + faults'
    <3>1. pc[w] = "store" /\ pc'[w] = "commit"
      BY <2>2 DEF Store, Inside, Goto, IInv, LoopTypeOK
    <3>2. w \in Before /\ w \notin After
      BY <2>2, <3>1 DEF AtStore
    <3>3. Cardinality(Before \ {w}) = Cardinality(Before) - 1
      BY <1>1, <3>2, OneWorkerMore
    <3>4. Cardinality(After) <= Cardinality(Before \ {w})
      <4>1. After \subseteq Before \ {w} /\ Before \ {w} \in SUBSET Workers
        BY <1>1, <2>1, <3>2
      <4>2. QED  BY <4>1, FewerWorkers
    <3>5. dispatched'[t] = dispatched[t] + 1
      BY <2>2 DEF Store, IInv, TypeOK
    <3>6. faults' = faults /\ MarkOf(t)' = MarkOf(t)
      BY <2>2 DEF Store, Inside, NoFault, MarkOf
    <3>7. MarkOf(t) \in Nat
      BY DEF MarkOf
    <3> HIDE DEF Before, After
    <3>8. QED  BY <1>1, <1>3, <3>3, <3>4, <3>5, <3>6, <3>7
  <2>3. ASSUME ~ \E w \in Workers : Store(w) /\ TxnOf(w) = t
        PROVE  dispatched'[t] + Cardinality(After) <= MarkOf(t)' + faults'
    <3>1. dispatched'[t] = dispatched[t]
      <4>1. ASSUME NEW w \in Workers, Store(w)
            PROVE  dispatched'[t] = dispatched[t]
        BY <2>3, <4>1 DEF Store, IInv, TypeOK
      <4>2. QED  BY <4>1, OnlyStoreDispatches
    <3>2. Cardinality(After) <= Cardinality(Before)
      BY <1>1, <2>1, FewerWorkers
    <3>3. MarkOf(t) + faults <= MarkOf(t)' + faults'
      <4>1. faults' = faults \/ faults' = faults + 1
        BY FaultSteps
      <4>2. t \in sent /\ t \notin sent' => faults' = faults + 1
        BY MarksExpireAsFaults
      <4>3. QED  BY <1>1, <4>1, <4>2 DEF MarkOf
    <3>4. MarkOf(t) \in Nat /\ MarkOf(t)' \in Nat
      BY DEF MarkOf
    <3> HIDE DEF Before, After
    <3>5. QED  BY <1>1, <1>3, <3>1, <3>2, <3>3, <3>4
  <2>4. QED  BY <2>2, <2>3
<1>7. QED  BY <1>5, <1>6

\* However often its event is delivered, retried, or fetched by two replicas,
\* a notification is dispatched once, and once more per failure.
THEOREM DispatchesAreBounded == SafeSpec => []DispatchedOnce
<1>1. Init => DispatchInv
  <2> SUFFICES ASSUME Init, NEW t \in Txns
               PROVE  dispatched[t] + Cardinality(AtStore(t))
                          <= MarkOf(t) + faults
    BY DEF DispatchInv
  <2>1. dispatched[t] = 0 /\ faults = 0 /\ MarkOf(t) = 0
    BY DEF Init, LoopInit, MarkOf
  <2>2. AtStore(t) = {}
    BY DEF Init, LoopInit, AtStore
  <2>3. QED  BY <2>1, <2>2, FS_EmptySet
<1>2. IInv /\ DispatchInv => DispatchedOnce
  <2> SUFFICES ASSUME IInv, DispatchInv, NEW t \in Txns
               PROVE  dispatched[t] <= 1 + faults
    BY DEF DispatchedOnce
  <2>1. dispatched[t] + Cardinality(AtStore(t)) <= MarkOf(t) + faults
    BY DEF DispatchInv
  <2>2. MarkOf(t) \in Nat /\ MarkOf(t) <= 1
    BY DEF MarkOf
  <2>3. QED  BY <2>1, <2>2, StoreCounts
<1>3. QED  BY <1>1, <1>2, DispatchStep, Invariance, PTL DEF SafeSpec

-----------------------------------------------------------------------------
(* Counting losses: a notification that was begun and is not kept was lost  *)
(* to a failure.                                                            *)

\* Some replica took t for notified: its mark is set, an event of it that
\* asks for a notification is passed, or about to be.
DueTxns  == {m.txn : m \in Due}
Passing(t) ==
    \E w \in Workers : /\ pc[w] \in {"existing", "commit"}
                       /\ Routed(Message(w)) /\ TxnOf(w) = t
Begun(t) == t \in sent \/ t \in DueTxns \/ Passing(t)

\* The notification is stored, about to be stored, or given up in public.
Kept(t) == stored[t] # NoNote \/ t \in dlq \/ AtStore(t) # {}

Gone == {t \in Txns : Begun(t) /\ ~ Kept(t)}

LossInv == IsFiniteSet(Gone) /\ Cardinality(Gone) <= faults

\* Nothing goes wrong with t in this step.
Calm(t) ==
    /\ Begun(t)' => Begun(t) \/ Kept(t)'
    /\ Kept(t) => Kept(t)'

\* A message due after a step was due before, or a worker has just passed it.
LEMMA DueStep ==
    ASSUME IInv, [Next]_vars, NEW w \in Workers,
           (Busy(w) /\ CommitUnknown(w)) \/ UNCHANGED committed,
           NEW m \in Due'
    PROVE  m \in Due \/ (Busy(w) /\ ~ UNCHANGED committed /\ m = Message(w))
<1>0. PICK p \in Partitions :
          /\ m \in Messages /\ Routed(m)
          /\ \E i \in 1..committed'[p] : input'[p][i] = m
  BY DEF Due
<1>1. PICK i \in 1..committed'[p] :
          m \in Messages /\ Routed(m) /\ input'[p][i] = m
  BY <1>0
<1>2. /\ committed[p] \in Nat /\ committed'[p] \in Nat
      /\ Len(input[p]) \in Nat /\ committed[p] <= Len(input[p])
  <2>1. committed[p] \in Nat /\ input[p] \in Seq(Messages)
    BY DEF IInv, LoopTypeOK
  <2>2. committed'[p] \in Nat
    BY LoopInvStep DEF LoopTypeOK
  <2>3. committed[p] <= Len(input[p])
    BY DEF IInv, Positions, CommittedInLog
  <2>4. QED  BY <2>1, <2>2, <2>3
<1>3. \A j \in 1..Len(input[p]) : input'[p][j] = input[p][j]
  BY LoopInvStep, LoopStepGrows DEF IInv, Grows
<1>4. CASE i \in 1..committed[p]
  <2>1. input[p][i] = m
    BY <1>1, <1>2, <1>3, <1>4
  <2>2. QED  BY <1>1, <1>4, <2>1 DEF Due
<1>5. CASE i \notin 1..committed[p]
  <2>1. committed'[p] # committed[p]
    BY <1>1, <1>5
  <2>2. Busy(w) /\ CommitUnknown(w)
    BY <2>1
  <2>3. p = part[w] /\ committed'[p] = offset[w] /\ offset[w] = committed[p] + 1
    BY <2>1, <2>2, CommitFacts DEF IInv
  <2>4. i = offset[w]
    BY <1>1, <1>2, <1>5, <2>3
  <2>5. offset[w] \in 1..Len(input[p])
    BY <2>2, <2>3, HoldsFacts DEF IInv
  <2>6. input'[p][i] = Message(w)
    BY <1>3, <2>3, <2>4, <2>5 DEF Message
  <2>7. QED  BY <1>1, <2>1, <2>2, <2>6
<1>6. QED  BY <1>4, <1>5

\* A worker other than the one that moves still passes, or stores, its event.
LEMMA OthersKeepTheirs ==
    ASSUME IInv, [Next]_vars, NEW t \in Txns, NEW v \in Workers,
           pc'[v] = pc[v]
    PROVE  /\ v \in AtStore(t) => v \in AtStore(t)'
           /\ /\ pc'[v] \in {"existing", "commit"}
              /\ Routed(Message(v)') /\ TxnOf(v)' = t
              => Passing(t)
<1>1. CASE pc[v] \in {"store", "existing", "commit"}
  <2>1. Busy(v) /\ Busy(v)'
    BY <1>1, BusyPc, BusyPcNext DEF Outside
  <2>2. Message(v)' = Message(v) /\ TxnOf(v)' = TxnOf(v)
    BY <2>1, SameMessage
  <2>3. QED  BY <2>2 DEF AtStore, Passing
<1>2. CASE pc[v] \notin {"store", "existing", "commit"}
  BY <1>2 DEF AtStore
<1>3. QED  BY <1>1, <1>2

\* A step of w is nothing to the other transactions.
LEMMA OthersAreCalm ==
    ASSUME IInv, [Next]_vars, NEW w \in Workers, Acts(w),
           NEW t \in Txns, Busy(w) => t # TxnOf(w),
           Busy(w) \/ UNCHANGED noteVars,
           /\ pc'[w] \in {"existing", "commit"} /\ Routed(Message(w)')
           => Busy(w)
    PROVE  Calm(t)
<1>1. \A v \in Workers : v # w => pc'[v] = pc[v]
  BY OthersStay
<1>2. t \in sent' => t \in sent
  BY HandlersAreLocal DEF noteVars
<1>3. stored'[t] = stored[t]
  <2>1. Busy(w) => TxnOf(w) \in Txns
    BY HeldMessage
  <2>2. QED  BY <2>1, HandlersAreLocal DEF noteVars, StoreNote, IInv, TypeOK
<1>4. t \in DueTxns' => t \in DueTxns
  <2>1. ASSUME NEW m \in Due', m.txn = t
        PROVE  m \in Due
    <3>1. m \in Due \/ (Busy(w) /\ m = Message(w))
      BY OthersStay, DueStep
    <3>2. QED  BY <2>1, <3>1 DEF TxnOf
  <2>2. QED  BY <2>1 DEF DueTxns
<1>5. Passing(t)' => Passing(t)
  <2>1. ASSUME NEW v \in Workers, pc'[v] \in {"existing", "commit"},
               Routed(Message(v)'), TxnOf(v)' = t
        PROVE  Passing(t)
    <3>1. CASE v # w
      BY <1>1, <2>1, <3>1, OthersKeepTheirs
    <3>2. CASE v = w
      <4>1. Busy(w) /\ Busy(w)'
        BY <2>1, <3>2, BusyPcNext DEF Outside
      <4>2. QED  BY <2>1, <3>2, <4>1, SameMessage
    <3>3. QED  BY <3>1, <3>2
  <2>2. QED  BY <2>1 DEF Passing
<1>6. AtStore(t) # {} => AtStore(t)' # {}
  <2>1. ASSUME NEW v \in AtStore(t)
        PROVE  v \in AtStore(t)'
    <3>1. v \in Workers /\ pc[v] = "store" /\ TxnOf(v) = t
      BY DEF AtStore
    <3>2. v # w
      BY <3>1, BusyPc DEF Outside
    <3>3. QED  BY <1>1, <3>1, <3>2, OthersKeepTheirs
  <2>2. QED  BY <2>1
<1>7. t \in dlq => t \in dlq'
  BY DlqGrows
<1>8. QED  BY <1>2, <1>3, <1>4, <1>5, <1>6, <1>7 DEF Calm, Begun, Kept

\* What is kept stays kept, unless the worker that moves is about to store it.
LEMMA KeptStays ==
    ASSUME IInv, [Next]_vars, NEW w \in Workers, Acts(w), pc[w] # "store",
           NEW t \in Txns, Kept(t)
    PROVE  Kept(t)'
<1>1. stored'[t] = stored[t]
  BY HandlersAreLocal DEF noteVars
<1>2. t \in dlq => t \in dlq'
  BY DlqGrows
<1>3. ASSUME NEW v \in AtStore(t)
      PROVE  v \in AtStore(t)'
  <2>1. v \in Workers /\ v # w
    BY DEF AtStore
  <2>2. pc'[v] = pc[v]
    BY <2>1, OthersStay
  <2>3. QED  BY <2>1, <2>2, OthersKeepTheirs
<1>4. QED  BY <1>1, <1>2, <1>3 DEF Kept

\* After a step of w, its own event is the only one it can newly be passing.
LEMMA PassingAfter ==
    ASSUME IInv, [Next]_vars, NEW w \in Workers, Acts(w), NEW t \in Txns,
           Passing(t)', ~ Passing(t)
    PROVE  pc'[w] \in {"existing", "commit"} /\ TxnOf(w)' = t
<1>1. PICK v \in Workers : /\ pc'[v] \in {"existing", "commit"}
                           /\ Routed(Message(v)') /\ TxnOf(v)' = t
  BY DEF Passing
<1>2. v = w
  <2>1. ASSUME v # w
        PROVE  FALSE
    <3>1. pc'[v] = pc[v]
      BY <2>1, OthersStay
    <3>2. QED  BY <1>1, <3>1, OthersKeepTheirs
  <2>2. QED  BY <2>1
<1>3. QED  BY <1>1, <1>2

\* A step of the body that succeeds loses nothing.
LEMMA StepsAreCalm ==
    ASSUME IInv, [Next]_vars, NEW w \in Workers,
           \/ MarkSent(w) \/ ReadExisting(w) \/ Store(w) \/ Commit(w)
           \/ DeadLetter(w) \/ DeadCommit(w),
           NEW t \in Txns, t = TxnOf(w)
    PROVE  Calm(t)
<1>1. Acts(w) /\ pc \in [Workers -> Steps]
  BY DEF Acts, WorkerStep, IInv, LoopTypeOK
<1>2. pc[w] # "store" /\ Kept(t) => Kept(t)'
  BY <1>1, KeptStays
<1>3. CASE MarkSent(w)
  <2>1. pc[w] = "mark"
    BY <1>3 DEF MarkSent, Inside
  <2>2. CASE t \in sent
    BY <1>2, <2>1, <2>2 DEF Calm, Begun
  <2>3. CASE t \notin sent
    <3>1. pc'[w] = "store"
      BY <1>1, <1>3, <2>3 DEF MarkSent, Inside, Goto
    <3>2. Busy(w) /\ Busy(w)'
      BY <2>1, <3>1, BusyPc, BusyPcNext DEF Outside
    <3>3. w \in AtStore(t)'
      BY <3>1, <3>2, SameMessage DEF AtStore
    <3>4. QED  BY <3>3 DEF Calm, Kept
  <2>4. QED  BY <2>2, <2>3
<1>4. CASE ReadExisting(w)
  <2>1. pc[w] = "existing"
    BY <1>4 DEF ReadExisting, Inside
  <2>2. Passing(t)
    BY <2>1 DEF Passing, IInv, TypeOK
  <2>3. QED  BY <1>2, <2>1, <2>2 DEF Calm, Begun
<1>5. CASE Store(w)
  <2>1. pc[w] = "store"
    BY <1>5 DEF Store, Inside
  <2>2. Routed(Message(w))
    BY <2>1 DEF IInv, TypeOK
  <2>3. stored'[t].channels = Channels(Message(w))
    BY <1>5 DEF Store, StoreNote, Note, IInv, TypeOK
  <2>4. stored'[t] # NoNote
    BY <2>2, <2>3 DEF Routed, NoNote
  <2>5. QED  BY <2>4 DEF Calm, Kept
<1>6. CASE Commit(w)
  <2>1. /\ pc[w] = "commit" /\ pc'[w] = "idle"
        /\ UNCHANGED <<sent, stored, dlq>>
    BY <1>1, <1>6 DEF Commit, CommitAt, Release, noteVars
  <2>2. t \in DueTxns' => t \in DueTxns \/ Passing(t)
    <3>1. ASSUME NEW m \in Due', m.txn = t
          PROVE  m \in Due \/ Passing(t)
      <4>1. m \in Due \/ m = Message(w)
        BY <1>1, OthersStay, DueStep
      <4>2. Routed(m)
        BY DEF Due
      <4>3. QED  BY <2>1, <3>1, <4>1, <4>2 DEF Passing
    <3>2. QED  BY <3>1 DEF DueTxns
  <2>3. Passing(t)' => Passing(t)
    BY <1>1, <2>1, PassingAfter
  <2>4. QED  BY <1>2, <2>1, <2>2, <2>3 DEF Calm, Begun
<1>7. CASE DeadLetter(w)
  BY <1>7 DEF DeadLetter, Bury, Calm, Kept
<1>8. CASE DeadCommit(w)
  <2>1. pc[w] = "dead_commit" /\ t \in dlq
    BY <1>8 DEF DeadCommit, CommitAt, IInv, BuriedFirst
  <2>2. t \in dlq'
    BY <2>1, DlqGrows
  <2>3. QED  BY <2>2 DEF Calm, Kept
<1>9. QED  BY <1>3, <1>4, <1>5, <1>6, <1>7, <1>8

\* One transaction may lose its notification in a step, and then the step is
\* a failure.
LEMMA OneLossAtMost ==
    ASSUME IInv, [Next]_vars
    PROVE  \/ \A t \in Txns : Calm(t)
           \/ /\ faults' = faults + 1
              /\ \E s \in Txns : \A t \in Txns : t # s => Calm(t)
<1>1. ASSUME NEW w \in Workers, Fetch(w)
      PROVE  \A t \in Txns : Calm(t)
  <2>1. PICK p \in Partitions : Begin(w, p, First(input[p][committed[p] + 1]))
    BY <1>1 DEF Fetch
  <2>2. ~ Busy(w)
    BY <2>1 DEF Begin, Busy
  <2>3. pc'[w] = First(Message(w)')
    BY <2>1, NextMessage DEF Begin, IInv, LoopTypeOK
  <2>4. ~ (pc'[w] \in {"existing", "commit"} /\ Routed(Message(w)'))
    BY <2>3 DEF First
  <2>5. Acts(w) /\ UNCHANGED noteVars
    BY <1>1 DEF Acts, WorkerStep, Fetch
  <2>6. QED  BY <2>2, <2>4, <2>5, OthersAreCalm
<1>2. ASSUME NEW w \in Workers, Crash(w), UNCHANGED noteVars, ~ Busy(w)
      PROVE  \A t \in Txns : Calm(t)
  <2>1. pc'[w] = "down"
    BY <1>2 DEF Crash, Release, IInv, LoopTypeOK
  <2>2. Acts(w)
    BY <1>2 DEF Acts
  <2>3. QED  BY <1>2, <2>1, <2>2, OthersAreCalm
<1>3. ASSUME NEW w \in Workers,
             \/ MarkSent(w) \/ ReadExisting(w) \/ Store(w) \/ Commit(w)
             \/ DeadLetter(w) \/ DeadCommit(w)
      PROVE  \A t \in Txns : Calm(t)
  <2>1. Busy(w)
    BY <1>3, BusyPc
       DEF MarkSent, ReadExisting, Store, Inside, Commit, DeadLetter,
           DeadCommit, CommitAt, Outside
  <2>2. Acts(w)
    BY <1>3 DEF Acts, WorkerStep
  <2>3. QED  BY <1>3, <2>1, <2>2, StepsAreCalm, OthersAreCalm
<1>4. ASSUME NEW w \in Workers,
             \/ Failure(w)
             \/ Crash(w) /\ UNCHANGED noteVars /\ Busy(w)
      PROVE  /\ faults' = faults + 1
             /\ \E s \in Txns : \A t \in Txns : t # s => Calm(t)
  <2>1. Busy(w)
    BY <1>4, BusyPc
       DEF Failure, RedisRaises, CommitRaises, CommitRaisesAt,
           DeadLetterRaises, DeadCommitRaises, CommitKillsAt, Outside
  <2>2. Acts(w) /\ TxnOf(w) \in Txns
    BY <1>4, <2>1, HeldMessage DEF Acts
  <2>3. faults' = faults + 1
    BY <1>4
       DEF Failure, RedisRaises, CommitRaises, CommitRaisesAt,
           DeadLetterRaises, DeadCommitRaises, CommitKillsAt, Crash, Fault
  <2>4. \A t \in Txns : t # TxnOf(w) => Calm(t)
    BY <2>1, <2>2, OthersAreCalm
  <2>5. QED  BY <2>2, <2>3, <2>4
<1>5. CASE \E w \in Workers : Acts(w)
  BY <1>1, <1>2, <1>3, <1>4, <1>5 DEF Acts, WorkerStep
<1>6. ASSUME ~ \E w \in Workers : Acts(w),
             NEW t \in Txns, ~ NoteExpires(t)
      PROVE  Calm(t)
  <2>1. /\ \A v \in Workers : \/ pc'[v] = pc[v]
                              \/ pc[v] = "down" /\ pc'[v] = "idle"
        /\ UNCHANGED <<committed, dlq>>
    BY <1>6, EnvironmentStays
  <2>2. sent' \subseteq sent /\ stored'[t] = stored[t]
    <3>1. \/ UNCHANGED <<sent, stored>>
          \/ \E s \in Txns : MarkExpires(s) \/ NoteExpires(s)
      BY <1>6, EnvironmentStays
    <3>2. QED  BY <1>6, <3>1 DEF MarkExpires, NoteExpires, IInv, TypeOK
  <2>3. DueTxns' \subseteq DueTxns
    <3>1. \A w \in Workers, m \in Due' : m \in Due
      BY <2>1, DueStep
    <3>2. QED  BY <3>1, ConsumerLoopAssumption DEF DueTxns
  <2>4. Passing(t)' => Passing(t)
    <3>1. ASSUME NEW v \in Workers, pc'[v] \in {"existing", "commit"},
                 Routed(Message(v)'), TxnOf(v)' = t
          PROVE  Passing(t)
      <4>1. pc'[v] = pc[v]
        BY <2>1, <3>1
      <4>2. QED  BY <3>1, <4>1, OthersKeepTheirs
    <3>2. QED  BY <3>1 DEF Passing
  <2>5. \A v \in AtStore(t) : v \in AtStore(t)'
    <3>1. ASSUME NEW v \in AtStore(t)
          PROVE  v \in AtStore(t)'
      <4>1. v \in Workers /\ pc[v] = "store"
        BY DEF AtStore
      <4>2. pc'[v] = pc[v]
        BY <2>1, <4>1
      <4>3. QED  BY <4>1, <4>2, OthersKeepTheirs
    <3>2. QED  BY <3>1
  <2>6. QED
    BY <2>1, <2>2, <2>3, <2>4, <2>5 DEF Calm, Begun, Kept
<1>7. CASE ~ \E w \in Workers : Acts(w)
  <2>1. ASSUME NEW s \in Txns, NoteExpires(s)
        PROVE  /\ faults' = faults + 1
               /\ \A t \in Txns : t # s => Calm(t)
    <3>1. ASSUME NEW t \in Txns, t # s, NoteExpires(t)
          PROVE  FALSE
      BY <2>1, <3>1 DEF NoteExpires, IInv, TypeOK
    <3>2. QED  BY <1>6, <1>7, <2>1, <3>1 DEF NoteExpires, Fault
  <2>2. QED  BY <1>6, <1>7, <2>1
<1>8. QED  BY <1>5, <1>7

\* The set of the lost grows by one at most, and only in a failure.
LEMMA LossStep == IInv /\ LossInv /\ [Next]_vars => LossInv'
<1> SUFFICES ASSUME IInv, LossInv, [Next]_vars
             PROVE  LossInv'
  OBVIOUS
<1>1. \A t \in Txns : Calm(t) /\ t \in Gone' => t \in Gone
  BY DEF Gone, Calm
<1> DEFINE After == Gone'
<1>2. /\ IsFiniteSet(Gone) /\ Cardinality(Gone) \in Nat
      /\ Cardinality(Gone) <= faults
      /\ faults \in Nat /\ (faults' = faults \/ faults' = faults + 1)
  BY FS_CardinalityType, FaultSteps DEF LossInv, IInv
<1>3. After \subseteq Txns
  BY DEF Gone
<1> HIDE DEF After
<1>4. CASE \A t \in Txns : Calm(t)
  <2>1. After \subseteq Gone
    BY <1>1, <1>3, <1>4 DEF After
  <2>2. IsFiniteSet(After) /\ Cardinality(After) <= Cardinality(Gone)
    BY <1>2, <2>1, FS_Subset
  <2>3. Cardinality(After) \in Nat
    BY <2>2, FS_CardinalityType
  <2>4. Cardinality(After) <= faults'
    BY <1>2, <2>2, <2>3
  <2>5. QED  BY <2>2, <2>4 DEF LossInv, After
<1>5. ASSUME faults' = faults + 1,
             NEW s \in Txns, \A t \in Txns : t # s => Calm(t)
      PROVE  LossInv'
  <2> DEFINE More == Gone \cup {s}
  <2>1. After \subseteq More
    BY <1>1, <1>3, <1>5 DEF After
  <2>2. IsFiniteSet(More) /\ Cardinality(More) <= Cardinality(Gone) + 1
    <3>1. /\ IsFiniteSet(Gone \cup {s})
          /\ Cardinality(Gone \cup {s}) =
                IF s \in Gone THEN Cardinality(Gone) ELSE Cardinality(Gone) + 1
      BY <1>2, FS_AddElement
    <3>2. QED  BY <1>2, <3>1
  <2> HIDE DEF More
  <2>3. /\ IsFiniteSet(After)
        /\ Cardinality(After) <= Cardinality(More)
    BY <2>1, <2>2, FS_Subset
  <2>4. Cardinality(After) \in Nat /\ Cardinality(More) \in Nat
    BY <2>2, <2>3, FS_CardinalityType
  <2>5. Cardinality(After) <= faults'
    BY <1>2, <1>5, <2>2, <2>3, <2>4
  <2>6. QED  BY <2>3, <2>5 DEF LossInv, After
<1>6. QED  BY <1>4, <1>5, OneLossAtMost

\* A notification is lost only in a failure: what was passed, and is neither
\* kept nor dead-lettered nor about to be stored, is paid for by one each.
THEOREM LossesAreFailures == SafeSpec => []LossesCostFailures
<1>1. Init => LossInv
  <2> SUFFICES ASSUME Init
               PROVE  LossInv
    OBVIOUS
  <2>1. ASSUME NEW t \in Txns
        PROVE  ~ Begun(t)
    <3>1. sent = {} /\ \A w \in Workers : pc[w] = "idle"
      BY DEF Init, LoopInit
    <3>2. \A p \in Partitions : committed[p] = 0
      BY DEF Init, LoopInit
    <3>3. Due = {}
      BY <3>2 DEF Due
    <3>4. QED  BY <3>1, <3>3 DEF Begun, DueTxns, Passing
  <2>2. Gone = {}
    BY <2>1 DEF Gone
  <2>3. faults = 0
    BY DEF Init, LoopInit
  <2>4. QED  BY <2>2, <2>3, FS_EmptySet DEF LossInv
<1>2. IInv /\ LossInv => LossesCostFailures
  <2> SUFFICES ASSUME IInv, LossInv
               PROVE  LossesCostFailures
    OBVIOUS
  <2>1. Missing \subseteq Gone
    <3>1. ASSUME NEW t \in Missing
          PROVE  t \in Gone
      <4>1. t \in DueTxns /\ t \notin dlq /\ ~ (t \in Txns /\ stored[t] # NoNote)
        BY DEF Missing, DueTxns
      <4>2. t \in Txns
        BY <4>1 DEF DueTxns, Due, Txns
      <4>3. AtStore(t) = {}
        BY DEF Missing, AtStore
      <4>4. QED  BY <4>1, <4>2, <4>3 DEF Gone, Begun, Kept
    <3>2. QED  BY <3>1
  <2>2. IsFiniteSet(Missing) /\ Cardinality(Missing) <= Cardinality(Gone)
    BY <2>1, FS_Subset DEF LossInv
  <2>3. Cardinality(Missing) \in Nat /\ Cardinality(Gone) \in Nat
    BY <2>2, FS_CardinalityType DEF LossInv
  <2>4. faults \in Nat /\ Cardinality(Gone) <= faults
    BY DEF IInv, LossInv
  <2>5. QED  BY <2>2, <2>3, <2>4 DEF LossesCostFailures
<1>3. QED  BY <1>1, <1>2, LossStep, Invariance, PTL DEF SafeSpec

=============================================================================
