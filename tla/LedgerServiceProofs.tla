-------------------------- MODULE LedgerServiceProofs --------------------------
(***************************************************************************)
(* Proofs about LedgerService, for any number of replicas, partitions,      *)
(* messages, contacts, deletion requests, retries and failures.             *)
(***************************************************************************)
EXTENDS LedgerService, ConsumerLoopProofs

\* The variables TypeOK describes by their elements are functions.
ShapesOK ==
    /\ contacts \in [Contacts -> Seq(ContactRows)]
    /\ found \in [Workers -> Objects \cup {Nothing}]
    /\ erasing \in [Erasures -> [contact : Contacts \cup {NoContact},
                                 object : Objects \cup {Nothing}]]
    /\ faults \in Nat

\* A consumer session holds an object only between its two statements, and a
\* deletion only between its SELECT and its commit; the row is still there.
SessionsOK ==
    /\ \A w \in Workers :
          found[w] # Nothing =>
              /\ pc[w] = "record"
              /\ Message(w).contact \in Contacts
              /\ found[w].index \in 1..Len(contacts[Message(w).contact])
    /\ \A w \in Workers :
          pc[w] = "select_contact" => Message(w).contact # NoContact
    /\ \A d \in Erasures :
          erasing[d] # Idle =>
              /\ erasing[d].contact \in Contacts
              /\ erasing[d].object \in Objects
              /\ erasing[d].object.index \in 1..Len(contacts[erasing[d].contact])

\* An offset is passed only for what is in the ledger or dead-lettered.
SettledBeforeCommit ==
    \A w \in Workers :
        /\ pc[w] = "commit" => Message(w).txn \in Recorded
        /\ pc[w] = "dead_commit" => Message(w).txn \in dlq

\* The inductive invariant of the sessions and of the loop.
IInv ==
    /\ LoopTypeOK(Messages, Steps) /\ ShapesOK /\ TypeOK
    /\ Positions
    /\ SessionsOK
    /\ SettledBeforeCommit

-----------------------------------------------------------------------------
(* Lemmas about the data                                                    *)

\* What an event names is known.
LEMMA MessageFields ==
    ASSUME NEW m \in Messages
    PROVE  /\ m.txn \in Txns /\ PartitionOf[m.txn] \in Partitions
           /\ m.contact \in Contacts \cup {NoContact}
           /\ m.pii \in Names /\ m # NoRow
BY LedgerServiceAssumption DEF Txns, Contacts, Names

\* A loaded object is an object, and is not the absence of one.
LEMMA LoadedIsObject ==
    ASSUME NEW row \in ContactRows, NEW i \in Nat \ {0}
    PROVE  /\ Loaded(i, row) \in Objects
           /\ Loaded(i, row) # Nothing
           /\ Loaded(i, row).index = i
<1>1. Loaded(i, row) \in Objects /\ Loaded(i, row).index = i
  BY DEF Loaded, Objects, ContactRows
<1>2. Nothing.index = 0
  BY DEF Nothing
<1>3. QED  BY <1>1, <1>2

\* No object is the absence of one.
LEMMA NothingIsNoObject == Nothing \notin Objects
<1>1. Nothing.index = 0
  BY DEF Nothing
<1>2. QED  BY <1>1 DEF Objects

\* An UPDATE leaves a contact row.
LEMMA UpdatedIsRow ==
    ASSUME NEW row \in ContactRows, NEW object, NEW pii \in Names,
           NEW deleted \in BOOLEAN
    PROVE  Updated(row, object, pii, deleted) \in ContactRows
<1>1. row.pii \in Names /\ row.deleted \in BOOLEAN
  BY DEF ContactRows
<1>2. /\ (IF pii # object.pii THEN pii ELSE row.pii) \in Names
      /\ (IF deleted # object.deleted THEN deleted ELSE row.deleted) \in BOOLEAN
  BY <1>1
<1>3. QED  BY <1>2 DEF Updated, ContactRow, ContactRows

\* Changing one element of a sequence keeps its length.
LEMMA OneChanged ==
    ASSUME NEW D, NEW s \in Seq(D), NEW i \in 1..Len(s), NEW x \in D
    PROVE  /\ [s EXCEPT ![i] = x] \in Seq(D)
           /\ Len([s EXCEPT ![i] = x]) = Len(s)
OBVIOUS

-----------------------------------------------------------------------------
(* Every step is a step of the loop.                                        *)

\* The steps of the body.
LEMMA StepsOfBody ==
    /\ {"idle", "down", "halted"} \subseteq Steps \cap Outside
    /\ {"select", "select_contact", "record", "commit", "dead_letter",
        "dead_commit"} \subseteq Steps \ Outside
BY DEF Steps, Outside

\* The message in a busy worker's hands is one of the topic.
LEMMA HeldMessage ==
    ASSUME IInv, NEW w \in Workers, Busy(w)
    PROVE  Message(w) \in Messages
<1>1. /\ part[w] \in Partitions /\ offset[w] \in Nat
      /\ 1 <= offset[w] /\ offset[w] <= Len(input[part[w]])
  BY HoldsFacts DEF IInv
<1>2. input[part[w]] \in Seq(Messages)
  BY <1>1 DEF IInv, LoopTypeOK
<1>3. QED  BY <1>1, <1>2 DEF Message

\* Each handler is, for the loop, an arrival, a fetch, a step inside the body
\* or a letting go.
LEMMA NextIsLoopStep ==
    ASSUME IInv, Next
    PROVE  LoopStep(Messages, Steps)
<1> DEFINE Goal == LoopStep(Messages, Steps)
<1>1. LoopTypeOK(Messages, Steps) /\ Positions
  BY DEF IInv
<1>2. ASSUME NEW m \in Messages, Arrive(m)
      PROVE  Goal
  <2>1. PartitionOf[m.txn] \in Partitions
    BY MessageFields
  <2>2. Arrives(Messages)
    BY <1>2, <2>1 DEF Arrive, Arrives
  <2>3. QED  BY <2>2 DEF LoopStep
<1>3. ASSUME NEW w \in Workers, Fetch(w)
      PROVE  Goal
  BY <1>3, StepsOfBody DEF Fetch, LoopStep
<1>4. ASSUME NEW w \in Workers, NEW step \in Steps \ Outside,
             pc[w] \in Steps \ Outside, Goto(w, step),
             UNCHANGED <<input, committed, owner>>
      PROVE  Goal
  BY <1>1, <1>4, GotoStep, BusyPc
<1>5. ASSUME NEW w \in Workers,
             Select(w) \/ SelectContact(w) \/ Record(w) \/ DeadLetter(w)
      PROVE  Goal
  BY <1>4, <1>5, StepsOfBody
     DEF Select, SelectContact, Record, Inside, DeadLetter
<1>6. ASSUME NEW w \in Workers, pc[w] \in Steps \ Outside,
             RetryOrGiveUp(w, "select"), CommitUnknown(w),
             UNCHANGED <<input, owner>>
      PROVE  Goal
  <2>1. Busy(w)
    BY <1>6, BusyPc
  <2>2. "select" \in Steps \ Outside /\ "dead_letter" \in Steps
    BY StepsOfBody
  <2>3. QED  BY <1>1, <1>6, <2>1, <2>2, RetryStep
<1>7. ASSUME NEW w \in Workers,
             RecordConflict(w) \/ DatabaseRaises(w) \/ CommitRaises(w)
      PROVE  Goal
  BY <1>6, <1>7, StepsOfBody
     DEF RecordConflict, DatabaseRaises, CommitRaises, CommitRaisesAt,
         CommitUnknown
<1>8. ASSUME NEW w \in Workers, DeadLetterRaises(w)
      PROVE  Goal
  BY <1>8, ReleaseStep, StepsOfBody DEF DeadLetterRaises
<1>9. ASSUME NEW w \in Workers,
             Commit(w) \/ DeadCommit(w) \/ DeadCommitRaises(w)
      PROVE  Goal
  BY <1>9, CommitStep, StepsOfBody DEF Commit, DeadCommit, DeadCommitRaises
<1>10. ASSUME \/ Group \/ \E w \in Workers : CrashWorker(w)
       PROVE  Goal
  BY <1>1, <1>10, GroupStep, StepsOfBody DEF Group, CrashWorker
<1>11. ASSUME NEW d \in Erasures, Erase(d)
       PROVE  Goal
  BY <1>11
     DEF Erase, EraseSelect, EraseCommit, EraseFails, loopVars, LoopStep
<1>12. QED
  BY <1>2, <1>3, <1>5, <1>7, <1>8, <1>9, <1>10, <1>11
     DEF Next, WorkerStep, Failure

\* The loop keeps its types and its places.
LEMMA LoopInvStep ==
    ASSUME IInv, [Next]_vars
    PROVE  /\ LoopStep(Messages, Steps)
           /\ LoopTypeOK(Messages, Steps)'
           /\ Positions'
<1>1. LoopTypeOK(Messages, Steps) /\ Positions
  BY DEF IInv
<1>2. LoopStep(Messages, Steps)
  BY NextIsLoopStep DEF vars, loopVars, LoopStep
<1>3. "idle" \in Steps
  BY DEF Steps
<1>4. QED
  BY <1>1, <1>2, <1>3, LoopStepKeepsTypes, LoopStepKeepsPositions

\* A worker that is busy before and after a step holds the same message.
LEMMA SameMessage ==
    ASSUME IInv, [Next]_vars, NEW v \in Workers, Busy(v), Busy(v)'
    PROVE  Message(v)' = Message(v)
<1>1. Stays(v) \/ \E q \in Partitions : Begin(v, q, pc'[v])
  BY LoopInvStep, BusyStaysOrBegins DEF IInv
<1>2. QED  BY <1>1, BusyPc DEF Begin, Outside, Stays

-----------------------------------------------------------------------------
(* What a step does to one worker, and to its session.                      *)

\* v goes on with its message.
GoesOn(v) ==
    /\ Busy(v)
    /\ \/ pc'[v] = pc[v]
       \/ pc'[v] \in {"select", "dead_letter"}
       \/ pc'[v] = "commit" /\ pc[v] = "select" /\ rows[Message(v).txn] # NoRow
       \/ pc'[v] = "record" /\ pc[v] = "select"
       \/ /\ pc'[v] = "select_contact" /\ pc[v] = "select"
          /\ Message(v).contact # NoContact
       \/ pc'[v] = "record" /\ pc[v] = "select_contact"
       \/ pc'[v] = "commit" /\ pc[v] = "record" /\ Insert(v)
       \/ pc'[v] = "dead_commit" /\ pc[v] = "dead_letter" /\ Bury(v)

Edge(v) == pc'[v] \in Outside \cup {"select"} \/ GoesOn(v)

\* Its session stays as it is, is closed, or loads a row of the contact.
SessionStays(v) == pc'[v] = pc[v] /\ found'[v] = found[v]
Loads(v) ==
    /\ pc[v] = "select_contact" /\ pc'[v] = "record"
    /\ \E i \in 1..Len(contacts[Message(v).contact]) :
          found'[v] = Loaded(i, contacts[Message(v).contact][i])
SessionStep(v) == SessionStays(v) \/ found'[v] = Nothing \/ Loads(v)

\* The handlers of one worker touch no other.
LEMMA OthersStay ==
    ASSUME IInv, NEW w \in Workers, WorkerStep(w) \/ Failure(w),
           NEW v \in Workers, v # w
    PROVE  SessionStays(v)
<1>1. /\ pc \in [Workers -> Steps]
      /\ found \in [Workers -> Objects \cup {Nothing}]
  BY DEF IInv, LoopTypeOK, ShapesOK
<1>2. ASSUME \/ Fetch(w) \/ Select(w) \/ SelectContact(w) \/ Record(w)
             \/ RecordConflict(w) \/ DeadLetter(w) \/ DatabaseRaises(w)
             \/ DeadLetterRaises(w) \/ CrashWorker(w)
      PROVE  SessionStays(v)
  BY <1>1, <1>2
     DEF Fetch, Begin, Select, SelectContact, Record, Inside, Goto, Close,
         RecordConflict, RetryOrGiveUp, DeadLetter, DatabaseRaises,
         DeadLetterRaises, CrashWorker, Crash, Release, SessionStays
<1>3. ASSUME Commit(w) \/ DeadCommit(w) \/ CommitRaises(w) \/ DeadCommitRaises(w)
      PROVE  SessionStays(v)
  BY <1>1, <1>3
     DEF Commit, DeadCommit, CommitAt, CommitRaises, CommitRaisesAt,
         RetryOrGiveUp, DeadCommitRaises, CommitKillsAt, Release, SessionStays
<1>4. QED  BY <1>2, <1>3 DEF WorkerStep, Failure

\* The mover takes one of the edges.
LEMMA MoverTakesAnEdge ==
    ASSUME IInv, NEW w \in Workers, WorkerStep(w) \/ Failure(w)
    PROVE  Edge(w)
<1>1. pc \in [Workers -> Steps]
  BY DEF IInv, LoopTypeOK
<1>2. pc[w] \notin Outside => Busy(w)
  BY BusyPc
<1>3. CASE Select(w) \/ SelectContact(w)
  BY <1>1, <1>2, <1>3
     DEF Select, SelectContact, Inside, Goto, Edge, GoesOn, Outside
<1>4. CASE Record(w)
  <2>1. pc[w] = "record" /\ pc'[w] = "commit"
    BY <1>1, <1>4 DEF Record, Inside, Goto
  <2>2. QED  BY <1>2, <1>4, <2>1 DEF Record, Edge, GoesOn, Outside
<1>5. CASE DeadLetter(w)
  BY <1>1, <1>2, <1>5 DEF DeadLetter, Goto, Edge, GoesOn, Outside
<1>6. CASE RecordConflict(w) \/ DatabaseRaises(w) \/ CommitRaises(w)
  <2>1. pc[w] \in {"select", "select_contact", "record", "commit"}
    BY <1>6 DEF RecordConflict, DatabaseRaises, CommitRaises, CommitRaisesAt
  <2>2. pc'[w] \in {"select", "dead_letter"}
    BY <1>1, <1>6
       DEF RecordConflict, DatabaseRaises, CommitRaises, CommitRaisesAt,
           RetryOrGiveUp
  <2>3. QED  BY <1>2, <2>1, <2>2 DEF Edge, GoesOn, Outside
<1>7. CASE \/ Fetch(w) \/ Commit(w) \/ DeadCommit(w) \/ DeadCommitRaises(w)
           \/ DeadLetterRaises(w) \/ CrashWorker(w)
  BY <1>1, <1>7
     DEF Fetch, Begin, Commit, DeadCommit, CommitAt, DeadCommitRaises,
         CommitKillsAt, DeadLetterRaises, CrashWorker, Crash, Release, Edge,
         Outside
<1>8. QED
  BY <1>3, <1>4, <1>5, <1>6, <1>7 DEF WorkerStep, Failure

\* ... and keeps, closes or fills its session.
LEMMA MoverSessions ==
    ASSUME IInv, NEW w \in Workers, WorkerStep(w) \/ Failure(w)
    PROVE  SessionStep(w)
<1>1. /\ pc \in [Workers -> Steps]
      /\ found \in [Workers -> Objects \cup {Nothing}]
  BY DEF IInv, LoopTypeOK, ShapesOK
<1>2. pc[w] # "record" => found[w] = Nothing
  BY DEF IInv, SessionsOK
<1>3. CASE Record(w) \/ RecordConflict(w) \/ DatabaseRaises(w) \/ CrashWorker(w)
  BY <1>1, <1>3
     DEF Record, RecordConflict, DatabaseRaises, CrashWorker, Close,
         SessionStep
<1>4. CASE SelectContact(w)
  BY <1>1, <1>2, <1>4
     DEF SelectContact, Inside, Goto, SessionStep, Loads
<1>5. CASE \/ Fetch(w) \/ Select(w) \/ DeadLetter(w) \/ DeadLetterRaises(w)
           \/ Commit(w) \/ DeadCommit(w) \/ CommitRaises(w)
           \/ DeadCommitRaises(w)
  BY <1>1, <1>2, <1>5
     DEF Fetch, Begin, Select, Inside, DeadLetter, DeadLetterRaises, Commit,
         DeadCommit, CommitAt, CommitRaises, CommitRaisesAt,
         DeadCommitRaises, CommitKillsAt, SessionStep
<1>6. QED  BY <1>3, <1>4, <1>5 DEF WorkerStep, Failure

\* Every other step moves no worker, except one that comes back.
LEMMA EnvironmentStays ==
    ASSUME IInv, [Next]_vars, ~ \E w \in Workers : WorkerStep(w) \/ Failure(w)
    PROVE  /\ \A v \in Workers : \/ pc'[v] = pc[v]
                                 \/ pc[v] = "down" /\ pc'[v] = "idle"
           /\ UNCHANGED <<committed, found, rows, dlq>>
<1>1. pc \in [Workers -> Steps]
  BY DEF IInv, LoopTypeOK
<1>2. CASE Group
  BY <1>1, <1>2 DEF Group, Restart, Rebalance, Takeover, workerVars, dbVars
<1>3. CASE \/ \E m \in Messages : Arrive(m)
           \/ \E d \in Erasures : Erase(d)
           \/ UNCHANGED vars
  BY <1>3
     DEF Arrive, Erase, EraseSelect, EraseCommit, EraseFails, vars,
         loopVars, groupVars, workerVars, dbVars
<1>4. QED  BY <1>2, <1>3 DEF Next

\* Every worker is on an edge in every step.
LEMMA EdgesTaken ==
    ASSUME IInv, [Next]_vars, NEW v \in Workers
    PROVE  Edge(v) /\ SessionStep(v)
<1>1. ASSUME pc'[v] = pc[v] \/ (pc[v] = "down" /\ pc'[v] = "idle")
      PROVE  Edge(v)
  BY <1>1, BusyPc DEF Edge, GoesOn, Outside
<1>2. CASE \E w \in Workers : WorkerStep(w) \/ Failure(w)
  BY <1>1, <1>2, OthersStay, MoverTakesAnEdge, MoverSessions
     DEF SessionStep, SessionStays
<1>3. CASE ~ \E w \in Workers : WorkerStep(w) \/ Failure(w)
  <2>1. pc[v] = "down" => found[v] = Nothing
    BY DEF IInv, SessionsOK
  <2>2. QED
    BY <1>1, <1>3, <2>1, EnvironmentStays DEF SessionStep, SessionStays
<1>4. QED  BY <1>2, <1>3

-----------------------------------------------------------------------------
(* What a step does to the database.                                        *)

\* A transaction of the database inserts a row, is a deletion, or changes
\* nothing.
LEMMA DatabaseSteps ==
    ASSUME IInv, [Next]_vars
    PROVE  \/ UNCHANGED dbVars
           \/ \E w \in Workers :
                 /\ pc[w] = "record" /\ Insert(w)
                 /\ UNCHANGED <<input, committed, dlq>>
           \/ \E d \in Erasures :
                 EraseCommit(d) /\ UNCHANGED <<input, committed, rows, dlq>>
<1>1. ASSUME NEW w \in Workers, Record(w) \/ DatabaseRaises(w),
             ~ UNCHANGED dbVars
      PROVE  /\ pc[w] = "record" /\ Insert(w)
             /\ UNCHANGED <<input, committed, dlq>>
  BY <1>1 DEF Record, DatabaseRaises, Inside
<1>2. ASSUME NEW w \in Workers,
             \/ Fetch(w) \/ Select(w) \/ SelectContact(w)
             \/ RecordConflict(w) \/ Commit(w) \/ DeadLetter(w)
             \/ DeadCommit(w) \/ CommitRaises(w) \/ DeadLetterRaises(w)
             \/ DeadCommitRaises(w) \/ CrashWorker(w)
      PROVE  UNCHANGED dbVars
  BY <1>2
     DEF Fetch, Select, SelectContact, RecordConflict, Commit, DeadLetter,
         DeadCommit, CommitRaises, DeadLetterRaises, DeadCommitRaises,
         CrashWorker, dbVars
<1>3. ASSUME NEW d \in Erasures, EraseCommit(d)
      PROVE  UNCHANGED <<input, committed, rows, dlq>>
  BY <1>3 DEF EraseCommit, loopVars, groupVars
<1>4. ASSUME \/ Group \/ UNCHANGED vars
             \/ \E m \in Messages : Arrive(m)
             \/ \E d \in Erasures :
                   EraseFails(d) \/ \E k \in Contacts : EraseSelect(d, k)
      PROVE  UNCHANGED dbVars
  BY <1>4 DEF Group, Arrive, EraseFails, EraseSelect, vars, dbVars
<1>5. QED
  BY <1>1, <1>2, <1>3, <1>4 DEF Next, WorkerStep, Failure, Erase

\* The flush of an upsert adds a row, or changes the one that was loaded.
LEMMA Upserted ==
    ASSUME IInv, NEW w \in Workers, pc[w] = "record"
    PROVE  /\ UpsertedContact(w) \in [Contacts -> Seq(ContactRows)]
           /\ \A k \in Contacts :
                /\ Len(contacts[k]) \in Nat
                /\ Len(UpsertedContact(w)[k]) \in Nat
                /\ Len(UpsertedContact(w)[k]) >= Len(contacts[k])
                /\ Len(UpsertedContact(w)[k]) <= Len(contacts[k]) + 1
                /\ k = Message(w).contact => Len(UpsertedContact(w)[k]) >= 1
                /\ k # Message(w).contact =>
                      UpsertedContact(w)[k] = contacts[k]
<1> DEFINE m == Message(w)
           x == found[w]
           U == UpsertedContact(w)
<1>1. /\ m.contact \in Contacts \cup {NoContact} /\ m.pii \in Names
      /\ NoContact \notin Contacts
  BY HeldMessage, MessageFields, BusyPc DEF Outside, Contacts
<1>2. contacts \in [Contacts -> Seq(ContactRows)]
  BY DEF IInv, ShapesOK
<1>3. \A k \in Contacts : Len(contacts[k]) \in Nat
  BY <1>2
<1>4. CASE m.contact = NoContact
  <2>1. U = contacts
    BY <1>4 DEF UpsertedContact
  <2>2. QED  BY <1>1, <1>2, <1>3, <1>4, <2>1
<1>5. CASE m.contact # NoContact /\ x = Nothing
  <2> DEFINE k == m.contact
             row == ContactRow(m.pii, FALSE)
             s == Append(contacts[k], row)
  <2>1. k \in Contacts /\ row \in ContactRows
    BY <1>1, <1>5 DEF ContactRow, ContactRows
  <2>2. U = [contacts EXCEPT ![k] = s]
    BY <1>5 DEF UpsertedContact
  <2>3. s \in Seq(ContactRows) /\ Len(s) = Len(contacts[k]) + 1
    <3>1. contacts[k] \in Seq(ContactRows)
      BY <1>2, <2>1
    <3> HIDE DEF row
    <3>2. QED  BY <2>1, <3>1, AppendKeeps
  <2> HIDE DEF U, s
  <2>4. U \in [Contacts -> Seq(ContactRows)]
    BY <1>2, <2>1, <2>2, <2>3
  <2>5. U[k] = s /\ \A j \in Contacts : j # k => U[j] = contacts[j]
    BY <1>2, <2>1, <2>2
  <2>6. QED  BY <1>3, <2>1, <2>3, <2>4, <2>5 DEF U
<1>6. CASE m.contact # NoContact /\ x # Nothing
  <2> DEFINE k == m.contact
             row == Updated(contacts[k][x.index], x, m.pii, FALSE)
             s == [contacts[k] EXCEPT ![x.index] = row]
  <2>1. k \in Contacts /\ x.index \in 1..Len(contacts[k])
    BY <1>6 DEF IInv, SessionsOK
  <2>2. contacts[k] \in Seq(ContactRows)
        /\ contacts[k][x.index] \in ContactRows
    BY <1>2, <2>1
  <2>3. row \in ContactRows
    BY <1>1, <2>2, UpdatedIsRow
  <2>4. U = [contacts EXCEPT ![k] = s]
    BY <1>6 DEF UpsertedContact
  <2> HIDE DEF row
  <2>5. s \in Seq(ContactRows) /\ Len(s) = Len(contacts[k])
    BY <2>1, <2>2, <2>3, OneChanged
  <2>6. Len(contacts[k]) \in Nat /\ Len(contacts[k]) >= 1
    BY <1>3, <2>1
  <2> HIDE DEF U, s
  <2>7. U \in [Contacts -> Seq(ContactRows)]
    BY <1>2, <2>1, <2>4, <2>5
  <2>8. U[k] = s /\ \A j \in Contacts : j # k => U[j] = contacts[j]
    BY <1>2, <2>1, <2>4
  <2>9. QED  BY <1>3, <2>1, <2>5, <2>6, <2>7, <2>8 DEF U
<1>7. QED  BY <1>4, <1>5, <1>6

\* A deletion changes one row in place.
LEMMA Erased ==
    ASSUME IInv, NEW d \in Erasures, EraseCommit(d)
    PROVE  /\ contacts' \in [Contacts -> Seq(ContactRows)]
           /\ \A k \in Contacts : /\ Len(contacts[k]) \in Nat
                                  /\ Len(contacts'[k]) = Len(contacts[k])
<1> DEFINE k == erasing[d].contact
           x == erasing[d].object
           stamped == [x EXCEPT !.deleted = FALSE]
           row == Updated(contacts[k][x.index], stamped, "none", TRUE)
           s == [contacts[k] EXCEPT ![x.index] = row]
<1>1. contacts \in [Contacts -> Seq(ContactRows)]
  BY DEF IInv, ShapesOK
<1>2. /\ k \in Contacts /\ x.index \in 1..Len(contacts[k])
      /\ contacts' = [contacts EXCEPT ![k] = s]
  BY DEF EraseCommit, IInv, SessionsOK
<1>3. contacts[k] \in Seq(ContactRows) /\ contacts[k][x.index] \in ContactRows
  BY <1>1, <1>2
<1>4. "none" \in Names
  BY DEF Names
<1> HIDE DEF stamped
<1>5. row \in ContactRows
  BY <1>3, <1>4, UpdatedIsRow
<1> HIDE DEF row
<1>6. s \in Seq(ContactRows) /\ Len(s) = Len(contacts[k])
  BY <1>2, <1>3, <1>5, OneChanged
<1> HIDE DEF s
<1>7. contacts' \in [Contacts -> Seq(ContactRows)]
  BY <1>1, <1>2, <1>6
<1>8. \A j \in Contacts : j # k => contacts'[j] = contacts[j]
  BY <1>1, <1>2
<1>9. contacts'[k] = s
  BY <1>1, <1>2
<1>10. \A j \in Contacts : Len(contacts[j]) \in Nat
  BY <1>1
<1>11. QED  BY <1>6, <1>7, <1>8, <1>9, <1>10

\* The rows of a contact become more, never fewer.
LEMMA ContactsOnlyGrow ==
    ASSUME IInv, [Next]_vars
    PROVE  /\ contacts' \in [Contacts -> Seq(ContactRows)]
           /\ \A k \in Contacts : /\ Len(contacts[k]) \in Nat
                                  /\ Len(contacts'[k]) \in Nat
                                  /\ Len(contacts[k]) <= Len(contacts'[k])
<1>1. CASE UNCHANGED dbVars
  <2>1. contacts' = contacts /\ contacts \in [Contacts -> Seq(ContactRows)]
    BY <1>1 DEF dbVars, IInv, ShapesOK
  <2>2. QED  BY <2>1
<1>2. ASSUME NEW w \in Workers, pc[w] = "record", Insert(w)
      PROVE  /\ contacts' \in [Contacts -> Seq(ContactRows)]
             /\ \A k \in Contacts : /\ Len(contacts[k]) \in Nat
                                    /\ Len(contacts'[k]) \in Nat
                                    /\ Len(contacts[k]) <= Len(contacts'[k])
  <2>1. contacts' = UpsertedContact(w)
    BY <1>2 DEF Insert
  <2>2. QED  BY <1>2, <2>1, Upserted
<1>3. ASSUME NEW d \in Erasures, EraseCommit(d)
      PROVE  /\ contacts' \in [Contacts -> Seq(ContactRows)]
             /\ \A k \in Contacts : /\ Len(contacts[k]) \in Nat
                                    /\ Len(contacts'[k]) \in Nat
                                    /\ Len(contacts[k]) <= Len(contacts'[k])
  BY <1>3, Erased
<1>4. QED  BY <1>1, <1>2, <1>3, DatabaseSteps

\* A row is written once; what is in the ledger stays.
LEMMA RowsStep ==
    ASSUME IInv, [Next]_vars
    PROVE  /\ rows' \in [Txns -> Messages \cup {NoRow}]
           /\ \A t \in Txns : rows[t] # NoRow => rows'[t] = rows[t]
<1>1. rows \in [Txns -> Messages \cup {NoRow}]
  BY DEF IInv, TypeOK
<1>2. CASE UNCHANGED rows
  BY <1>1, <1>2
<1>3. ASSUME NEW w \in Workers, pc[w] = "record", Insert(w)
      PROVE  /\ rows' \in [Txns -> Messages \cup {NoRow}]
             /\ \A t \in Txns : rows[t] # NoRow => rows'[t] = rows[t]
  <2>1. Message(w) \in Messages
    BY <1>3, HeldMessage, BusyPc DEF Outside
  <2>2. /\ rows[Message(w).txn] = NoRow
        /\ rows' = [rows EXCEPT ![Message(w).txn] = Message(w)]
    BY <1>3 DEF Insert
  <2>3. QED  BY <1>1, <2>1, <2>2
<1>4. QED  BY <1>2, <1>3, DatabaseSteps DEF dbVars

\* The dead-letter topic gains at most what one worker buries.
LEMMA DlqSteps ==
    ASSUME IInv, [Next]_vars
    PROVE  \/ UNCHANGED dlq
           \/ \E w \in Workers :
                 Busy(w) /\ Bury(w) /\ UNCHANGED <<input, committed, rows>>
<1>1. ASSUME NEW w \in Workers, DeadLetter(w) \/ DeadLetterRaises(w)
      PROVE  \/ UNCHANGED dlq
             \/ Busy(w) /\ Bury(w) /\ UNCHANGED <<input, committed, rows>>
  <2>1. pc[w] = "dead_letter"
    BY <1>1 DEF DeadLetter, DeadLetterRaises
  <2>2. Busy(w)
    BY <2>1, BusyPc DEF Outside
  <2>3. QED  BY <1>1, <2>2 DEF DeadLetter, DeadLetterRaises, dbVars
<1>2. ASSUME NEW w \in Workers,
             \/ Fetch(w) \/ Select(w) \/ SelectContact(w) \/ Record(w)
             \/ RecordConflict(w) \/ Commit(w) \/ DeadCommit(w)
             \/ DatabaseRaises(w) \/ CommitRaises(w)
             \/ DeadCommitRaises(w) \/ CrashWorker(w)
      PROVE  UNCHANGED dlq
  BY <1>2
     DEF Fetch, Select, SelectContact, Record, Inside, RecordConflict,
         Commit, DeadCommit, DatabaseRaises, CommitRaises, DeadCommitRaises,
         CrashWorker
<1>3. ASSUME \/ Group \/ UNCHANGED vars
             \/ \E m \in Messages : Arrive(m)
             \/ \E d \in Erasures : Erase(d)
      PROVE  UNCHANGED dlq
  BY <1>3
     DEF Group, Arrive, Erase, EraseSelect, EraseCommit, EraseFails, vars
<1>4. QED  BY <1>1, <1>2, <1>3 DEF Next, WorkerStep, Failure

\* A deletion request is under way, over, or has just loaded a row.
LEMMA ErasingSteps ==
    ASSUME IInv, [Next]_vars
    PROVE  /\ erasing' \in [Erasures -> [contact : Contacts \cup {NoContact},
                                         object : Objects \cup {Nothing}]]
           /\ \A d \in Erasures :
                 \/ erasing'[d] = erasing[d]
                 \/ erasing'[d] = Idle
                 \/ \E k \in Contacts :
                       EraseSelect(d, k) /\ UNCHANGED contacts
<1> DEFINE E == [contact : Contacts \cup {NoContact},
                 object : Objects \cup {Nothing}]
<1>1. erasing \in [Erasures -> E] /\ Idle \in E
  BY DEF IInv, ShapesOK, Idle
<1>2. contacts \in [Contacts -> Seq(ContactRows)]
  BY DEF IInv, ShapesOK
<1>3. ASSUME NEW d \in Erasures, NEW k \in Contacts, EraseSelect(d, k)
      PROVE  /\ erasing' \in [Erasures -> E] /\ UNCHANGED contacts
             /\ \A e \in Erasures : e # d => erasing'[e] = erasing[e]
  <2>1. PICK i \in 1..Len(contacts[k]) :
            erasing' = [erasing EXCEPT ![d] =
                [contact |-> k, object |-> Loaded(i, contacts[k][i])]]
    BY <1>3 DEF EraseSelect
  <2>2. contacts[k][i] \in ContactRows /\ i \in Nat \ {0}
    BY <1>2, <2>1
  <2>3. Loaded(i, contacts[k][i]) \in Objects
    BY <2>2, LoadedIsObject
  <2>4. QED  BY <1>1, <1>3, <2>1, <2>3 DEF EraseSelect, dbVars
<1>4. ASSUME NEW d \in Erasures, EraseCommit(d) \/ EraseFails(d)
      PROVE  /\ erasing' \in [Erasures -> E]
             /\ \A e \in Erasures : erasing'[e] = erasing[e] \/ erasing'[e] = Idle
  BY <1>1, <1>4 DEF EraseCommit, EraseFails
<1>5. ASSUME NEW w \in Workers, WorkerStep(w) \/ Failure(w)
      PROVE  UNCHANGED erasing
  BY <1>5
     DEF WorkerStep, Failure, Fetch, Select, SelectContact, Record, Inside,
         RecordConflict, Commit, DeadLetter, DeadCommit, DatabaseRaises,
         CommitRaises, DeadLetterRaises, DeadCommitRaises, CrashWorker
<1>6. ASSUME \/ Group \/ UNCHANGED vars \/ \E m \in Messages : Arrive(m)
      PROVE  UNCHANGED erasing
  BY <1>6 DEF Group, Arrive, vars
<1>7. QED  BY <1>1, <1>3, <1>4, <1>5, <1>6 DEF Next, Erase

-----------------------------------------------------------------------------
(* The invariant is inductive.                                              *)

\* At most one failure is counted in a step.
LEMMA FaultSteps ==
    ASSUME [Next]_vars
    PROVE  faults' = faults \/ faults' = faults + 1
<1>1. ASSUME NEW w \in Workers, WorkerStep(w) \/ Failure(w)
      PROVE  faults' = faults \/ faults' = faults + 1
  BY <1>1
     DEF WorkerStep, Failure, Fetch, Begin, Select, SelectContact, Record,
         Inside, NoFault, Fault, RecordConflict, Commit, CommitAt,
         DeadLetter, DeadCommit, DatabaseRaises, CommitRaises,
         CommitRaisesAt, DeadLetterRaises, DeadCommitRaises, CommitKillsAt,
         CrashWorker, Crash
<1>2. ASSUME \/ Group \/ UNCHANGED vars
             \/ \E m \in Messages : Arrive(m)
             \/ \E d \in Erasures : Erase(d)
      PROVE  faults' = faults \/ faults' = faults + 1
  BY <1>2
     DEF Group, Restart, Rebalance, Takeover, Fault, Arrive, Erase,
         EraseSelect, EraseCommit, EraseFails, vars, loopVars
<1>3. QED  BY <1>1, <1>2 DEF Next

\* found stays a function of the workers.
LEMMA FoundIsFunction ==
    ASSUME IInv, [Next]_vars
    PROVE  found' \in [Workers -> Objects \cup {Nothing}]
<1>1. /\ found \in [Workers -> Objects \cup {Nothing}]
      /\ contacts \in [Contacts -> Seq(ContactRows)]
  BY DEF IInv, ShapesOK
<1>2. ASSUME NEW w \in Workers,
             \/ Record(w) \/ RecordConflict(w) \/ DatabaseRaises(w)
             \/ CrashWorker(w)
      PROVE  found' \in [Workers -> Objects \cup {Nothing}]
  BY <1>1, <1>2
     DEF Record, RecordConflict, DatabaseRaises, CrashWorker, Close
<1>3. ASSUME NEW w \in Workers, SelectContact(w)
      PROVE  found' \in [Workers -> Objects \cup {Nothing}]
  <2>1. pc[w] = "select_contact"
    BY <1>3 DEF SelectContact, Inside
  <2>2. Message(w).contact \in Contacts
    BY <2>1, HeldMessage, MessageFields, BusyPc DEF Outside, IInv, SessionsOK
  <2>3. ASSUME NEW i \in 1..Len(contacts[Message(w).contact])
        PROVE  Loaded(i, contacts[Message(w).contact][i]) \in Objects
    <3>1. contacts[Message(w).contact] \in Seq(ContactRows)
      BY <1>1, <2>2
    <3>2. contacts[Message(w).contact][i] \in ContactRows /\ i \in Nat \ {0}
      BY <2>3, <3>1
    <3>3. QED  BY <3>2, LoadedIsObject
  <2>4. QED  BY <1>1, <1>3, <2>3 DEF SelectContact
<1>4. ASSUME NEW w \in Workers,
             \/ Fetch(w) \/ Select(w) \/ Commit(w) \/ DeadLetter(w)
             \/ DeadCommit(w) \/ CommitRaises(w) \/ DeadLetterRaises(w)
             \/ DeadCommitRaises(w)
      PROVE  UNCHANGED found
  BY <1>4
     DEF Fetch, Select, Commit, DeadLetter, DeadCommit, CommitRaises,
         DeadLetterRaises, DeadCommitRaises
<1>5. ASSUME ~ \E w \in Workers : WorkerStep(w) \/ Failure(w)
      PROVE  UNCHANGED found
  BY <1>5, EnvironmentStays
<1>6. QED
  BY <1>1, <1>2, <1>3, <1>4, <1>5 DEF WorkerStep, Failure

\* A session that holds an object after a step held it before, or loaded it.
LEMMA ConsumerSessionStep ==
    ASSUME IInv, [Next]_vars, NEW w \in Workers, found'[w] # Nothing
    PROVE  /\ pc'[w] = "record"
           /\ Message(w)'.contact \in Contacts
           /\ found'[w].index \in 1..Len(contacts'[Message(w)'.contact])
<1>1. contacts \in [Contacts -> Seq(ContactRows)]
  BY DEF IInv, ShapesOK
<1>2. CASE SessionStays(w)
  <2>1. found[w] # Nothing /\ found'[w] = found[w] /\ pc'[w] = pc[w]
    BY <1>2 DEF SessionStays
  <2>2. /\ pc[w] = "record" /\ Message(w).contact \in Contacts
        /\ found[w].index \in 1..Len(contacts[Message(w).contact])
    BY <2>1 DEF IInv, SessionsOK
  <2>3. Message(w)' = Message(w)
    BY <2>1, <2>2, SameMessage, BusyPc, BusyPcNext DEF Outside
  <2>4. /\ Len(contacts[Message(w).contact]) \in Nat
        /\ Len(contacts'[Message(w).contact]) \in Nat
        /\ Len(contacts[Message(w).contact])
              <= Len(contacts'[Message(w).contact])
    BY <2>2, ContactsOnlyGrow
  <2>5. QED  BY <2>1, <2>2, <2>3, <2>4
<1>3. CASE Loads(w)
  <2>1. pc[w] = "select_contact" /\ pc'[w] = "record"
    BY <1>3 DEF Loads
  <2>2. Busy(w) /\ Busy(w)'
    BY <2>1, BusyPc, BusyPcNext DEF Outside
  <2>3. Message(w)' = Message(w) /\ Message(w).contact \in Contacts
    BY <2>1, <2>2, SameMessage, HeldMessage, MessageFields
       DEF IInv, SessionsOK
  <2>4. PICK i \in 1..Len(contacts[Message(w).contact]) :
            found'[w] = Loaded(i, contacts[Message(w).contact][i])
    BY <1>3 DEF Loads
  <2>5. found'[w].index = i
    BY <2>4 DEF Loaded
  <2>6. /\ Len(contacts[Message(w).contact]) \in Nat
        /\ Len(contacts'[Message(w).contact]) \in Nat
        /\ Len(contacts[Message(w).contact])
              <= Len(contacts'[Message(w).contact])
    BY <2>3, ContactsOnlyGrow
  <2>7. QED  BY <2>1, <2>3, <2>5, <2>6
<1>4. QED  BY <1>2, <1>3, EdgesTaken DEF SessionStep

\* The sessions of the consumer and of the deletions stay as they should.
LEMMA SessionsStep == IInv /\ [Next]_vars => SessionsOK'
<1> SUFFICES ASSUME IInv, [Next]_vars
             PROVE  SessionsOK'
  OBVIOUS
<1>1. ASSUME NEW w \in Workers, pc'[w] = "select_contact"
      PROVE  Message(w)'.contact # NoContact
  <2>1. GoesOn(w)
    BY <1>1, EdgesTaken DEF Edge, Outside
  <2>2. Busy(w) /\ Busy(w)'
    BY <1>1, <2>1, BusyPcNext DEF GoesOn, Outside
  <2>3. Message(w).contact # NoContact
    BY <1>1, <2>1 DEF GoesOn, IInv, SessionsOK
  <2>4. QED  BY <2>2, <2>3, SameMessage
<1>2. ASSUME NEW d \in Erasures, erasing'[d] # Idle
      PROVE  /\ erasing'[d].contact \in Contacts
             /\ erasing'[d].object \in Objects
             /\ erasing'[d].object.index
                    \in 1..Len(contacts'[erasing'[d].contact])
  <2>1. CASE erasing'[d] = erasing[d]
    <3>1. /\ erasing[d].contact \in Contacts
          /\ erasing[d].object \in Objects
          /\ erasing[d].object.index \in 1..Len(contacts[erasing[d].contact])
      BY <1>2, <2>1 DEF IInv, SessionsOK
    <3>2. /\ Len(contacts[erasing[d].contact]) \in Nat
          /\ Len(contacts'[erasing[d].contact]) \in Nat
          /\ Len(contacts[erasing[d].contact])
                <= Len(contacts'[erasing[d].contact])
      BY <3>1, ContactsOnlyGrow
    <3>3. QED  BY <2>1, <3>1, <3>2
  <2>2. ASSUME NEW k \in Contacts, EraseSelect(d, k), UNCHANGED contacts
        PROVE  /\ erasing'[d].contact \in Contacts
               /\ erasing'[d].object \in Objects
               /\ erasing'[d].object.index
                      \in 1..Len(contacts'[erasing'[d].contact])
    <3>1. PICK i \in 1..Len(contacts[k]) :
              erasing' = [erasing EXCEPT ![d] =
                  [contact |-> k, object |-> Loaded(i, contacts[k][i])]]
      BY <2>2 DEF EraseSelect
    <3>2. erasing'[d] = [contact |-> k, object |-> Loaded(i, contacts[k][i])]
      BY <3>1 DEF IInv, ShapesOK
    <3>3. contacts[k] \in Seq(ContactRows)
      BY DEF IInv, ShapesOK
    <3>4. contacts[k][i] \in ContactRows /\ i \in Nat \ {0}
      BY <3>1, <3>3
    <3>5. /\ Loaded(i, contacts[k][i]) \in Objects
          /\ Loaded(i, contacts[k][i]).index = i
      BY <3>4, LoadedIsObject
    <3>6. QED  BY <2>2, <3>1, <3>2, <3>5
  <2>3. QED  BY <1>2, <2>1, <2>2, ErasingSteps
<1>3. QED  BY <1>1, <1>2, ConsumerSessionStep DEF SessionsOK

\* Only what is recorded or buried is passed.
LEMMA SettledStep == IInv /\ [Next]_vars => SettledBeforeCommit'
<1> SUFFICES ASSUME IInv, [Next]_vars, NEW w \in Workers,
                    pc'[w] \in {"commit", "dead_commit"}
             PROVE  /\ pc'[w] = "commit" => Message(w)'.txn \in Recorded'
                    /\ pc'[w] = "dead_commit" => Message(w)'.txn \in dlq'
  BY DEF SettledBeforeCommit
<1>1. GoesOn(w)
  BY EdgesTaken DEF Edge, Outside
<1>2. Busy(w) /\ Busy(w)'
  BY <1>1, BusyPcNext DEF GoesOn, Outside
<1>3. Message(w)' = Message(w) /\ Message(w) \in Messages
  BY <1>2, SameMessage, HeldMessage
<1>4. Message(w).txn \in Txns /\ Message(w) # NoRow
  BY <1>3, MessageFields
<1>5. rows \in [Txns -> Messages \cup {NoRow}]
  BY DEF IInv, TypeOK
<1>6. CASE pc'[w] = "commit"
  <2>1. \/ rows[Message(w).txn] # NoRow
        \/ Insert(w)
    BY <1>1, <1>6 DEF GoesOn, IInv, SettledBeforeCommit, Recorded
  <2>2. rows'[Message(w).txn] # NoRow
    BY <1>4, <1>5, <2>1, RowsStep DEF Insert
  <2>3. QED  BY <1>3, <1>4, <1>6, <2>2 DEF Recorded
<1>7. CASE pc'[w] = "dead_commit"
  <2>1. Message(w).txn \in dlq \/ Bury(w)
    BY <1>1, <1>7 DEF GoesOn, IInv, SettledBeforeCommit
  <2>2. Message(w).txn \in dlq'
    BY <2>1, DlqSteps DEF Bury
  <2>3. QED  BY <1>3, <1>7, <2>2
<1>8. QED  BY <1>6, <1>7

\* The types are kept.
LEMMA TypeStep == IInv /\ [Next]_vars => ShapesOK' /\ TypeOK'
<1> SUFFICES ASSUME IInv, [Next]_vars
             PROVE  ShapesOK' /\ TypeOK'
  OBVIOUS
<1>1. ShapesOK'
  BY ContactsOnlyGrow, FoundIsFunction, ErasingSteps, FaultSteps
     DEF ShapesOK, IInv
<1>2. /\ input' \in [Partitions -> Seq(Messages)]
      /\ pc' \in [Workers -> Steps]
  BY LoopInvStep DEF LoopTypeOK
<1>3. \A p \in Partitions : \A i \in 1..Len(input'[p]) : input'[p][i] \in Messages
  BY <1>2
<1>4. \A k \in Contacts : \A i \in 1..Len(contacts'[k]) :
          contacts'[k][i] \in ContactRows
  BY <1>1 DEF ShapesOK
<1>5. dlq' \subseteq Txns
  BY DlqSteps, HeldMessage, MessageFields DEF Bury, IInv, TypeOK
<1>6. ASSUME NEW w \in Workers
      PROVE  IsLoaded(found'[w]) /\ (~ Busy(w)' => found'[w] = Nothing)
  <2>1. found'[w] # Nothing => pc'[w] = "record"
    BY ConsumerSessionStep
  <2>2. pc'[w] = "record" => Busy(w)'
    BY BusyPcNext DEF Outside
  <2>3. QED  BY <1>1, <2>1, <2>2 DEF ShapesOK, IsLoaded
<1>7. ASSUME NEW d \in Erasures
      PROVE  /\ erasing'[d].contact \in Contacts \cup {NoContact}
             /\ IsLoaded(erasing'[d].object)
  <2>1. erasing'[d] \in [contact : Contacts \cup {NoContact},
                         object : Objects \cup {Nothing}]
    BY <1>1 DEF ShapesOK
  <2>2. QED  BY <2>1 DEF IsLoaded
<1>8. TypeOK'
  BY <1>2, <1>3, <1>4, <1>5, <1>6, <1>7, RowsStep DEF TypeOK, IsLoaded
<1>9. QED  BY <1>1, <1>8

\* Before the first event the invariant holds.
LEMMA InitIInv == Init => IInv
<1> SUFFICES ASSUME Init
             PROVE  IInv
  OBVIOUS
<1>1. LoopTypeOK(Messages, Steps)
  BY AnyPartitionType, StepsOfBody DEF Init, LoopInit, LoopTypeOK
<1>2. \A w \in Workers : pc[w] = "idle" /\ found[w] = Nothing
  BY DEF Init, LoopInit
<1>3. Positions
  BY <1>2
     DEF Init, LoopInit, Positions, CommittedInLog, Holds, Covers, Busy
<1>4. ShapesOK
  <2>1. <<>> \in Seq(ContactRows)
    OBVIOUS
  <2>2. contacts \in [Contacts -> Seq(ContactRows)]
    BY <2>1 DEF Init
  <2>3. Idle \in [contact : Contacts \cup {NoContact},
                  object : Objects \cup {Nothing}]
    BY DEF Idle
  <2>4. QED  BY <2>2, <2>3 DEF Init, LoopInit, ShapesOK
<1>5. TypeOK
  <2>1. \A p \in Partitions : \A i \in 1..Len(input[p]) : input[p][i] \in Messages
    BY <1>1 DEF LoopTypeOK
  <2>2. \A k \in Contacts : \A i \in 1..Len(contacts[k]) :
            contacts[k][i] \in ContactRows
    BY <1>4 DEF ShapesOK
  <2>3. \A d \in Erasures : /\ erasing[d].contact \in Contacts \cup {NoContact}
                            /\ IsLoaded(erasing[d].object)
    BY DEF Init, Idle, IsLoaded
  <2>4. \A w \in Workers : IsLoaded(found[w])
    BY <1>2 DEF IsLoaded
  <2>5. rows \in [Txns -> Messages \cup {NoRow}] /\ dlq \subseteq Txns
    BY DEF Init
  <2>6. QED
    BY <1>1, <1>2, <2>1, <2>2, <2>3, <2>4, <2>5 DEF LoopTypeOK, TypeOK
<1>6. SessionsOK
  BY <1>2 DEF Init, SessionsOK
<1>7. SettledBeforeCommit
  BY <1>2 DEF SettledBeforeCommit
<1>8. QED  BY <1>1, <1>3, <1>4, <1>5, <1>6, <1>7 DEF IInv

\* Every step keeps all of it.
LEMMA NextIInv == IInv /\ [Next]_vars => IInv'
BY LoopInvStep, TypeStep, SessionsStep, SettledStep DEF IInv

\* The inductive invariant holds in every state the service reaches.
THEOREM Invariance == SafeSpec => []IInv
<1>1. QED  BY InitIInv, NextIInv, PTL DEF SafeSpec

\* Each variable has its type, and a worker without a message holds no
\* session.
THEOREM TypeCorrect == SafeSpec => []TypeOK
<1>1. IInv => TypeOK
  BY DEF IInv
<1>2. QED  BY <1>1, Invariance, PTL

\* The ledger is append-only: no redelivery, replay, race or retry changes a
\* row.
THEOREM LedgerIsAppendOnly == SafeSpec => RowsAreFinal
<1>1. IInv /\ [Next]_vars =>
          [\A t \in Txns : rows[t] # NoRow => rows'[t] = rows[t]]_vars
  BY RowsStep
<1>2. QED  BY <1>1, Invariance, PTL DEF SafeSpec, RowsAreFinal

-----------------------------------------------------------------------------
(* The contacts match the ledger.                                           *)

\* The recorded payments to contact k.
Paid(k) == {t \in Recorded : rows[t].contact = k}

ContactInv == IsFiniteSet(Recorded) /\ ContactsMatchRows

\* ContactsMatchRows in arithmetic.
LEMMA MatchFacts ==
    ASSUME IInv
    PROVE  ContactsMatchRows <=>
               \A k \in Contacts : /\ Len(contacts[k]) <= Cardinality(Paid(k))
                                   /\ Paid(k) # {} => Len(contacts[k]) >= 1
<1>1. \A k \in Contacts : contacts[k] \in Seq(ContactRows)
  BY DEF IInv, ShapesOK
<1>2. \A k \in Contacts : contacts[k] # <<>> <=> Len(contacts[k]) >= 1
  BY <1>1
<1>3. QED  BY <1>2 DEF ContactsMatchRows, Paid

\* ... and after a step.
LEMMA MatchFactsNext ==
    ASSUME IInv'
    PROVE  ContactsMatchRows' <=>
               \A k \in Contacts :
                  /\ Len(contacts'[k]) <= Cardinality(Paid(k)')
                  /\ Paid(k)' # {} => Len(contacts'[k]) >= 1
<1>1. \A k \in Contacts : contacts'[k] \in Seq(ContactRows)
  BY DEF IInv, ShapesOK
<1>2. \A k \in Contacts : contacts'[k] # <<>> <=> Len(contacts'[k]) >= 1
  BY <1>1
<1>3. QED  BY <1>2 DEF ContactsMatchRows, Paid

\* An insertion records one more payment, to the contact of its message.
LEMMA InsertPays ==
    ASSUME IInv, NEW w \in Workers, pc[w] = "record", Insert(w)
    PROVE  LET t == Message(w).txn IN
           /\ t \in Txns /\ t \notin Recorded
           /\ Recorded' = Recorded \cup {t}
           /\ \A k \in Contacts :
                 Paid(k)' = IF k = Message(w).contact THEN Paid(k) \cup {t}
                                                      ELSE Paid(k)
<1> DEFINE t == Message(w).txn
<1>1. Message(w) \in Messages /\ t \in Txns /\ Message(w) # NoRow
  BY HeldMessage, MessageFields, BusyPc DEF Outside
<1>2. rows \in [Txns -> Messages \cup {NoRow}]
  BY DEF IInv, TypeOK
<1>3. rows[t] = NoRow /\ rows' = [rows EXCEPT ![t] = Message(w)]
  BY DEF Insert
<1>4. rows'[t] = Message(w) /\ \A s \in Txns : s # t => rows'[s] = rows[s]
  BY <1>1, <1>2, <1>3
<1>5. t \notin Recorded /\ Recorded' = Recorded \cup {t}
  BY <1>1, <1>3, <1>4 DEF Recorded
<1>6. ASSUME NEW k \in Contacts
      PROVE  Paid(k)' = IF k = Message(w).contact THEN Paid(k) \cup {t}
                                                  ELSE Paid(k)
  <2>1. Paid(k)' = {s \in Recorded' : rows'[s].contact = k}
    BY DEF Paid
  <2>2. \A s \in Recorded : s # t /\ s \in Txns
    BY <1>5 DEF Recorded
  <2>3. QED  BY <1>4, <1>5, <2>1, <2>2 DEF Paid
<1>7. QED  BY <1>1, <1>5, <1>6

\* Every step keeps contacts and ledger together.
LEMMA ContactStep == IInv /\ ContactInv /\ [Next]_vars => ContactInv'
<1> SUFFICES ASSUME IInv, ContactInv, [Next]_vars
             PROVE  ContactInv'
  OBVIOUS
<1>1. /\ IsFiniteSet(Recorded)
      /\ \A k \in Contacts : /\ Len(contacts[k]) <= Cardinality(Paid(k))
                             /\ Paid(k) # {} => Len(contacts[k]) >= 1
  BY MatchFacts DEF ContactInv
<1>2. IInv'
  BY NextIInv
<1>3. \A k \in Contacts : IsFiniteSet(Paid(k)) /\ Cardinality(Paid(k)) \in Nat
  <2>1. \A k \in Contacts : Paid(k) \subseteq Recorded
    BY DEF Paid
  <2>2. QED  BY <1>1, <2>1, FS_Subset, FS_CardinalityType
<1>4. CASE UNCHANGED dbVars
  BY <1>4 DEF ContactInv, ContactsMatchRows, Recorded, dbVars
<1>5. ASSUME NEW w \in Workers, pc[w] = "record", Insert(w)
      PROVE  ContactInv'
  <2> DEFINE t == Message(w).txn
  <2>1. /\ t \notin Recorded /\ Recorded' = Recorded \cup {t}
        /\ \A k \in Contacts :
              Paid(k)' = IF k = Message(w).contact THEN Paid(k) \cup {t}
                                                   ELSE Paid(k)
    BY <1>5, InsertPays
  <2>2. IsFiniteSet(Recorded')
    BY <1>1, <2>1, FS_AddElement
  <2>3. ASSUME NEW k \in Contacts
        PROVE  /\ Len(contacts'[k]) <= Cardinality(Paid(k)')
               /\ Paid(k)' # {} => Len(contacts'[k]) >= 1
    <3> DEFINE Before == Paid(k)
               After  == Paid(k)'
    <3>1. /\ contacts' = UpsertedContact(w)
          /\ Len(contacts[k]) \in Nat /\ Len(contacts'[k]) \in Nat
          /\ Len(contacts'[k]) <= Len(contacts[k]) + 1
          /\ k = Message(w).contact => Len(contacts'[k]) >= 1
          /\ k # Message(w).contact => contacts'[k] = contacts[k]
      BY <1>5, Upserted DEF Insert
    <3>2. /\ Cardinality(Before) \in Nat /\ IsFiniteSet(Before)
          /\ Len(contacts[k]) <= Cardinality(Before)
          /\ Before # {} => Len(contacts[k]) >= 1
          /\ t \notin Before
      BY <1>1, <1>3, <2>1 DEF Paid
    <3>3. After = IF k = Message(w).contact THEN Before \cup {t} ELSE Before
      BY <2>1
    <3> HIDE DEF Before, After
    <3>4. CASE k = Message(w).contact
      <4>1. Cardinality(After) = Cardinality(Before) + 1
        BY <3>2, <3>3, <3>4, FS_AddElement
      <4>2. Len(contacts'[k]) <= Cardinality(After)
        BY <3>1, <3>2, <4>1
      <4>3. QED  BY <3>1, <3>4, <4>2 DEF After
    <3>5. CASE k # Message(w).contact
      <4>1. After = Before /\ contacts'[k] = contacts[k]
        BY <3>1, <3>3, <3>5
      <4>2. QED  BY <3>2, <4>1 DEF After
    <3>6. QED  BY <3>4, <3>5
  <2>4. QED  BY <1>2, <2>2, <2>3, MatchFactsNext DEF ContactInv
<1>6. ASSUME NEW d \in Erasures, EraseCommit(d), UNCHANGED rows
      PROVE  ContactInv'
  <2>1. Recorded' = Recorded /\ \A k \in Contacts : Paid(k)' = Paid(k)
    BY <1>6 DEF Recorded, Paid
  <2>2. ASSUME NEW k \in Contacts
        PROVE  /\ Len(contacts'[k]) <= Cardinality(Paid(k)')
               /\ Paid(k)' # {} => Len(contacts'[k]) >= 1
    <3>1. Len(contacts'[k]) = Len(contacts[k])
      BY <1>6, Erased
    <3>2. Paid(k)' = Paid(k)
      BY <2>1
    <3>3. QED  BY <1>1, <3>1, <3>2
  <2>3. QED  BY <1>1, <1>2, <2>1, <2>2, MatchFactsNext DEF ContactInv
<1>7. QED  BY <1>4, <1>5, <1>6, DatabaseSteps

\* A recorded payment to a contact resolves, and there is no contact row
\* without a payment of its own, whatever was rolled back, retried or erased.
THEOREM ContactsMatchLedger == SafeSpec => []ContactsMatchRows
<1>1. Init => ContactInv
  <2> SUFFICES ASSUME Init
               PROVE  ContactInv
    OBVIOUS
  <2>1. Recorded = {}
    BY DEF Init, Recorded
  <2>2. \A k \in Contacts : Paid(k) = {} /\ Len(contacts[k]) = 0
    BY <2>1 DEF Paid, Init
  <2>3. ASSUME NEW k \in Contacts
        PROVE  Len(contacts[k]) <= Cardinality(Paid(k))
    BY <2>2, FS_EmptySet
  <2>4. ContactsMatchRows
    BY <2>2, <2>3, InitIInv, MatchFacts
  <2>5. QED  BY <2>1, <2>4, FS_EmptySet DEF ContactInv
<1>2. ContactInv => ContactsMatchRows
  BY DEF ContactInv
<1>3. QED  BY <1>1, <1>2, ContactStep, Invariance, PTL DEF SafeSpec

-----------------------------------------------------------------------------
(* The service implements AtLeastOnce                                       *)

TxnIn == [m \in Messages |-> m.txn]

\* The log of the promise: the topic's transaction ids.
LEMMA LogIsImage ==
    ASSUME LoopTypeOK(Messages, Steps)
    PROVE  Image(input, TxnIn) =
               [p \in Partitions |->
                   [i \in 1..Len(input[p]) |-> input[p][i].txn]]
<1>1. ASSUME NEW p \in Partitions, NEW i \in 1..Len(input[p])
      PROVE  TxnIn[input[p][i]] = input[p][i].txn
  <2>1. input[p] \in Seq(Messages)
    BY DEF LoopTypeOK
  <2>2. input[p][i] \in Messages
    BY <2>1
  <2>3. QED  BY <2>2 DEF TxnIn
<1>2. QED  BY <1>1 DEF Image

\* ... and after a step.
LEMMA LogIsImageNext ==
    ASSUME LoopTypeOK(Messages, Steps)'
    PROVE  Image(input', TxnIn) =
               [p \in Partitions |->
                   [i \in 1..Len(input'[p]) |-> input'[p][i].txn]]
<1>1. ASSUME NEW p \in Partitions, NEW i \in 1..Len(input'[p])
      PROVE  TxnIn[input'[p][i]] = input'[p][i].txn
  <2>1. input'[p] \in Seq(Messages)
    BY DEF LoopTypeOK
  <2>2. input'[p][i] \in Messages
    BY <2>1
  <2>3. QED  BY <2>2 DEF TxnIn
<1>2. QED  BY <1>1 DEF Image

\* The service starts where the promise starts.
LEMMA InitRefines == Init => Promise!Init
<1> SUFFICES ASSUME Init
             PROVE  Promise!Init
  OBVIOUS
<1>1. \A p \in Partitions : input[p] = <<>>
  BY DEF Init, LoopInit
<1>2. [p \in Partitions |-> [i \in 1..Len(input[p]) |-> input[p][i].txn]]
          = [p \in Partitions |-> <<>>]
  <2>1. ASSUME NEW p \in Partitions
        PROVE  [i \in 1..Len(input[p]) |-> input[p][i].txn] = <<>>
    BY <1>1
  <2>2. QED  BY <2>1
<1>3. Recorded = {}
  BY DEF Init, Recorded
<1>4. QED  BY <1>2, <1>3 DEF Init, LoopInit, Promise!Init

\* An arriving event is the arrival of its transaction.
LEMMA ArrivalRefines ==
    ASSUME IInv, [Next]_vars, NEW m \in Messages, Arrive(m)
    PROVE  Promise!Next
<1> DEFINE q == PartitionOf[m.txn]
<1>1. q \in Partitions /\ m.txn \in Txns
  BY MessageFields
<1>2. /\ LoopTypeOK(Messages, Steps)
      /\ LoopTypeOK(Messages, Steps)'
  BY LoopInvStep DEF IInv
<1>3. IsTopic(input, Messages) /\ TxnIn[m] = m.txn
  BY <1>2 DEF LoopTypeOK, IsTopic, TxnIn
<1>4. Appends(input, input', q, m)
  BY DEF Arrive, Appends
<1> HIDE DEF q
<1>5. Appends(Image(input, TxnIn), Image(input', TxnIn), q, TxnIn[m])
  BY <1>1, <1>3, <1>4, ImageOfAppend
<1>6. UNCHANGED <<committed, Recorded, dlq>>
  BY DEF Arrive, groupVars, dbVars, Recorded
<1>7. Promise!Arrive(q, m.txn)
  BY <1>2, <1>3, <1>5, <1>6, LogIsImage, LogIsImageNext
     DEF Promise!Arrive, Appends
<1>8. QED  BY <1>1, <1>7 DEF Promise!Next

\* The transaction in a busy worker's hands is one the promise allows to touch.
LEMMA InReach ==
    ASSUME IInv, NEW w \in Workers, Busy(w)
    PROVE  /\ part[w] \in Partitions
           /\ offset[w] \in 1..Len(input[part[w]])
           /\ offset[w] <= committed[part[w]] + 1
           /\ input[part[w]][offset[w]] = Message(w)
<1>1. /\ part[w] \in Partitions
      /\ offset[w] \in Nat /\ 1 <= offset[w]
      /\ offset[w] <= Len(input[part[w]])
      /\ offset[w] <= committed[part[w]] + 1
  BY HoldsFacts DEF IInv
<1>2. Len(input[part[w]]) \in Nat
  BY <1>1 DEF IInv, LoopTypeOK
<1>3. QED  BY <1>1, <1>2 DEF Message

\* An offset moves only for a worker at one of the two commits.
LEMMA CommitterStands ==
    ASSUME IInv, [Next]_vars, committed' # committed
    PROVE  \E w \in Workers :
               /\ pc[w] \in {"commit", "dead_commit"}
               /\ CommitUnknown(w)
               /\ UNCHANGED <<input, rows, dlq>>
<1>1. ASSUME NEW w \in Workers,
             Commit(w) \/ DeadCommit(w) \/ CommitRaises(w) \/ DeadCommitRaises(w)
      PROVE  /\ pc[w] \in {"commit", "dead_commit"}
             /\ CommitUnknown(w)
             /\ UNCHANGED <<input, rows, dlq>>
  BY <1>1
     DEF Commit, DeadCommit, CommitAt, CommitRaises, CommitRaisesAt,
         DeadCommitRaises, CommitKillsAt, CommitUnknown, dbVars
<1>2. ASSUME NEW w \in Workers,
             \/ Fetch(w) \/ Select(w) \/ SelectContact(w) \/ Record(w)
             \/ RecordConflict(w) \/ DeadLetter(w) \/ DatabaseRaises(w)
             \/ DeadLetterRaises(w) \/ CrashWorker(w)
      PROVE  UNCHANGED committed
  BY <1>2
     DEF Fetch, Begin, Select, SelectContact, Record, Inside, RecordConflict,
         DeadLetter, DatabaseRaises, DeadLetterRaises, CrashWorker, Crash
<1>3. ASSUME ~ \E w \in Workers : WorkerStep(w) \/ Failure(w)
      PROVE  UNCHANGED committed
  BY <1>3, EnvironmentStays
<1>4. QED  BY <1>1, <1>2, <1>3 DEF WorkerStep, Failure

\* Every step of the service is one the promise allows, or a stutter.
LEMMA StepRefines == IInv /\ [Next]_vars => [Promise!Next]_Promise!vars
<1> SUFFICES ASSUME IInv, [Next]_vars
             PROVE  Promise!Next \/ UNCHANGED Promise!vars
  BY DEF Promise!vars
<1> DEFINE Log == [p \in Partitions |->
                      [i \in 1..Len(input[p]) |-> input[p][i].txn]]
<1>1. \A p \in Partitions : /\ Len(input[p]) \in Nat
                            /\ Len(Log[p]) = Len(input[p])
                            /\ \A i \in 1..Len(input[p]) :
                                  Log[p][i] = input[p][i].txn
  BY DEF IInv, LoopTypeOK
<1>2. UNCHANGED <<input, committed, rows, dlq>> => UNCHANGED Promise!vars
  BY DEF Promise!vars, Recorded
<1>3. CASE \E m \in Messages : Arrive(m)
  BY <1>3, ArrivalRefines
<1>4. ASSUME NEW w \in Workers, pc[w] = "record", Insert(w),
             UNCHANGED <<input, committed, dlq>>
      PROVE  Promise!Next
  <2>1. Busy(w)
    BY <1>4, BusyPc DEF Outside
  <2>2. /\ part[w] \in Partitions
        /\ offset[w] \in Promise!Reached(part[w])
        /\ Log[part[w]][offset[w]] = Message(w).txn
    BY <1>1, <2>1, InReach DEF Promise!Reached
  <2>3. Recorded' = Recorded \cup {Message(w).txn}
    BY <1>4, InsertPays
  <2>4. Promise!Handle(part[w], offset[w])
    BY <1>4, <2>2, <2>3 DEF Promise!Handle
  <2>5. QED  BY <2>2, <2>4 DEF Promise!Next
<1>5. ASSUME NEW w \in Workers, Busy(w), Bury(w),
             UNCHANGED <<input, committed, rows>>
      PROVE  Promise!Next
  <2>1. /\ part[w] \in Partitions
        /\ offset[w] \in Promise!Reached(part[w])
        /\ Log[part[w]][offset[w]] = Message(w).txn
    BY <1>1, <1>5, InReach DEF Promise!Reached
  <2>2. Promise!Bury(part[w], offset[w])
    BY <1>5, <2>1 DEF Promise!Bury, Bury, Recorded
  <2>3. QED  BY <2>1, <2>2 DEF Promise!Next
<1>6. CASE committed' # committed
  <2>1. PICK w \in Workers :
            /\ pc[w] \in {"commit", "dead_commit"}
            /\ CommitUnknown(w)
            /\ UNCHANGED <<input, rows, dlq>>
    BY <1>6, CommitterStands
  <2>2. Busy(w)
    BY <2>1, BusyPc DEF Outside
  <2>3. /\ part[w] \in Partitions
        /\ committed[part[w]] \in Nat
        /\ offset[w] = committed[part[w]] + 1
        /\ offset[w] <= Len(input[part[w]])
        /\ committed' = [committed EXCEPT ![part[w]] = @ + 1]
    BY <1>6, <2>1, <2>2, CommitAdvances DEF IInv
  <2>4. Log[part[w]][offset[w]] = Message(w).txn
    BY <1>1, <2>2, InReach
  <2>5. Message(w).txn \in Recorded \cup dlq
    BY <2>1 DEF IInv, SettledBeforeCommit
  <2>6. UNCHANGED <<Log, Recorded, dlq>>
    BY <2>1 DEF Recorded
  <2>7. committed[part[w]] < Len(Log[part[w]])
    BY <1>1, <2>3
  <2>8. Log[part[w]][committed[part[w]] + 1] \in Recorded \cup dlq
    BY <2>3, <2>4, <2>5
  <2>9. Promise!Advance(part[w])
    BY <2>3, <2>6, <2>7, <2>8 DEF Promise!Advance
  <2>10. QED  BY <2>3, <2>9 DEF Promise!Next
<1>7. CASE committed' = committed /\ ~ \E m \in Messages : Arrive(m)
  <2>1. UNCHANGED input
    BY <1>7
       DEF Next, vars, loopVars, WorkerStep, Failure, Fetch, Begin, Select,
           SelectContact, Record, Inside, RecordConflict, Commit, CommitAt,
           DeadLetter, DeadCommit, DatabaseRaises, CommitRaises,
           CommitRaisesAt, DeadLetterRaises, DeadCommitRaises, CommitKillsAt,
           CrashWorker, Crash, Group, Restart, Rebalance, Takeover, Erase,
           EraseSelect, EraseCommit, EraseFails
  <2>2. CASE UNCHANGED rows /\ UNCHANGED dlq
    BY <1>2, <1>7, <2>1, <2>2
  <2>3. CASE ~ UNCHANGED rows
    BY <1>4, <2>3, DatabaseSteps DEF dbVars
  <2>4. CASE ~ UNCHANGED dlq
    BY <1>5, <2>4, DlqSteps
  <2>5. QED  BY <2>2, <2>3, <2>4
<1>8. QED  BY <1>3, <1>6, <1>7

\* In spite of retries, races for the unique constraint, deletions, crashes
\* and consumer tasks that end, the ledger takes only the steps AtLeastOnce
\* allows: an offset is passed for what is recorded or dead-lettered.
THEOREM LedgerImplementsAtLeastOnce == SafeSpec => StaysWithinPromise
<1>1. QED
  BY InitRefines, StepRefines, Invariance, PTL
     DEF SafeSpec, StaysWithinPromise, Promise!SafeSpec

-----------------------------------------------------------------------------
(* What has been passed.                                                    *)

\* What is settled stays settled and where it was, and a commit passes only
\* what the worker that commits has settled.
LEMMA PassedStep ==
    IInv /\ Promise!PassedIsSettled /\ [Next]_vars => Promise!PassedIsSettled'
<1> SUFFICES ASSUME IInv, Promise!PassedIsSettled, [Next]_vars
             PROVE  Promise!PassedIsSettled'
  OBVIOUS
<1>1. IInv' /\ Grows(input, input') /\ [Promise!Next]_Promise!vars
  <2>1. Grows(input, input')
    BY LoopInvStep, LoopStepGrows DEF IInv
  <2>2. QED  BY <2>1, NextIInv, StepRefines
<1>2. \A p \in Partitions :
         /\ committed[p] \in Nat /\ committed[p] <= Len(input[p])
         /\ committed'[p] \in Nat /\ committed'[p] <= Len(input'[p])
         /\ Len(input[p]) \in Nat /\ Len(input'[p]) \in Nat
         /\ \A i \in 1..Len(input[p]) : input'[p][i] = input[p][i]
  BY <1>1 DEF IInv, LoopTypeOK, Positions, CommittedInLog, Grows
<1>3. \A p \in Partitions : \A i \in 1..committed[p] :
         input[p][i].txn \in Recorded \cup dlq
  <2>1. ASSUME NEW p \in Partitions, NEW i \in 1..committed[p]
        PROVE  input[p][i].txn \in Recorded \cup dlq
    <3>1. i \in 1..Len(input[p])
      BY <1>2
    <3>2. [q \in Partitions |-> [j \in 1..Len(input[q]) |-> input[q][j].txn]][p][i]
              = input[p][i].txn
      BY <3>1
    <3>3. QED  BY <3>2 DEF Promise!PassedIsSettled
  <2>2. QED  BY <2>1
<1>4. Recorded \cup dlq \subseteq Recorded' \cup dlq'
  BY <1>1
     DEF Promise!Next, Promise!vars, Promise!Arrive, Promise!Handle,
         Promise!Bury, Promise!Advance
<1>5. ASSUME NEW p \in Partitions, NEW i \in 1..committed'[p], i > committed[p]
      PROVE  i <= Len(input[p]) /\ input[p][i].txn \in Recorded \cup dlq
  <2>1. committed' # committed
    BY <1>2, <1>5
  <2>2. PICK w \in Workers :
            /\ Busy(w) /\ CommitUnknown(w)
            /\ pc[w] \in {"commit", "dead_commit"}
    BY <2>1, CommitterStands, BusyPc DEF Outside
  <2>3. /\ part[w] \in Partitions /\ committed[part[w]] \in Nat
        /\ offset[w] = committed[part[w]] + 1
        /\ offset[w] <= Len(input[part[w]])
        /\ committed' = [committed EXCEPT ![part[w]] = @ + 1]
    BY <2>1, <2>2, CommitAdvances DEF IInv
  <2>4. p = part[w] /\ i = offset[w]
    BY <1>2, <1>5, <2>3
  <2>5. input[p][i].txn = Message(w).txn
    BY <2>2, <2>4, InReach
  <2>6. Message(w).txn \in Recorded \cup dlq
    BY <2>2 DEF IInv, SettledBeforeCommit
  <2>7. QED  BY <2>3, <2>4, <2>5, <2>6
<1>6. ASSUME NEW p \in Partitions, NEW i \in 1..committed'[p]
      PROVE  input'[p][i].txn \in Recorded' \cup dlq'
  <2>1. i <= Len(input[p]) /\ input[p][i].txn \in Recorded \cup dlq
    BY <1>2, <1>3, <1>5
  <2>2. QED  BY <1>2, <1>4, <2>1
<1>7. QED  BY <1>2, <1>6 DEF Promise!PassedIsSettled

\* Every event whose offset has been passed belongs to a transaction that is in
\* the transactions table or in the dead-letter topic, whatever rolls back,
\* crashes, ends a consumer task or deletes contacts.
THEOREM NoEventIsLost == SafeSpec => []Promise!PassedIsSettled
<1>1. Init => Promise!PassedIsSettled
  BY DEF Init, LoopInit, Promise!PassedIsSettled
<1>2. QED  BY <1>1, InitIInv, NextIInv, PassedStep, PTL DEF SafeSpec

=============================================================================
