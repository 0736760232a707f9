---------------------------- MODULE LedgerService -----------------------------
(***************************************************************************)
(* services/ledger-service: the consumer of fraud-evaluated that writes the *)
(* ledger (app/consumer.py, app/db.py) and the GDPR deletion of a contact   *)
(* that the same service offers over HTTP (app/main.py, app/db.py).  Both   *)
(* are sessions on one Postgres at its default READ COMMITTED: what one     *)
(* reads may change before it commits, and a commit writes only the columns *)
(* that differ from what was read.                                          *)
(*                                                                          *)
(* consume() is a background task of the web application.  An exception     *)
(* that leaves it ends the task, not the process: the worker is halted, and *)
(* nothing restarts it, because /health keeps answering.                    *)
(***************************************************************************)
EXTENDS ConsumerLoop, FiniteSets

CONSTANTS
    Messages,     \* fraud-evaluated events: [txn, verdict, contact, pii]
    PartitionOf,  \* txn_id -> partition
    Erasures,     \* concurrent DELETE requests
    NoContact,    \* an event that is not p2p or names no contact
    MaxLog        \* bound: events that reach one partition

Txns     == {m.txn : m \in Messages}
Contacts == {m.contact : m \in Messages} \ {NoContact}
Names    == {m.pii : m \in Messages} \cup {"none"}

NoRow == [txn |-> "none"]

ASSUME LedgerServiceAssumption ==
    /\ PartitionOf \in [Txns -> Partitions]
    /\ MaxLog \in Nat
    /\ NoRow \notin Messages

VARIABLES
    rows,      \* rows[t]: the row of table transactions, or NoRow
    contacts,  \* contacts[k]: the rows of p2p_contacts for contact k
    dlq,       \* the transactions in ledger-recording-dlq
    found,     \* found[w]: the contact row w's session has loaded
    erasing    \* erasing[d]: the deletion request d is executing

dbVars == <<rows, contacts>>
vars == <<loopVars, dbVars, dlq, found, erasing>>

\* A contact row: its personal data (display_name, email), and deleted_at.
ContactRow(pii, deleted) == [pii |-> pii, deleted |-> deleted]
ContactRows == [pii : Names, deleted : BOOLEAN]

\* An object loaded into a session: which row, and the values it had.
Loaded(i, row) == [index |-> i, pii |-> row.pii, deleted |-> row.deleted]
Nothing == [index |-> 0]
Objects == [index : Nat \ {0}, pii : Names, deleted : BOOLEAN]
IsLoaded(x) == x = Nothing \/ x \in Objects

Idle == [contact |-> NoContact, object |-> Nothing]

Steps == {"idle", "select", "select_contact", "record", "commit",
          "dead_letter", "dead_commit", "down", "halted"}

TypeOK ==
    /\ \A p \in Partitions : \A i \in 1..Len(input[p]) : input[p][i] \in Messages
    /\ pc \in [Workers -> Steps]
    /\ rows \in [Txns -> Messages \cup {NoRow}]
    /\ \A k \in Contacts : \A i \in 1..Len(contacts[k]) :
          contacts[k][i] \in ContactRows
    /\ dlq \subseteq Txns
    /\ \A w \in Workers : /\ IsLoaded(found[w])
                          /\ ~Busy(w) => found[w] = Nothing
    /\ \A d \in Erasures : /\ erasing[d].contact \in Contacts \cup {NoContact}
                           /\ IsLoaded(erasing[d].object)

Init ==
    /\ LoopInit
    /\ rows = [t \in Txns |-> NoRow]
    /\ contacts = [k \in Contacts |-> <<>>]
    /\ dlq = {}
    /\ found = [w \in Workers |-> Nothing]
    /\ erasing = [d \in Erasures |-> Idle]

-----------------------------------------------------------------------------
Arrive(m) ==
    LET p == PartitionOf[m.txn] IN
    /\ Len(input[p]) < MaxLog
    /\ input' = [input EXCEPT ![p] = Append(@, m)]
    /\ UNCHANGED <<groupVars, workerVars, faults, dbVars, dlq, found, erasing>>

Fetch(w) ==
    /\ \E p \in Partitions : Begin(w, p, "select")
    /\ UNCHANGED <<dbVars, dlq, found, erasing>>

\* Mutant: one session is kept for all messages.
KeepOpen(w) == UNCHANGED found

\* The session of record_transaction is closed.
Close(w) == found' = [found EXCEPT ![w] = Nothing]

Inside(w, step, next) ==
    /\ pc[w] = step
    /\ Goto(w, next)
    /\ NoFault
    /\ UNCHANGED <<input, committed, owner, dlq, erasing>>

\* record_transaction looks the transaction up: an existing row is left as it
\* is.
Select(w) ==
    /\ pc[w] = "select"
    /\ LET next == IF rows[Message(w).txn] # NoRow THEN "commit"
                   ELSE IF Message(w).contact = NoContact THEN "record"
                   ELSE "select_contact"
       IN Inside(w, "select", next)
    /\ UNCHANGED <<dbVars, found>>

\* upsert_contact loads the first row the database returns, if there is one.
SelectContact(w) ==
    /\ Inside(w, "select_contact", "record")
    /\ LET k == Message(w).contact IN
          \/ /\ contacts[k] = <<>>
             /\ UNCHANGED found
          \/ \E i \in 1..Len(contacts[k]) :
                found' = [found EXCEPT ![w] = Loaded(i, contacts[k][i])]
    /\ UNCHANGED dbVars

\* A row after an UPDATE of the columns in which the object differs from what
\* was loaded.
Updated(row, object, pii, deleted) ==
    ContactRow(IF pii # object.pii THEN pii ELSE row.pii,
               IF deleted # object.deleted THEN deleted ELSE row.deleted)

\* What the flush does to the contact: an INSERT, or an UPDATE that sets the
\* personal data and takes deleted_at back.
UpsertedContact(w) ==
    LET m == Message(w)
        x == found[w]
    IN  IF m.contact = NoContact THEN contacts
        ELSE IF x = Nothing
        THEN [contacts EXCEPT ![m.contact] = Append(@, ContactRow(m.pii, FALSE))]
        ELSE [contacts EXCEPT ![m.contact][x.index] =
                  Updated(@, x, m.pii, FALSE)]

\* Mutant: ON CONFLICT DO UPDATE.
InsertOrReplace(w) ==
    /\ rows' = [rows EXCEPT ![Message(w).txn] = Message(w)]
    /\ contacts' = UpsertedContact(w)

Insert(w) ==
    /\ rows[Message(w).txn] = NoRow
    /\ rows' = [rows EXCEPT ![Message(w).txn] = Message(w)]
    /\ contacts' = UpsertedContact(w)

\* session.commit(): the contact and the transaction in one database
\* transaction.
Record(w) ==
    /\ Inside(w, "record", "commit")
    /\ Insert(w)
    /\ Close(w)

\* Mutants: the contact is committed in a transaction of its own; or only the
\* insertion is tried again, forever.
ConflictKeepsContact(w) ==
    /\ pc[w] = "record"
    /\ rows[Message(w).txn] # NoRow
    /\ RetryOrGiveUp(w, "select")
    /\ Close(w)
    /\ NoFault
    /\ contacts' = UpsertedContact(w)
    /\ UNCHANGED <<input, committed, owner, rows, dlq, erasing>>

ConflictRetriesInsert(w) ==
    /\ pc[w] = "record"
    /\ rows[Message(w).txn] # NoRow
    /\ Inside(w, "record", "record")
    /\ UNCHANGED <<dbVars, found>>

\* The unique constraint on txn_id: another replica was first.  Everything is
\* rolled back, and the attempt has failed.
RecordConflict(w) ==
    /\ pc[w] = "record"
    /\ rows[Message(w).txn] # NoRow
    /\ RetryOrGiveUp(w, "select")
    /\ Close(w)
    /\ NoFault
    /\ UNCHANGED <<input, committed, owner, dbVars, dlq, erasing>>

\* Mutant: the exception is logged and swallowed.
DatabaseSwallows(w) ==
    /\ pc[w] \in {"select", "select_contact", "record"}
    /\ Fault
    /\ (pc[w] = "record" /\ Insert(w)) \/ UNCHANGED dbVars
    /\ Goto(w, "commit")
    /\ Close(w)
    /\ UNCHANGED <<input, committed, owner, dlq, erasing>>

\* The database failed, or wait_for cancelled the call: at the commit, it may
\* have happened all the same.
DatabaseRaises(w) ==
    /\ pc[w] \in {"select", "select_contact", "record"}
    /\ Fault
    /\ (pc[w] = "record" /\ Insert(w)) \/ UNCHANGED dbVars
    /\ RetryOrGiveUp(w, "select")
    /\ Close(w)
    /\ UNCHANGED <<input, committed, owner, dlq, erasing>>

Commit(w) ==
    CommitAt(w, "commit") /\ UNCHANGED <<dbVars, dlq, found, erasing>>

CommitRaises(w) ==
    /\ CommitRaisesAt(w, "commit", "select")
    /\ UNCHANGED <<dbVars, dlq, found, erasing>>

Bury(w) == dlq' = dlq \cup {Message(w).txn}

DeadLetter(w) ==
    /\ pc[w] = "dead_letter"
    /\ Bury(w)
    /\ Goto(w, "dead_commit")
    /\ NoFault
    /\ UNCHANGED <<input, committed, owner, dbVars, found, erasing>>

\* The exception ends the consumer task; the process lives on.
DeadLetterRaises(w) ==
    /\ pc[w] = "dead_letter"
    /\ Fault
    /\ Bury(w) \/ UNCHANGED dlq
    /\ Release(w, "halted")
    /\ UNCHANGED <<input, committed, owner, dbVars, found, erasing>>

DeadCommit(w) ==
    CommitAt(w, "dead_commit") /\ UNCHANGED <<dbVars, dlq, found, erasing>>

DeadCommitRaises(w) ==
    /\ CommitKillsAt(w, "dead_commit", "halted")
    /\ UNCHANGED <<dbVars, dlq, found, erasing>>

-----------------------------------------------------------------------------
(* DELETE /v1/contacts/{user_id}/{contact_id}                               *)

\* delete_contact loads a row of the contact; without one the answer is 404.
EraseSelect(d, k) ==
    /\ erasing[d] = Idle
    /\ \E i \in 1..Len(contacts[k]) :
          erasing' = [erasing EXCEPT ![d] =
              [contact |-> k, object |-> Loaded(i, contacts[k][i])]]
    /\ UNCHANGED <<loopVars, dbVars, dlq, found>>

\* It clears the personal data, stamps deleted_at (always a new value) and
\* commits; the answer is "deleted".
EraseCommit(d) ==
    LET k == erasing[d].contact
        x == erasing[d].object
        stamped == [x EXCEPT !.deleted = FALSE]
    IN  /\ erasing[d] # Idle
        /\ contacts' = [contacts EXCEPT ![k][x.index] =
                            Updated(@, stamped, "none", TRUE)]
        /\ erasing' = [erasing EXCEPT ![d] = Idle]
        /\ UNCHANGED <<loopVars, rows, dlq, found>>

\* The session failed before its commit; the answer is an error.
EraseFails(d) ==
    /\ erasing[d] # Idle
    /\ Fault
    /\ erasing' = [erasing EXCEPT ![d] = Idle]
    /\ UNCHANGED <<input, groupVars, workerVars, dbVars, dlq, found>>

-----------------------------------------------------------------------------
CrashWorker(w) ==
    Crash(w) /\ Close(w) /\ UNCHANGED <<dbVars, dlq, erasing>>

Group ==
    /\ (\E w \in Workers : Restart(w)) \/ Rebalance \/ Takeover
    /\ UNCHANGED <<dbVars, dlq, found, erasing>>

WorkerStep(w) ==
    \/ Fetch(w) \/ Select(w) \/ SelectContact(w)
    \/ Record(w) \/ RecordConflict(w)
    \/ Commit(w) \/ DeadLetter(w) \/ DeadCommit(w)

Failure(w) ==
    \/ DatabaseRaises(w) \/ CommitRaises(w)
    \/ DeadLetterRaises(w) \/ DeadCommitRaises(w) \/ CrashWorker(w)

Erase(d) ==
    \/ \E k \in Contacts : EraseSelect(d, k)
    \/ EraseCommit(d)
    \/ EraseFails(d)

Next ==
    \/ \E m \in Messages : Arrive(m)
    \/ \E w \in Workers : WorkerStep(w) \/ Failure(w)
    \/ \E d \in Erasures : Erase(d)
    \/ Group

SafeSpec == Init /\ [][Next]_vars

Untouched == UNCHANGED <<dbVars, dlq, found, erasing>>

Fairness ==
    /\ \A w \in Workers : WF_vars(WorkerStep(w))
    /\ \A w \in Workers : WF_vars(Restart(w) /\ Untouched)
    /\ WF_vars(Takeover /\ Untouched)

Spec == SafeSpec /\ Fairness

-----------------------------------------------------------------------------
(* Properties                                                               *)

Recorded == {t \in Txns : rows[t] # NoRow}

\* The ledger is append-only: redeliveries, replays with another verdict and
\* races between replicas never change a row (docs/data-privacy.md:24).
RowsAreFinal ==
    [][\A t \in Txns : rows[t] # NoRow => rows'[t] = rows[t]]_vars

\* The contact is written in the database transaction that writes the row:
\* a recorded contact reference resolves, and no contact row is there without
\* a recorded payment of its own, whichever attempts were rolled back.
ContactsMatchRows ==
    \A k \in Contacts :
        LET paid == {t \in Recorded : rows[t].contact = k} IN
        /\ Len(contacts[k]) <= Cardinality(paid)
        /\ paid # {} => contacts[k] # <<>>

\* Every event that reaches fraud-evaluated is eventually passed, unless all
\* the consumer tasks of the service have ended.
SettledOrHalted ==
    \A p \in Partitions : \A i \in 1..MaxLog :
        Len(input[p]) >= i ~>
            committed[p] >= i \/ \A w \in Workers : pc[w] = "halted"

\* The service takes only the steps the at-least-once promise allows.
Promise == INSTANCE AtLeastOnce WITH
    Keys    <- Txns,
    log     <- [p \in Partitions |->
                   [i \in 1..Len(input[p]) |-> input[p][i].txn]],
    done    <- committed,
    handled <- Recorded,
    buried  <- dlq

StaysWithinPromise == Promise!SafeSpec

-----------------------------------------------------------------------------
(* What documents say of the service, and the code does not do              *)

\* docs/data-privacy.md:34-36, "removes display_name / removes email / stamps
\* deleted_at": a contact that is stamped holds no personal data.
DeletedIsErased ==
    \A k \in Contacts : \A i \in 1..Len(contacts[k]) :
        contacts[k][i].deleted => contacts[k][i].pii = "none"

=============================================================================
