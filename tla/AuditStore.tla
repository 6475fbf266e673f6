------------------------------ MODULE AuditStore ------------------------------
(***************************************************************************)
(* The Audit Store's write and read endpoints over the one sqlite3         *)
(* connection of the process.  No handler awaits anything, so a request is *)
(* one step.  The connection opens a transaction before the first INSERT   *)
(* that finds none, and a failed INSERT leaves it open.  Latency, logs and *)
(* the key check of the middleware are left out; what an event says beside *)
(* its audit_id is not looked at by any write.                             *)
(***************************************************************************)
EXTENDS Integers, Sequences, FiniteSets

CONSTANTS
    Singles,    \* calls of POST /audit/events
    Batches,    \* calls of POST /audit/events/batch
    AuditIds,   \* ids of audit events
    MaxBatch,   \* the most events in a batch
    MaxErrors,  \* bound: SQLite errors that are no conflict of ids
    MaxCrashes  \* bound: how often the process dies

Requests == Singles \cup Batches

ASSUME StoreAssumption ==
    /\ Singles \cap Batches = {}
    /\ MaxBatch \in Nat \ {0}
    /\ MaxErrors \in Nat /\ MaxCrashes \in Nat

VARIABLES
    ids,        \* the audit_ids of the events of each request
    committed,  \* rows on disk
    pending,    \* rows inserted in the open transaction
    inTxn,      \* conn.in_transaction
    reply,      \* the status of each request's answer, 0 before
    seen,       \* rows some query has returned
    written,    \* audit_store_writes_total of this process
    errors, crashes

database == <<committed, pending, inTxn>>
vars == <<ids, database, reply, seen, written, errors, crashes>>

\* A request that was carried out and never answered.
Unanswered == 1

\* Row i of request r is <<r, i>>.
Rows(r) == {<<r, i>> : i \in DOMAIN ids[r]}
IdOf(row) == ids[row[1]][row[2]]
Visible == committed \cup pending

Taken == {IdOf(row) : row \in Visible}
IdsOf(r) == {ids[r][i] : i \in DOMAIN ids[r]}

Rolled == /\ UNCHANGED committed
          /\ pending' = {}
          /\ inTxn' = FALSE

\* Everything inserted since the transaction began reaches the disk.
Committed(r) ==
    /\ committed' = Visible \cup Rows(r)
    /\ pending' = {}
    /\ inTxn' = FALSE

\* Mutant: the handler answers with FastAPI's default status.
AnswerDefault(r, status) ==
    /\ reply[r] = 0
    /\ reply' = [reply EXCEPT ![r] = IF status = 201 THEN 200 ELSE status]
    /\ UNCHANGED <<ids, seen, crashes>>

Answer(r, status) ==
    /\ reply[r] = 0
    /\ reply' = [reply EXCEPT ![r] = status]
    /\ UNCHANGED <<ids, seen, crashes>>

\* Mutant: the COMMIT is forgotten.
CreatedUncommitted(r) ==
    /\ pending' = pending \cup Rows(r)
    /\ inTxn' = TRUE
    /\ Answer(r, 201)
    /\ written' = written + Cardinality(Rows(r))
    /\ UNCHANGED <<committed, errors>>

Created(r) ==
    /\ Committed(r)
    /\ Answer(r, 201)
    /\ written' = written + Cardinality(Rows(r))
    /\ UNCHANGED errors

SqlError == errors < MaxErrors /\ errors' = errors + 1

(***************************************************************************)
(* POST /audit/events                                                      *)
(***************************************************************************)
\* Mutant: INSERT OR REPLACE.
ConflictReplaces(r) ==
    /\ Taken \cap IdsOf(r) # {}
    /\ committed' = {row \in Visible : IdOf(row) \notin IdsOf(r)} \cup Rows(r)
    /\ pending' = {} /\ inTxn' = FALSE
    /\ UNCHANGED <<written, errors>>
    /\ Answer(r, 201)

\* A second event with an id that is taken: IntegrityError, no rollback.
Conflict(r) ==
    /\ Taken \cap IdsOf(r) # {}
    /\ inTxn' = TRUE
    /\ UNCHANGED <<committed, pending, written, errors>>
    /\ Answer(r, 409)

\* Any other sqlite3.Error, no rollback: the INSERT or the COMMIT fails and
\* the transaction stays open, with the row in it in the second case, or
\* SQLite has rolled it back itself.
Failed(r) ==
    /\ SqlError
    /\ \/ Rolled
       \/ inTxn' = TRUE /\ UNCHANGED <<committed, pending>>
       \/ /\ Taken \cap IdsOf(r) = {}
          /\ inTxn' = TRUE
          /\ pending' = pending \cup Rows(r)
          /\ UNCHANGED committed
    /\ UNCHANGED written
    /\ Answer(r, 500)

CreateEvent(r) ==
    \/ Taken \cap IdsOf(r) = {} /\ Created(r)
    \/ Conflict(r)
    \/ Failed(r)

(***************************************************************************)
(* POST /audit/events/batch                                                *)
(***************************************************************************)
Duplicates(r) ==
    \/ Taken \cap IdsOf(r) # {}
    \/ \E i, j \in DOMAIN ids[r] : i # j /\ ids[r][i] = ids[r][j]

\* Mutant: the batch is not rolled back, the rows before the duplicate stay.
BatchUnrolled(r) ==
    IF Duplicates(r)
    THEN /\ pending' = pending \cup
              {<<r, i>> : i \in {n \in DOMAIN ids[r] :
                    \A m \in 1..n : /\ ids[r][m] \notin Taken
                                    /\ \A j \in 1..(m - 1) : ids[r][j] # ids[r][m]}}
         /\ inTxn' = TRUE
         /\ UNCHANGED <<committed, written, errors>>
         /\ Answer(r, 409)
    ELSE Created(r)

\* BEGIN IMMEDIATE fails inside a transaction; every failure is rolled back.
CreateBatch(r) ==
    \/ ~inTxn /\ ~Duplicates(r) /\ Created(r)
    \/ ~inTxn /\ Duplicates(r) /\ Rolled /\ UNCHANGED <<written, errors>> /\ Answer(r, 409)
    \/ ~inTxn /\ SqlError /\ Rolled /\ UNCHANGED written /\ Answer(r, 500)
    \/ inTxn /\ Rolled /\ UNCHANGED <<written, errors>> /\ Answer(r, 500)

(***************************************************************************)
(* Queries and the process                                                 *)
(***************************************************************************)
\* The queries read through the same connection and see its open transaction.
Query ==
    /\ seen' = seen \cup Visible
    /\ UNCHANGED <<ids, database, reply, written, errors, crashes>>

Dies ==
    /\ crashes < MaxCrashes
    /\ crashes' = crashes + 1
    /\ written' = 0
    /\ UNCHANGED <<ids, seen, errors>>

\* The process dies and restarts: SQLite drops the open transaction.
Crash == Dies /\ Rolled /\ UNCHANGED reply

\* It dies after the COMMIT of r and before the answer.
CrashUnanswered(r) ==
    /\ Dies
    /\ reply[r] = 0
    /\ reply' = [reply EXCEPT ![r] = Unanswered]
    /\ Committed(r)
    /\ IF r \in Singles THEN Taken \cap IdsOf(r) = {} ELSE ~inTxn /\ ~Duplicates(r)

Init ==
    /\ ids \in [Requests -> UNION {[1..n -> AuditIds] : n \in 1..MaxBatch}]
    /\ \A r \in Singles : Len(ids[r]) = 1
    /\ committed = {} /\ pending = {} /\ inTxn = FALSE
    /\ reply = [r \in Requests |-> 0]
    /\ seen = {} /\ written = 0 /\ errors = 0 /\ crashes = 0

Next ==
    \/ \E r \in Singles : CreateEvent(r)
    \/ \E r \in Batches : CreateBatch(r)
    \/ Query
    \/ Crash
    \/ \E r \in Requests : CrashUnanswered(r)

Spec == Init /\ [][Next]_vars

(***************************************************************************)
(* Properties                                                              *)
(***************************************************************************)
AllRows == UNION {Rows(r) : r \in Requests}

TypeOK ==
    /\ ids \in [Requests -> UNION {[1..n -> AuditIds] : n \in 1..MaxBatch}]
    /\ committed \subseteq AllRows /\ pending \subseteq AllRows /\ seen \subseteq AllRows
    /\ inTxn \in BOOLEAN
    /\ reply \in [Requests -> {0, Unanswered, 201, 409, 500}]
    /\ written \in Nat /\ errors \in 0..MaxErrors /\ crashes \in 0..MaxCrashes

\* What the table holds of a request that was refused got there only through
\* a failed COMMIT of a single event: a conflict or a failed batch stores
\* nothing, and no other request's commit takes rows of it along.
RefusedIsNotStored ==
    \A r \in Requests : Rows(r) \cap Visible # {} =>
        reply[r] \in {201, Unanswered} \/ (r \in Singles /\ reply[r] = 500)

\* A row that a query returned stays in the table, across conflicts, failed
\* batches, rollbacks and process deaths, unless its request was told 500.
ReturnedRowsStay ==
    \A row \in seen : row \in Visible \/ (row[1] \in Singles /\ reply[row[1]] = 500)

\* The promise of the store: AuditLog.
Log == INSTANCE AuditLog
    WITH log <- committed, acked <- {r \in Requests : reply[r] = 201}
ImplementsAuditLog == Log!Spec

(***************************************************************************)
(* What the documents of the repository say and the code does not do       *)
(***************************************************************************)
\* write.py: after a duplicate audit_id "rollback is implicit for a single
\* statement": a batch fails with 500 only when SQLite fails.
ConflictLeavesNoTransaction ==
    \A r \in Batches : reply[r] = 500 => errors > 0
================================================================================
