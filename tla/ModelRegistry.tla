----------------------------- MODULE ModelRegistry -----------------------------
(***************************************************************************)
(* The Model Registry: POST /models and PATCH /models/{name}/status over   *)
(* JsonFileManager, which keeps the records in memory and writes all of    *)
(* them to one JSON file.  No handler awaits anything, so requests run one *)
(* after the other, but the process may die between any two steps of one.  *)
(* Reads answer from memory and change nothing.  What a record says beside *)
(* its name and status is not looked at by any write; the log is left out. *)
(***************************************************************************)
EXTENDS Integers, FiniteSets

CONSTANTS
    Requests,  \* calls of POST /models and PATCH /models/{name}/status
    Names,     \* names of models
    Statuses,  \* ModelStatus
    Absent,    \* no record under a name
    Missing,   \* no file
    Damaged,   \* a file that is not the JSON of a list of records
    MaxFaults  \* bound: I/O errors and process deaths

\* A record is known by the request that registered it, its status, and the
\* request that wrote it last.
Record == [by : Requests, status : Statuses, last : Requests]
Registry == [Names -> Record \cup {Absent}]
Empty == [n \in Names |-> Absent]
NoRequest == "none"

ASSUME RegistryAssumption ==
    /\ Absent \notin Record
    /\ Missing \notin Registry /\ Damaged \notin Registry /\ Missing # Damaged
    /\ NoRequest \notin Requests
    /\ MaxFaults \in Nat

Body == [kind : {"create", "patch"}, name : Names, status : Statuses]
NoBody == [kind |-> "none"]

VARIABLES
    body,    \* the body of each request
    reply,   \* the status each request was answered with, 0 before
    job,     \* the request being handled
    step,    \* how far it has come
    before,  \* the record it replaces
    up,      \* the process has loaded its file and serves
    memory,  \* JsonFileManager._records
    file,    \* the file at STORAGE_PATH
    tmp,     \* the file at STORAGE_PATH.tmp
    told,    \* history: the records as the answers of writes told them
    unread,  \* history: load gave up records because it could not read them
    faults

handling == <<job, step, before>>
disk == <<file, tmp>>
vars == <<body, reply, handling, up, memory, disk, told, unread, faults>>

\* The client never gets an answer.
Lost == 1

Fault == faults < MaxFaults /\ faults' = faults + 1

Idle == job' = NoRequest /\ step' = "idle" /\ before' = Absent

(***************************************************************************)
(* The handlers                                                            *)
(***************************************************************************)
Accept(r, b) ==
    /\ up /\ step = "idle"
    /\ reply[r] = 0
    /\ body' = [body EXCEPT ![r] = b]
    /\ UNCHANGED <<up, disk, told, unread, faults>>

\* Answered without any change: a body or a name that is not valid, a name
\* that is taken, a name that is not known.
Refuse(r, b, status) ==
    /\ Accept(r, b)
    /\ reply' = [reply EXCEPT ![r] = status]
    /\ UNCHANGED <<handling, memory>>

\* The change is made in memory, the record it replaces kept for a rollback.
Change(r, b, record) ==
    /\ Accept(r, b)
    /\ memory' = [memory EXCEPT ![b.name] = record]
    /\ job' = r /\ step' = "changed" /\ before' = memory[b.name]
    /\ UNCHANGED reply

\* Mutant: the name is not looked up first.
CreateUnchecked(r, b) ==
    /\ b.kind = "create"
    /\ \/ Refuse(r, b, 422)
       \/ Change(r, b, [by |-> r, status |-> b.status, last |-> r])

Create(r, b) ==
    /\ b.kind = "create"
    /\ \/ Refuse(r, b, 422)
       \/ memory[b.name] # Absent /\ Refuse(r, b, 409)
       \/ /\ memory[b.name] = Absent
          /\ Change(r, b, [by |-> r, status |-> b.status, last |-> r])

Patch(r, b) ==
    /\ b.kind = "patch"
    /\ \/ Refuse(r, b, 422)
       \/ memory[b.name] = Absent /\ Refuse(r, b, 404)
       \/ /\ memory[b.name] # Absent
          /\ Change(r, b, [by |-> memory[b.name].by, status |-> b.status, last |-> r])

(***************************************************************************)
(* _persist: write a temporary file, move it over the file                 *)
(***************************************************************************)
\* Mutant: the file itself is opened for writing.
WriteTmpInPlace ==
    /\ step = "changed"
    /\ file' = Damaged /\ tmp' = memory
    /\ step' = "written"
    /\ UNCHANGED <<body, reply, job, before, up, memory, told, unread, faults>>

WriteTmp ==
    /\ step = "changed"
    /\ tmp' = memory
    /\ step' = "written"
    /\ UNCHANGED <<body, reply, job, before, up, memory, file, told, unread, faults>>

Replace ==
    /\ step = "written"
    /\ file' = tmp
    /\ tmp' = Missing
    /\ step' = "replaced"
    /\ UNCHANGED <<body, reply, job, before, up, memory, told, unread, faults>>

\* Mutant: a write is only accepted.
SuccessAccepted(r) == 202

Success(r) == IF body[r].kind = "create" THEN 201 ELSE 200

Reply ==
    LET name == body[job].name
    IN  /\ step = "replaced"
        /\ reply' = [reply EXCEPT ![job] = Success(job)]
        /\ told' = [told EXCEPT ![name] = memory[name]]
        /\ Idle
        /\ UNCHANGED <<body, up, memory, disk, unread, faults>>

\* Mutant: a failed write is not rolled back.
RolledBackNot == memory

\* The records as they were before the request.
RolledBack == [memory EXCEPT ![body[job].name] = before]

\* An OSError of the write or the move: the temporary file is unlinked, if
\* that works, the change is taken back in memory and answered with 500.
PersistFails ==
    /\ step \in {"changed", "written"}
    /\ Fault
    /\ \/ tmp' = Missing
       \/ UNCHANGED tmp
       \/ step = "changed" /\ tmp' = Damaged
    /\ memory' = RolledBack
    /\ reply' = [reply EXCEPT ![job] = 500]
    /\ Idle
    /\ UNCHANGED <<body, up, file, told, unread>>

(***************************************************************************)
(* The process                                                             *)
(***************************************************************************)
\* The process dies; the temporary file may have been written in part.
Crash ==
    /\ up
    /\ Fault
    /\ up' = FALSE
    /\ memory' = Empty
    /\ reply' = IF job = NoRequest THEN reply ELSE [reply EXCEPT ![job] = Lost]
    /\ Idle
    /\ \/ UNCHANGED tmp
       \/ step = "changed" /\ tmp' = Damaged
    /\ UNCHANGED <<body, file, told, unread>>

\* load finds no file and writes an empty list, or finds the records.
Load ==
    /\ ~up
    /\ up' = TRUE
    /\ \/ file = Missing /\ file' = Empty /\ memory' = Empty
       \/ file \in Registry /\ memory' = file /\ UNCHANGED file
    /\ UNCHANGED <<body, reply, handling, tmp, told, unread, faults>>

\* load cannot read the file or make sense of it, and empties it.
Discard ==
    /\ ~up
    /\ \/ file = Damaged /\ UNCHANGED <<unread, faults>>
       \/ file \in Registry /\ Fault /\ unread' = TRUE
    /\ \/ file' = Empty /\ memory' = Empty /\ up' = TRUE
       \/ file' = Damaged /\ UNCHANGED <<memory, up>>    \* and fails half way: exit
    /\ UNCHANGED <<body, reply, handling, tmp, told>>

\* load finds no file and fails, or dies, while it writes the empty list.
LoadFails ==
    /\ ~up
    /\ file = Missing
    /\ Fault
    /\ file' \in {Missing, Damaged}
    /\ UNCHANGED <<body, reply, handling, up, memory, tmp, told, unread>>

Init ==
    /\ body = [r \in Requests |-> NoBody]
    /\ reply = [r \in Requests |-> 0]
    /\ job = NoRequest /\ step = "idle" /\ before = Absent
    /\ up = FALSE
    /\ memory = Empty
    /\ file = Missing /\ tmp = Missing
    /\ told = Empty
    /\ unread = FALSE
    /\ faults = 0

Next ==
    \/ \E r \in Requests, b \in Body : Create(r, b) \/ Patch(r, b)
    \/ WriteTmp \/ Replace \/ Reply \/ PersistFails
    \/ Crash \/ Load \/ Discard \/ LoadFails

Spec == Init /\ [][Next]_vars

(***************************************************************************)
(* Properties                                                              *)
(***************************************************************************)
TypeOK ==
    /\ body \in [Requests -> Body \cup {NoBody}]
    /\ reply \in [Requests -> {0, Lost, 200, 201, 404, 409, 422, 500}]
    /\ job \in Requests \cup {NoRequest}
    /\ step \in {"idle", "changed", "written", "replaced"}
    /\ before \in Record \cup {Absent}
    /\ up \in BOOLEAN
    /\ memory \in Registry
    /\ file \in Registry \cup {Missing, Damaged}
    /\ tmp \in Registry \cup {Missing, Damaged}
    /\ told \in Registry
    /\ unread \in BOOLEAN
    /\ faults \in 0..MaxFaults

\* What a read shows while no write is under way is what a restart would
\* load, whatever I/O errors and rollbacks went before.
MemoryIsFile == up /\ step = "idle" => memory = file

\* What a restart would load.
Durable == IF file \in Registry THEN file ELSE Empty

\* As long as load never failed to read it, the file differs from what the
\* clients were told only by writes whose client has no answer yet or never
\* got one: what was acknowledged survives every crash, and what was refused
\* or failed leaves no trace.
AcknowledgedSurvives ==
    ~unread => \A n \in Names : Durable[n] # told[n] =>
        Durable[n] # Absent /\ reply[Durable[n].last] \in {0, Lost}

\* A name is registered once: two creations of it are never both answered
\* 201, whatever was lost or retried in between.
RegisteredOnce ==
    ~unread => \A r, q \in Requests :
        reply[r] = 201 /\ reply[q] = 201 /\ body[r].name = body[q].name => r = q
================================================================================
