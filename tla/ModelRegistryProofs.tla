-------------------------- MODULE ModelRegistryProofs --------------------------
(***************************************************************************)
(* Proofs about ModelRegistry, for any requests, names and statuses and    *)
(* any number of faults, and about ModelPortal: the portal and the         *)
(* registry behind it are still the registry, and a later change stays.    *)
(***************************************************************************)
EXTENDS ModelPortal, TLAPS

(***************************************************************************)
(* The inductive invariant                                                 *)
(***************************************************************************)
\* At most one request is being handled, by a process that is up; it has a
\* body and no answer, and no other request is in that state.
Handling ==
    /\ step # "idle" <=> job # NoRequest
    /\ step # "idle" => up /\ body[job] # NoBody /\ reply[job] = 0
    /\ \A r \in Requests : /\ body[r] = NoBody => reply[r] = 0
                           /\ body[r] # NoBody /\ reply[r] = 0 => r = job

\* What the file, the temporary file and memory hold between two steps.
InStep ==
    /\ up /\ step = "idle" => memory = file
    /\ step \in {"changed", "written"} => RolledBack = file
    /\ step = "written" => tmp = memory
    /\ step = "replaced" => file = memory
    /\ step # "idle" => /\ memory[body[job].name] # Absent
                        /\ memory[body[job].name].last = job

\* A record is under the name that the request which wrote it last asked for.
OwnedIn(R) ==
    \A n \in Names : R[n] # Absent =>
        body[R[n].last] # NoBody /\ body[R[n].last].name = n
Owned == OwnedIn(memory) /\ OwnedIn(Durable)

\* Until it is moved, nothing on disk is of the request being handled.
NotYetOnDisk ==
    step \in {"changed", "written"} =>
        \A n \in Names : file[n] # Absent => file[n].last # job

RegistryInv == TypeOK /\ Handling /\ InStep /\ Owned /\ NotYetOnDisk /\ AcknowledgedSurvives

(***************************************************************************)
(* Types                                                                   *)
(***************************************************************************)
LEMMA BodyIsNotNoBody == \A b \in Body : b # NoBody
BY DEF Body, NoBody

LEMMA EmptyType == Empty \in Registry
BY DEF Empty, Registry

LEMMA DurableType == TypeOK => Durable \in Registry
BY EmptyType DEF TypeOK, Durable

LEMMA InitType == Init => TypeOK
<1> SUFFICES ASSUME Init PROVE TypeOK
  OBVIOUS
<1>1. body \in [Requests -> Body \cup {NoBody}]
  BY DEF Init
<1>2. reply \in [Requests -> {0, Lost, 200, 201, 404, 409, 422, 500}]
  BY DEF Init
<1>3. faults \in 0..MaxFaults
  BY RegistryAssumption DEF Init, RegistryAssumption
<1> QED BY <1>1, <1>2, <1>3, EmptyType DEF Init, TypeOK

LEMMA JobType ==
    ASSUME TypeOK, Handling, step # "idle"
    PROVE  job \in Requests /\ body[job] \in Body /\ body[job].name \in Names
BY DEF TypeOK, Handling, Body

LEMMA AcceptType ==
    ASSUME TypeOK, NEW r \in Requests, NEW b \in Body, Create(r, b) \/ Patch(r, b)
    PROVE  TypeOK'
<1>1. body' \in [Requests -> Body \cup {NoBody}]
  BY DEF TypeOK, Create, Patch, Refuse, Change, Accept
<1>2. b.name \in Names /\ b.status \in Statuses
  BY DEF Body
<1>3. CASE \E status \in {404, 409, 422} : Refuse(r, b, status)
  BY <1>1, <1>3 DEF TypeOK, Refuse, Accept, handling, disk
<1>4. CASE \E record \in Record : Change(r, b, record)
  <2>1. memory' \in Registry
    BY <1>2, <1>4 DEF TypeOK, Change, Registry
  <2>2. before' \in Record \cup {Absent}
    BY <1>2, <1>4 DEF TypeOK, Change, Registry
  <2> QED BY <1>1, <1>4, <2>1, <2>2 DEF TypeOK, Change, Accept, disk
<1>5. memory[b.name] # Absent => memory[b.name].by \in Requests
  BY <1>2 DEF TypeOK, Registry, Record
<1> QED BY <1>2, <1>3, <1>4, <1>5 DEF Create, Patch, Record

LEMMA HandlerType ==
    ASSUME TypeOK, Handling, WriteTmp \/ Replace \/ Reply
    PROVE  TypeOK'
<1>1. CASE WriteTmp
  BY <1>1 DEF WriteTmp, TypeOK
<1>2. CASE Replace
  BY <1>2 DEF Replace, TypeOK
<1>3. CASE Reply
  <2>1. job \in Requests /\ body[job].name \in Names
    BY <1>3, JobType DEF Reply
  <2>2. told' \in Registry
    BY <1>3, <2>1 DEF Reply, TypeOK, Registry
  <2>3. Success(job) \in {200, 201}
    BY DEF Success
  <2> QED BY <1>3, <2>1, <2>2, <2>3 DEF Reply, TypeOK, Idle, disk
<1> QED BY <1>1, <1>2, <1>3

LEMMA RolledBackType ==
    ASSUME TypeOK
    PROVE  RolledBack \in Registry
BY DEF TypeOK, RolledBack, Registry

LEMMA FaultType ==
    ASSUME TypeOK, Fault
    PROVE  faults' \in 0..MaxFaults
BY RegistryAssumption DEF TypeOK, Fault, RegistryAssumption

LEMMA PersistFailsType ==
    ASSUME TypeOK, Handling, PersistFails
    PROVE  TypeOK'
<1>1. tmp' \in Registry \cup {Missing, Damaged}
  BY DEF PersistFails, TypeOK
<1>2. faults' \in 0..MaxFaults
  BY FaultType DEF PersistFails
<1> QED BY <1>1, <1>2, RolledBackType, JobType DEF PersistFails, TypeOK, Idle

LEMMA ProcessType ==
    ASSUME TypeOK, Crash \/ Load \/ Discard \/ LoadFails
    PROVE  TypeOK'
<1>1. CASE Crash
  <2>1. reply' \in [Requests -> {0, Lost, 200, 201, 404, 409, 422, 500}]
    BY <1>1 DEF Crash, TypeOK
  <2>2. faults' \in 0..MaxFaults
    BY <1>1, FaultType DEF Crash
  <2> QED BY <1>1, <2>1, <2>2, EmptyType DEF Crash, TypeOK, Idle
<1>2. CASE Load
  BY <1>2, EmptyType DEF Load, TypeOK, handling
<1>3. CASE Discard
  <2>1. faults' \in 0..MaxFaults /\ unread' \in BOOLEAN
    BY <1>3, FaultType DEF Discard, TypeOK
  <2>2. \/ file' = Empty /\ memory' = Empty /\ up' = TRUE
        \/ file' = Damaged /\ UNCHANGED <<memory, up>>
    BY <1>3 DEF Discard
  <2>3. UNCHANGED <<body, reply, job, step, before, tmp, told>>
    BY <1>3 DEF Discard, handling
  <2>4. up' \in BOOLEAN
    BY <2>2 DEF TypeOK
  <2>5. file' \in Registry \cup {Missing, Damaged} /\ memory' \in Registry
    BY <2>2, EmptyType DEF TypeOK
  <2> QED BY <2>1, <2>3, <2>4, <2>5 DEF TypeOK
<1>4. CASE LoadFails
  <2>1. faults' \in 0..MaxFaults
    BY <1>4, FaultType DEF LoadFails
  <2> QED BY <1>4, <2>1 DEF LoadFails, TypeOK, handling
<1> QED BY <1>1, <1>2, <1>3, <1>4

(***************************************************************************)
(* Each action keeps the invariant                                         *)
(***************************************************************************)
\* A request that can be accepted is fresh: it has no body yet, so no record
\* can be of it.
LEMMA AcceptedIsFresh ==
    ASSUME RegistryInv, NEW r \in Requests, NEW b \in Body, Accept(r, b)
    PROVE  /\ body[r] = NoBody /\ job = NoRequest /\ step = "idle" /\ memory = file
           /\ body' = [body EXCEPT ![r] = b] /\ b # NoBody
           /\ file \in Registry /\ Durable = file /\ UNCHANGED Durable
           /\ \A n \in Names : /\ memory[n] # Absent => memory[n].last # r
                               /\ file[n] # Absent => file[n].last # r
<1>1. job = NoRequest /\ memory = file
  BY DEF Accept, RegistryInv, Handling, InStep
<1>2. body[r] = NoBody
  BY <1>1, RegistryAssumption DEF Accept, RegistryInv, Handling, RegistryAssumption
<1>3. file \in Registry /\ Durable = file /\ UNCHANGED Durable
  BY <1>1 DEF RegistryInv, TypeOK, Durable, Accept, disk
<1>4. \A n \in Names : memory[n] # Absent => memory[n].last # r
  BY <1>2 DEF RegistryInv, Owned, OwnedIn
<1>5. step = "idle" /\ body' = [body EXCEPT ![r] = b]
  BY DEF Accept
<1> QED BY <1>1, <1>2, <1>3, <1>4, <1>5, BodyIsNotNoBody

LEMMA RefuseStep ==
    ASSUME RegistryInv, NEW r \in Requests, NEW b \in Body,
           NEW status \in {404, 409, 422}, Refuse(r, b, status)
    PROVE  Handling' /\ InStep' /\ Owned' /\ NotYetOnDisk' /\ AcknowledgedSurvives'
<1>0. Accept(r, b) /\ UNCHANGED <<job, step, before, up, memory, file, tmp, told, unread>>
  BY DEF Refuse, Accept, handling, disk
<1>1. step = "idle" /\ step' = "idle" /\ job' = NoRequest
  BY <1>0, AcceptedIsFresh
<1>2. Handling'
  BY <1>0, <1>1, AcceptedIsFresh DEF Refuse, RegistryInv, Handling, TypeOK
<1>3. InStep'
  BY <1>0, <1>1, AcceptedIsFresh DEF InStep
<1>4. Owned'
  BY <1>0, <1>1, AcceptedIsFresh DEF RegistryInv, Owned, OwnedIn, TypeOK, Registry, Record
<1>5. NotYetOnDisk'
  BY <1>1 DEF NotYetOnDisk
<1>6. AcknowledgedSurvives'
  <2> SUFFICES ASSUME ~unread, NEW n \in Names, Durable[n] # told[n]
               PROVE  Durable[n] # Absent /\ reply'[Durable[n].last] \in {0, Lost}
    BY <1>0, AcceptedIsFresh DEF AcknowledgedSurvives
  <2>1. Durable[n] # Absent /\ reply[Durable[n].last] \in {0, Lost}
    BY DEF RegistryInv, AcknowledgedSurvives
  <2>2. Durable[n].last # r
    BY <1>0, <2>1, AcceptedIsFresh
  <2> QED BY <2>1, <2>2 DEF Refuse, RegistryInv, TypeOK
<1> QED BY <1>2, <1>3, <1>4, <1>5, <1>6

LEMMA ChangeStep ==
    ASSUME RegistryInv, NEW r \in Requests, NEW b \in Body,
           NEW record \in Record, record.last = r, Change(r, b, record)
    PROVE  Handling' /\ InStep' /\ Owned' /\ NotYetOnDisk' /\ AcknowledgedSurvives'
<1>0. Accept(r, b) /\ UNCHANGED <<reply, up, file, tmp, told, unread>>
  BY DEF Change, Accept, disk
<1>1. /\ up /\ reply[r] = 0 /\ job' = r /\ step' = "changed" /\ body'[r] = b
      /\ b.name \in Names /\ before' = memory[b.name]
      /\ memory' = [memory EXCEPT ![b.name] = record] /\ memory \in Registry
  BY <1>0 DEF Change, Accept, RegistryInv, TypeOK, Body
<1>2. Handling'
  BY <1>0, <1>1, AcceptedIsFresh, RegistryAssumption
     DEF RegistryInv, Handling, TypeOK, RegistryAssumption
<1>3. InStep'
  <2>1. RolledBack' = file'
    BY <1>0, <1>1, AcceptedIsFresh DEF RolledBack, Registry
  <2>2. memory'[b.name] = record /\ record # Absent
    BY <1>1, RegistryAssumption DEF Registry, RegistryAssumption
  <2> QED BY <1>1, <2>1, <2>2 DEF InStep
<1>4. Owned'
  <2>1. ASSUME NEW n \in Names, memory'[n] # Absent
        PROVE  body'[memory'[n].last] # NoBody /\ body'[memory'[n].last].name = n
    <3>1. CASE n = b.name
      BY <1>0, <1>1, <3>1, AcceptedIsFresh DEF Registry
    <3>2. CASE n # b.name
      <4>1. memory'[n] = memory[n] /\ memory[n].last # r /\ memory[n].last \in Requests
        BY <1>0, <1>1, <2>1, <3>2, AcceptedIsFresh DEF Registry, Record
      <4>2. body[memory[n].last] # NoBody /\ body[memory[n].last].name = n
        BY <2>1, <4>1 DEF RegistryInv, Owned, OwnedIn
      <4> QED BY <1>0, <4>1, <4>2, AcceptedIsFresh DEF RegistryInv, TypeOK
    <3> QED BY <3>1, <3>2
  <2>2. ASSUME NEW n \in Names, Durable[n] # Absent
        PROVE  body'[Durable[n].last] # NoBody /\ body'[Durable[n].last].name = n
    BY <1>0, <2>2, AcceptedIsFresh DEF RegistryInv, Owned, OwnedIn, TypeOK, Registry, Record
  <2>3. UNCHANGED Durable
    BY <1>0, AcceptedIsFresh
  <2> QED BY <2>1, <2>2, <2>3 DEF Owned, OwnedIn
<1>5. NotYetOnDisk'
  BY <1>0, <1>1, AcceptedIsFresh DEF NotYetOnDisk
<1>6. AcknowledgedSurvives'
  BY <1>0, AcceptedIsFresh DEF RegistryInv, AcknowledgedSurvives
<1> QED BY <1>2, <1>3, <1>4, <1>5, <1>6

LEMMA AcceptStep ==
    ASSUME RegistryInv, NEW r \in Requests, NEW b \in Body, Create(r, b) \/ Patch(r, b)
    PROVE  RegistryInv'
<1>1. TypeOK'
  BY AcceptType DEF RegistryInv
<1>2. CASE \E status \in {404, 409, 422} : Refuse(r, b, status)
  BY <1>1, <1>2, RefuseStep DEF RegistryInv
<1>3. CASE \E record \in Record : record.last = r /\ Change(r, b, record)
  BY <1>1, <1>3, ChangeStep DEF RegistryInv
<1>4. b.name \in Names /\ b.status \in Statuses
  BY DEF Body
<1>5. memory[b.name] # Absent => memory[b.name].by \in Requests
  BY <1>4 DEF RegistryInv, TypeOK, Registry, Record
<1> QED BY <1>2, <1>3, <1>4, <1>5 DEF Create, Patch, Record

\* What is known of the request being handled.
LEMMA JobFacts ==
    ASSUME RegistryInv, step # "idle"
    PROVE  /\ job \in Requests /\ body[job] \in Body /\ body[job].name \in Names
           /\ up /\ body[job] # NoBody /\ reply[job] = 0
           /\ memory \in Registry /\ file \in Registry /\ Durable = file
           /\ \A n \in Names : n # body[job].name =>
                 /\ memory[n] = RolledBack[n]
                 /\ memory[n] # Absent => memory[n].last # job
<1>1. job \in Requests /\ body[job] \in Body /\ body[job].name \in Names
  BY JobType DEF RegistryInv
<1>2. up /\ body[job] # NoBody /\ reply[job] = 0
  BY DEF RegistryInv, Handling
<1>3. memory \in Registry /\ RolledBack \in Registry
  BY RolledBackType DEF RegistryInv, TypeOK
<1>4. file \in Registry
  BY <1>3 DEF RegistryInv, InStep, TypeOK
<1>5. Durable = file
  BY <1>4 DEF Durable
<1>6. \A n \in Names : n # body[job].name => memory[n] = RolledBack[n]
  BY <1>3 DEF RolledBack, Registry
<1>7. \A n \in Names : memory[n] # Absent /\ n # body[job].name => memory[n].last # job
  BY DEF RegistryInv, Owned, OwnedIn
<1> QED BY <1>1, <1>2, <1>3, <1>4, <1>5, <1>6, <1>7

LEMMA WriteTmpStep ==
    ASSUME RegistryInv, WriteTmp
    PROVE  RegistryInv'
<1>0. /\ step = "changed" /\ step' = "written" /\ tmp' = memory
      /\ UNCHANGED <<body, reply, job, before, up, memory, file, told, unread>>
  BY DEF WriteTmp
<1>1. TypeOK'
  BY HandlerType DEF RegistryInv
<1>2. UNCHANGED <<RolledBack, Durable>>
  BY <1>0 DEF RolledBack, Durable
<1>3. Handling'
  BY <1>0 DEF RegistryInv, Handling
<1>4. InStep'
  BY <1>0, <1>2 DEF RegistryInv, InStep
<1>5. Owned' /\ NotYetOnDisk' /\ AcknowledgedSurvives'
  BY <1>0, <1>2 DEF RegistryInv, Owned, OwnedIn, NotYetOnDisk, AcknowledgedSurvives
<1> QED BY <1>1, <1>3, <1>4, <1>5 DEF RegistryInv

LEMMA ReplaceStep ==
    ASSUME RegistryInv, Replace
    PROVE  RegistryInv'
<1>0. /\ step = "written" /\ step' = "replaced" /\ file' = tmp
      /\ UNCHANGED <<body, reply, job, before, up, memory, told, unread>>
  BY DEF Replace
<1>1. TypeOK'
  BY HandlerType DEF RegistryInv
<1>2. file' = memory /\ Durable' = memory /\ RolledBack = file
  <2>1. tmp = memory /\ RolledBack = file
    BY <1>0 DEF RegistryInv, InStep
  <2> QED BY <1>0, <2>1 DEF RegistryInv, TypeOK, Durable
<1>3. Handling'
  BY <1>0 DEF RegistryInv, Handling
<1>4. InStep'
  BY <1>0, <1>2 DEF RegistryInv, InStep
<1>5. Owned'
  BY <1>0, <1>2 DEF RegistryInv, Owned, OwnedIn
<1>6. NotYetOnDisk'
  BY <1>0 DEF NotYetOnDisk
<1>7. AcknowledgedSurvives'
  <2> SUFFICES ASSUME ~unread, NEW n \in Names, memory[n] # told[n]
               PROVE  memory[n] # Absent /\ reply[memory[n].last] \in {0, Lost}
    BY <1>0, <1>2 DEF AcknowledgedSurvives
  <2>1. CASE n = body[job].name
    BY <1>0, <2>1, JobFacts DEF RegistryInv, InStep
  <2>2. CASE n # body[job].name
    <3>1. memory[n] = Durable[n]
      BY <1>0, <1>2, <2>2, JobFacts
    <3> QED BY <3>1 DEF RegistryInv, AcknowledgedSurvives
  <2> QED BY <2>1, <2>2
<1> QED BY <1>1, <1>3, <1>4, <1>5, <1>6, <1>7 DEF RegistryInv

\* The request is answered and nothing of it is left to do.
LEMMA Answered ==
    ASSUME RegistryInv, step # "idle", Idle, UNCHANGED <<body, up>>,
           NEW status \in {1, 200, 201, 500}, reply' = [reply EXCEPT ![job] = status]
    PROVE  Handling'
<1>1. job \in Requests /\ body[job] # NoBody
  BY JobFacts
<1>2. /\ \A r \in Requests : r # job => reply'[r] = reply[r]
      /\ reply'[job] # 0
  BY <1>1 DEF RegistryInv, TypeOK
<1> QED BY <1>1, <1>2 DEF RegistryInv, Handling, Idle

LEMMA ReplyStep ==
    ASSUME RegistryInv, Reply
    PROVE  RegistryInv'
<1>0. /\ step = "replaced" /\ Idle /\ reply' = [reply EXCEPT ![job] = Success(job)]
      /\ told' = [told EXCEPT ![body[job].name] = memory[body[job].name]]
      /\ UNCHANGED <<body, up, memory, file, tmp, unread>>
  BY DEF Reply, disk
<1>1. TypeOK'
  BY HandlerType DEF RegistryInv
<1>2. file = memory /\ Durable = memory /\ UNCHANGED Durable
  BY <1>0, JobFacts DEF RegistryInv, InStep, Durable
<1>3. Handling'
  BY <1>0, Answered DEF Success
<1>4. InStep'
  BY <1>0, <1>2 DEF InStep, Idle
<1>5. Owned'
  BY <1>0, <1>2 DEF RegistryInv, Owned, OwnedIn
<1>6. NotYetOnDisk'
  BY <1>0 DEF NotYetOnDisk, Idle
<1>7. AcknowledgedSurvives'
  <2> SUFFICES ASSUME ~unread, NEW n \in Names, memory[n] # told'[n]
               PROVE  memory[n] # Absent /\ reply'[memory[n].last] \in {0, Lost}
    BY <1>0, <1>2 DEF AcknowledgedSurvives
  <2>1. n # body[job].name /\ told'[n] = told[n]
    BY <1>0, JobFacts DEF RegistryInv, TypeOK, Registry
  <2>2. memory[n] # Absent /\ reply[memory[n].last] \in {0, Lost}
    BY <1>2, <2>1 DEF RegistryInv, AcknowledgedSurvives
  <2>3. memory[n].last # job
    BY <1>0, <2>1, <2>2, JobFacts
  <2> QED BY <1>0, <2>2, <2>3 DEF RegistryInv, TypeOK
<1> QED BY <1>1, <1>3, <1>4, <1>5, <1>6, <1>7 DEF RegistryInv

LEMMA PersistFailsStep ==
    ASSUME RegistryInv, PersistFails
    PROVE  RegistryInv'
<1>0. /\ step \in {"changed", "written"} /\ Idle /\ reply' = [reply EXCEPT ![job] = 500]
      /\ memory' = RolledBack
      /\ UNCHANGED <<body, up, file, told, unread>>
  BY DEF PersistFails
<1>1. TypeOK'
  BY PersistFailsType DEF RegistryInv
<1>2. memory' = file /\ Durable = file /\ UNCHANGED Durable
  BY <1>0, JobFacts DEF RegistryInv, InStep, Durable
<1>3. Handling'
  BY <1>0, Answered
<1>4. InStep'
  BY <1>0, <1>2 DEF InStep, Idle
<1>5. Owned'
  BY <1>0, <1>2 DEF RegistryInv, Owned, OwnedIn
<1>6. NotYetOnDisk'
  BY <1>0 DEF NotYetOnDisk, Idle
<1>7. AcknowledgedSurvives'
  <2> SUFFICES ASSUME ~unread, NEW n \in Names, file[n] # told[n]
               PROVE  file[n] # Absent /\ reply'[file[n].last] \in {0, Lost}
    BY <1>0, <1>2 DEF AcknowledgedSurvives
  <2>1. file[n] # Absent /\ reply[file[n].last] \in {0, Lost}
    BY <1>2 DEF RegistryInv, AcknowledgedSurvives
  <2>2. file[n].last # job
    BY <1>0, <2>1 DEF RegistryInv, NotYetOnDisk
  <2> QED BY <1>0, <2>1, <2>2 DEF RegistryInv, TypeOK
<1> QED BY <1>1, <1>3, <1>4, <1>5, <1>6, <1>7 DEF RegistryInv

LEMMA CrashStep ==
    ASSUME RegistryInv, Crash
    PROVE  RegistryInv'
<1>0. /\ up' = FALSE /\ Idle
      /\ reply' = IF job = NoRequest THEN reply ELSE [reply EXCEPT ![job] = Lost]
      /\ UNCHANGED <<body, file, told, unread>>
  BY DEF Crash
<1>1. TypeOK' /\ memory' = Empty /\ UNCHANGED Durable
  BY ProcessType DEF RegistryInv, Crash, Durable
<1>2. \A r \in Requests : reply'[r] = IF r = job THEN Lost ELSE reply[r]
  BY <1>0, RegistryAssumption DEF RegistryInv, TypeOK, RegistryAssumption
<1>3. Handling'
  <2>1. step' = "idle" /\ job' = NoRequest /\ UNCHANGED body
    BY <1>0 DEF Idle
  <2>2. \A r \in Requests : body[r] = NoBody => r # job /\ reply[r] = 0
    BY RegistryAssumption DEF RegistryInv, Handling, RegistryAssumption
  <2>3. \A r \in Requests : body[r] # NoBody => reply'[r] # 0
    BY <1>2 DEF RegistryInv, Handling, Lost
  <2> QED BY <1>2, <2>1, <2>2, <2>3 DEF Handling
<1>4. InStep' /\ NotYetOnDisk'
  BY <1>0 DEF InStep, NotYetOnDisk, Idle
<1>5. Owned'
  <2>1. OwnedIn(Empty)'
    BY DEF OwnedIn, Empty
  <2> QED BY <1>0, <1>1, <2>1 DEF RegistryInv, Owned, OwnedIn
<1>6. AcknowledgedSurvives'
  <2> SUFFICES ASSUME ~unread, NEW n \in Names, Durable[n] # told[n]
               PROVE  Durable[n] # Absent /\ reply'[Durable[n].last] \in {0, Lost}
    BY <1>0, <1>1 DEF AcknowledgedSurvives
  <2>1. Durable[n] # Absent /\ reply[Durable[n].last] \in {0, Lost}
    BY DEF RegistryInv, AcknowledgedSurvives
  <2>2. Durable[n].last \in Requests
    BY <2>1, DurableType DEF RegistryInv, Registry, Record
  <2> QED BY <1>2, <2>1, <2>2
<1> QED BY <1>1, <1>3, <1>4, <1>5, <1>6 DEF RegistryInv

\* Starting up: the records are loaded, or what is on disk says nothing, and
\* says nothing afterwards, or records are given up.
LEMMA StartStep ==
    ASSUME RegistryInv, TypeOK', ~up, UNCHANGED <<body, reply, job, step, before, told>>,
           up' => memory' = file',
           OwnedIn(memory)', OwnedIn(Durable)',
           UNCHANGED <<unread, Durable>> \/ unread'
    PROVE  RegistryInv'
<1>1. step = "idle"
  BY DEF RegistryInv, Handling
<1>2. Handling'
  BY <1>1 DEF RegistryInv, Handling
<1>3. InStep' /\ NotYetOnDisk'
  BY <1>1 DEF InStep, NotYetOnDisk
<1>4. AcknowledgedSurvives'
  BY DEF RegistryInv, AcknowledgedSurvives
<1> QED BY <1>2, <1>3, <1>4 DEF RegistryInv, Owned

LEMMA EmptyOwned == \A n \in Names : Empty[n] = Absent
BY DEF Empty

LEMMA ProcessStep ==
    ASSUME RegistryInv, Load \/ Discard \/ LoadFails
    PROVE  RegistryInv'
<1>0. /\ TypeOK' /\ ~up /\ UNCHANGED <<body, reply, job, step, before, told>>
  BY ProcessType DEF RegistryInv, Load, Discard, LoadFails, handling
<1>1. OwnedIn(Durable) /\ OwnedIn(memory)
  BY DEF RegistryInv, Owned
<1>2. Missing \notin Registry /\ Damaged \notin Registry
  BY RegistryAssumption DEF RegistryAssumption
<1>3. CASE Load
  <2>1. memory' = file' /\ file' \in Registry /\ UNCHANGED <<Durable, unread>> /\ memory' = Durable
    BY <1>2, <1>3, EmptyType DEF Load, Durable
  <2>2. OwnedIn(memory)' /\ OwnedIn(Durable)'
    BY <1>0, <1>1, <2>1 DEF OwnedIn
  <2> QED BY <1>0, <2>1, <2>2, StartStep
<1>4. CASE Discard
  <2>1. /\ Durable' = Empty
        /\ up' => memory' = file'
        /\ memory' = Empty \/ memory' = memory
    BY <1>0, <1>2, <1>4, EmptyType DEF Discard, Durable
  <2>2. UNCHANGED <<unread, Durable>> \/ unread'
    BY <1>2, <1>4, <2>1 DEF Discard, Durable
  <2>3. OwnedIn(memory)' /\ OwnedIn(Durable)'
    BY <1>0, <1>1, <2>1, EmptyOwned DEF OwnedIn
  <2> QED BY <1>0, <2>1, <2>2, <2>3, StartStep
<1>5. CASE LoadFails
  <2>1. ~up' /\ UNCHANGED <<Durable, memory, unread>>
    BY <1>0, <1>2, <1>5 DEF LoadFails, Durable
  <2>2. OwnedIn(memory)' /\ OwnedIn(Durable)'
    BY <1>0, <1>1, <2>1 DEF OwnedIn
  <2> QED BY <1>0, <2>1, <2>2, StartStep
<1> QED BY <1>3, <1>4, <1>5

LEMMA InitRegistryInv == Init => RegistryInv
<1> SUFFICES ASSUME Init PROVE RegistryInv
  OBVIOUS
<1>1. Durable = Empty
  BY RegistryAssumption DEF Init, Durable, RegistryAssumption
<1>2. Handling
  BY DEF Init, Handling
<1>3. InStep /\ NotYetOnDisk
  BY DEF Init, InStep, NotYetOnDisk
<1>4. Owned /\ AcknowledgedSurvives
  BY <1>1, EmptyOwned DEF Init, Owned, OwnedIn, AcknowledgedSurvives
<1> QED BY <1>2, <1>3, <1>4, InitType DEF RegistryInv

LEMMA RegistryInvStep == RegistryInv /\ [Next]_vars => RegistryInv'
<1> SUFFICES ASSUME RegistryInv, [Next]_vars PROVE RegistryInv'
  OBVIOUS
<1>1. CASE UNCHANGED vars
  BY <1>1 DEF vars, handling, disk, RegistryInv, TypeOK, Handling, InStep, RolledBack,
     Owned, OwnedIn, Durable, NotYetOnDisk, AcknowledgedSurvives
<1>2. CASE \E r \in Requests, b \in Body : Create(r, b) \/ Patch(r, b)
  BY <1>2, AcceptStep
<1>3. CASE WriteTmp \/ Replace \/ Reply \/ PersistFails
  BY <1>3, WriteTmpStep, ReplaceStep, ReplyStep, PersistFailsStep
<1>4. CASE Crash \/ Load \/ Discard \/ LoadFails
  BY <1>4, CrashStep, ProcessStep
<1> QED BY <1>1, <1>2, <1>3, <1>4 DEF Next

LEMMA RegistryInvariant == Spec => []RegistryInv
BY InitRegistryInv, RegistryInvStep, PTL DEF Spec

\* Every variable of the registry has its type, whatever requests and faults.
THEOREM TypeCorrect == Spec => []TypeOK
<1>1. RegistryInv => TypeOK
  BY DEF RegistryInv
<1> QED BY <1>1, RegistryInvariant, PTL

\* Between two requests a read shows what a restart would load, after any
\* number of failed writes and rollbacks.
THEOREM MemoryIsAlwaysFile == Spec => []MemoryIsFile
<1>1. RegistryInv => MemoryIsFile
  BY DEF RegistryInv, InStep, MemoryIsFile
<1> QED BY <1>1, RegistryInvariant, PTL

\* What was answered with success survives every crash and I/O error, and
\* what was refused or answered 500 leaves no trace, as long as no start gave
\* up a file it could not read.
THEOREM AcknowledgedAlwaysSurvives == Spec => []AcknowledgedSurvives
<1>1. RegistryInv => AcknowledgedSurvives
  BY DEF RegistryInv
<1> QED BY <1>1, RegistryInvariant, PTL

(***************************************************************************)
(* A name is registered once                                               *)
(***************************************************************************)
\* A client that was answered 201 registered the record its name was last told.
TellsCreator ==
    \A r \in Requests : reply[r] = 201 =>
        /\ body[r].kind = "create"
        /\ told[body[r].name] # Absent /\ told[body[r].name].by = r

\* The record that was told is, but for its status, the one in R.
TellsSameIn(R) == \A n \in Names : told[n] # Absent => R[n] # Absent /\ R[n].by = told[n].by

\* The write under way registers a name that was told to nobody, or keeps the
\* registration.
KeepsRegistration ==
    step # "idle" =>
        IF body[job].kind = "create"
        THEN memory[body[job].name].by = job /\ told[body[job].name] = Absent
        ELSE TellsSameIn(memory)

OnceInv == ~unread => TellsCreator /\ TellsSameIn(Durable) /\ KeepsRegistration

LEMMA InitOnceInv == Init => OnceInv
BY EmptyOwned DEF Init, OnceInv, TellsCreator, TellsSameIn, KeepsRegistration

LEMMA RefuseOnce ==
    ASSUME RegistryInv, OnceInv, NEW r \in Requests, NEW b \in Body,
           NEW status \in {404, 409, 422}, Refuse(r, b, status)
    PROVE  OnceInv'
<1>1. /\ Accept(r, b) /\ UNCHANGED <<job, step, told, unread>>
      /\ reply' = [reply EXCEPT ![r] = status]
  BY DEF Refuse, Accept, handling
<1>2. \A q \in Requests : reply'[q] = 201 => q # r /\ reply[q] = 201 /\ body'[q] = body[q]
  BY <1>1, AcceptedIsFresh DEF RegistryInv, TypeOK
<1>3. ~unread => TellsCreator'
  BY <1>1, <1>2 DEF OnceInv, TellsCreator
<1>4. ~unread => TellsSameIn(Durable)'
  BY <1>1, AcceptedIsFresh DEF OnceInv, TellsSameIn
<1>5. KeepsRegistration'
  BY <1>1, AcceptedIsFresh DEF KeepsRegistration
<1> QED BY <1>1, <1>3, <1>4, <1>5 DEF OnceInv

LEMMA ChangeOnce ==
    ASSUME RegistryInv, OnceInv, NEW r \in Requests, NEW b \in Body,
           NEW record \in Record, Change(r, b, record),
           IF b.kind = "create"
           THEN memory[b.name] = Absent /\ record.by = r
           ELSE memory[b.name] # Absent /\ record.by = memory[b.name].by
    PROVE  OnceInv'
<1>1. /\ Accept(r, b) /\ UNCHANGED <<reply, told, unread>> /\ reply[r] = 0
      /\ job' = r /\ memory' = [memory EXCEPT ![b.name] = record]
  BY DEF Change, Accept
<1>2. /\ b.name \in Names /\ memory \in Registry /\ body'[r] = b
      /\ \A q \in Requests : reply[q] = 201 => q # r /\ body'[q] = body[q]
  BY <1>1, AcceptedIsFresh DEF RegistryInv, TypeOK, Body
<1> SUFFICES ASSUME ~unread PROVE OnceInv'
  BY <1>1 DEF OnceInv
<1>3. TellsCreator'
  BY <1>1, <1>2 DEF OnceInv, TellsCreator
<1>4. TellsSameIn(Durable)' /\ TellsSameIn(memory)
  BY <1>1, AcceptedIsFresh DEF OnceInv, TellsSameIn
<1>5. memory'[b.name] = record /\ record # Absent
      /\ \A n \in Names : n # b.name => memory'[n] = memory[n]
  BY <1>1, <1>2, RegistryAssumption DEF Registry, RegistryAssumption
<1>6. KeepsRegistration'
  <2>1. CASE b.kind = "create"
    BY <1>1, <1>2, <1>4, <1>5, <2>1 DEF KeepsRegistration, TellsSameIn
  <2>2. CASE b.kind # "create"
    <3>1. TellsSameIn(memory)'
      BY <1>1, <1>2, <1>4, <1>5, <2>2 DEF TellsSameIn
    <3> QED BY <1>1, <1>2, <2>2, <3>1 DEF KeepsRegistration
  <2> QED BY <2>1, <2>2
<1> QED BY <1>3, <1>4, <1>6 DEF OnceInv

LEMMA AcceptOnce ==
    ASSUME RegistryInv, OnceInv, NEW r \in Requests, NEW b \in Body, Create(r, b) \/ Patch(r, b)
    PROVE  OnceInv'
<1>1. CASE \E status \in {404, 409, 422} : Refuse(r, b, status)
  BY <1>1, RefuseOnce
<1>2. b.name \in Names /\ b.status \in Statuses
  BY DEF Body
<1>3. CASE /\ b.kind = "create" /\ memory[b.name] = Absent
           /\ Change(r, b, [by |-> r, status |-> b.status, last |-> r])
  BY <1>2, <1>3, ChangeOnce DEF Record
<1>4. CASE /\ b.kind = "patch" /\ memory[b.name] # Absent
           /\ Change(r, b, [by |-> memory[b.name].by, status |-> b.status, last |-> r])
  <2>1. memory[b.name].by \in Requests
    BY <1>2, <1>4 DEF RegistryInv, TypeOK, Registry, Record
  <2> QED BY <1>2, <1>4, <2>1, ChangeOnce DEF Record
<1> QED BY <1>1, <1>3, <1>4 DEF Create, Patch

LEMMA ReplaceOnce ==
    ASSUME RegistryInv, OnceInv, Replace
    PROVE  OnceInv'
<1>0. /\ step = "written" /\ step' = "replaced" /\ file' = tmp
      /\ UNCHANGED <<body, reply, job, memory, told, unread>>
  BY DEF Replace
<1>1. Durable' = memory /\ RolledBack = file /\ Durable = file
  <2>1. tmp = memory /\ RolledBack = file
    BY <1>0 DEF RegistryInv, InStep
  <2> QED BY <1>0, <2>1, JobFacts DEF Durable
<1> SUFFICES ASSUME ~unread PROVE OnceInv'
  BY <1>0 DEF OnceInv
<1>2. TellsSameIn(memory)
  <2>1. CASE body[job].kind = "create"
    <3>1. told[body[job].name] = Absent
      BY <1>0, <2>1 DEF OnceInv, KeepsRegistration
    <3>2. \A n \in Names : n # body[job].name => memory[n] = Durable[n]
      BY <1>0, <1>1, JobFacts
    <3> QED BY <3>1, <3>2 DEF OnceInv, TellsSameIn
  <2>2. CASE body[job].kind # "create"
    BY <1>0, <2>2 DEF OnceInv, KeepsRegistration
  <2> QED BY <2>1, <2>2
<1>3. TellsSameIn(Durable)'
  BY <1>0, <1>1, <1>2 DEF TellsSameIn
<1>4. TellsCreator' /\ KeepsRegistration'
  BY <1>0 DEF OnceInv, TellsCreator, KeepsRegistration, TellsSameIn
<1> QED BY <1>3, <1>4 DEF OnceInv

LEMMA ReplyOnce ==
    ASSUME RegistryInv, OnceInv, Reply
    PROVE  OnceInv'
<1> DEFINE name == body[job].name
<1>0. /\ step = "replaced" /\ Idle /\ reply' = [reply EXCEPT ![job] = Success(job)]
      /\ told' = [told EXCEPT ![name] = memory[name]]
      /\ UNCHANGED <<body, memory, file, unread>>
  BY DEF Reply, disk
<1>1. /\ Durable = memory /\ UNCHANGED Durable /\ memory[name] # Absent
      /\ name \in Names /\ job \in Requests
  BY <1>0, JobFacts DEF RegistryInv, InStep, Durable
<1>2. /\ told'[name] = memory[name]
      /\ \A n \in Names : n # name => told'[n] = told[n]
  BY <1>0, <1>1 DEF RegistryInv, TypeOK, Registry
<1> SUFFICES ASSUME ~unread PROVE OnceInv'
  BY <1>0 DEF OnceInv
<1>3. TellsSameIn(Durable)'
  BY <1>1, <1>2 DEF OnceInv, TellsSameIn
<1>4. ASSUME NEW r \in Requests, reply'[r] = 201
      PROVE  /\ body[r].kind = "create"
             /\ told'[body[r].name] # Absent /\ told'[body[r].name].by = r
  <2>1. CASE r = job
    <3>1. body[job].kind = "create"
      BY <1>0, <1>1, <1>4, <2>1 DEF Success, RegistryInv, TypeOK
    <3>2. memory[name].by = job
      BY <1>0, <3>1 DEF OnceInv, KeepsRegistration
    <3> QED BY <1>1, <1>2, <2>1, <3>1, <3>2
  <2>2. CASE r # job
    <3>1. /\ reply[r] = 201 /\ body[r].kind = "create"
          /\ told[body[r].name] # Absent /\ told[body[r].name].by = r
      BY <1>0, <1>4, <2>2 DEF RegistryInv, TypeOK, OnceInv, TellsCreator
    <3>2. body[r].name \in Names
      BY <3>1 DEF RegistryInv, TypeOK, Body, NoBody
    <3>3. CASE body[r].name = name
      <4>1. body[job].kind # "create"
        BY <1>0, <3>1, <3>3 DEF OnceInv, KeepsRegistration
      <4>2. memory[name].by = told[name].by
        BY <1>0, <1>1, <3>1, <3>3, <4>1 DEF OnceInv, KeepsRegistration, TellsSameIn
      <4> QED BY <1>1, <1>2, <3>1, <3>3, <4>2
    <3>4. CASE body[r].name # name
      BY <1>2, <3>1, <3>2, <3>4
    <3> QED BY <3>3, <3>4
  <2> QED BY <2>1, <2>2
<1>5. TellsCreator'
  BY <1>0, <1>4 DEF TellsCreator
<1>6. KeepsRegistration'
  BY <1>0 DEF Idle, KeepsRegistration
<1> QED BY <1>3, <1>5, <1>6 DEF OnceInv

\* Nobody is answered with success and what a restart would load stays.
LEMMA FaultOnce ==
    ASSUME OnceInv, UNCHANGED <<body, told, unread>>, UNCHANGED Durable, step' = "idle",
           \A r \in Requests : reply'[r] = 201 => reply[r] = 201
    PROVE  OnceInv'
<1> SUFFICES ASSUME ~unread PROVE OnceInv'
  BY DEF OnceInv
<1>1. TellsCreator'
  BY DEF OnceInv, TellsCreator
<1>2. TellsSameIn(Durable)'
  BY DEF OnceInv, TellsSameIn
<1>3. KeepsRegistration'
  BY DEF KeepsRegistration
<1> QED BY <1>1, <1>2, <1>3 DEF OnceInv

LEMMA OnceInvStep == RegistryInv /\ OnceInv /\ [Next]_vars => OnceInv'
<1> SUFFICES ASSUME RegistryInv, OnceInv, [Next]_vars PROVE OnceInv'
  OBVIOUS
<1>1. CASE UNCHANGED vars
  BY <1>1 DEF vars, handling, disk, OnceInv, TellsCreator, TellsSameIn, Durable, KeepsRegistration
<1>2. CASE \E r \in Requests, b \in Body : Create(r, b) \/ Patch(r, b)
  BY <1>2, AcceptOnce
<1>3. CASE WriteTmp
  <2>1. /\ UNCHANGED <<body, reply, job, memory, told, unread, Durable>>
        /\ step # "idle" /\ step' # "idle"
    BY <1>3 DEF WriteTmp, Durable
  <2> QED BY <2>1 DEF OnceInv, TellsCreator, TellsSameIn, KeepsRegistration
<1>4. CASE Replace \/ Reply
  BY <1>4, ReplaceOnce, ReplyOnce
<1>5. CASE PersistFails
  <2>1. /\ UNCHANGED <<body, told, unread, Durable>> /\ step' = "idle"
        /\ reply' = [reply EXCEPT ![job] = 500]
    BY <1>5 DEF PersistFails, Idle, Durable
  <2>2. \A r \in Requests : reply'[r] = 201 => reply[r] = 201
    BY <2>1 DEF RegistryInv, TypeOK
  <2> QED BY <2>1, <2>2, FaultOnce
<1>6. CASE Crash
  <2>1. /\ UNCHANGED <<body, told, unread, Durable>> /\ step' = "idle"
        /\ reply' = IF job = NoRequest THEN reply ELSE [reply EXCEPT ![job] = Lost]
    BY <1>6 DEF Crash, Idle, Durable
  <2>2. \A r \in Requests : reply'[r] = 201 => reply[r] = 201
    BY <2>1 DEF RegistryInv, TypeOK, Lost
  <2> QED BY <2>1, <2>2, FaultOnce
<1>7. CASE Load \/ Discard \/ LoadFails
  <2>1. UNCHANGED <<body, reply, told>> /\ step' = "idle"
    BY <1>7 DEF Load, Discard, LoadFails, handling, RegistryInv, Handling
  <2>2. UNCHANGED <<unread, Durable>> \/ unread'
    BY <1>7, RegistryAssumption, EmptyType
       DEF Load, Discard, LoadFails, Durable, RegistryAssumption
  <2> QED BY <2>1, <2>2, FaultOnce DEF OnceInv
<1> QED BY <1>1, <1>2, <1>3, <1>4, <1>5, <1>6, <1>7 DEF Next

\* Two creations of one name are never both answered 201, whatever was lost,
\* rolled back or retried in between.
THEOREM RegisteredOnlyOnce == Spec => []RegisteredOnce
<1>1. OnceInv => RegisteredOnce
  BY DEF OnceInv, TellsCreator, RegisteredOnce
<1>2. Spec => []OnceInv
  BY RegistryInvariant, InitOnceInv, OnceInvStep, PTL DEF Spec
<1> QED BY <1>1, <1>2, PTL

(***************************************************************************)
(* The portal implements the registry                                      *)
(***************************************************************************)
PortalType ==
    /\ asked \in [Requests -> Body \cup {NoBody}]
    /\ shown \in [Requests -> Nat]
    /\ earlier \in [Requests -> SUBSET Requests]

LEMMA PortalStepIsNext ==
    ASSUME PortalType, [PortalNext]_portalVars
    PROVE  [Next]_vars
<1>1. CASE UNCHANGED portalVars
  BY <1>1 DEF portalVars
<1>2. ASSUME NEW r \in Requests, TakesUp(r)
      PROVE  Next
  <2>1. asked[r] \in Body /\ Patch(r, asked[r])
    BY <1>2 DEF TakesUp, Patch, PortalType, NoBody
  <2> QED BY <2>1 DEF Next
<1>3. ASSUME NEW r \in Requests, NEW b \in Body, Ask(r, b) \/ Direct(r, b)
      PROVE  [Next]_vars
  BY <1>3 DEF Ask, Direct, Next
<1>4. ASSUME NEW r \in Requests, PassesOn(r) \/ Refused(r) \/ GivesUp(r) \/ Broken(r)
      PROVE  UNCHANGED vars
  BY <1>4 DEF PassesOn, Refused, GivesUp, Broken, Shows
<1>5. CASE RegistrySteps \/ RegistryDies
  BY <1>5 DEF RegistrySteps, RegistryDies, Next
<1> QED BY <1>1, <1>2, <1>3, <1>4, <1>5 DEF PortalNext

(***************************************************************************)
(* What a step of the registry does to answers                             *)
(***************************************************************************)
LEMMA AcceptKeeps ==
    ASSUME RegistryInv, NEW r \in Requests, NEW b \in Body, Create(r, b) \/ Patch(r, b)
    PROVE  /\ body[r] = NoBody /\ body' = [body EXCEPT ![r] = b] /\ told' = told
           /\ \A q \in Requests : reply'[q] = 200 <=> reply[q] = 200
<1>1. ASSUME NEW status \in {404, 409, 422}, Refuse(r, b, status)
      PROVE  /\ body[r] = NoBody /\ body' = [body EXCEPT ![r] = b] /\ told' = told
             /\ \A q \in Requests : reply'[q] = 200 <=> reply[q] = 200
  <2>1. Accept(r, b) /\ reply[r] = 0 /\ reply' = [reply EXCEPT ![r] = status] /\ told' = told
    BY <1>1 DEF Refuse, Accept
  <2>2. \A q \in Requests : reply'[q] = 200 <=> reply[q] = 200
    BY <2>1 DEF RegistryInv, TypeOK
  <2> QED BY <2>1, <2>2, AcceptedIsFresh
<1>2. CASE Accept(r, b) /\ UNCHANGED reply
  BY <1>2, AcceptedIsFresh DEF Accept
<1> QED BY <1>1, <1>2 DEF Create, Patch, Change

\* Only an answer to the job changes anything told, or tells 200; an answer
\* that was given stays.
LEMMA StepKeeps ==
    ASSUME RegistryInv, WriteTmp \/ Replace \/ PersistFails \/ Crash \/ Load \/ Discard \/ LoadFails
    PROVE  /\ body' = body /\ told' = told
           /\ \A q \in Requests : reply'[q] = 200 <=> reply[q] = 200
<1>1. UNCHANGED <<body, told>>
  BY DEF WriteTmp, Replace, PersistFails, Crash, Load, Discard, LoadFails
<1>2. CASE UNCHANGED reply
  BY <1>1, <1>2
<1>3. CASE step # "idle" /\ \E status \in {500, Lost} : reply' = [reply EXCEPT ![job] = status]
  <2>1. job \in Requests /\ reply[job] = 0
    BY <1>3, JobType DEF RegistryInv, Handling
  <2> QED BY <1>1, <1>3, <2>1 DEF RegistryInv, TypeOK, Lost
<1>4. job # NoRequest => step # "idle"
  BY DEF RegistryInv, Handling
<1> QED BY <1>2, <1>3, <1>4 DEF WriteTmp, Replace, PersistFails, Crash, Load, Discard, LoadFails

\* The answer tells the record that the job wrote.
LEMMA ReplyTells ==
    ASSUME RegistryInv, Reply
    PROVE  /\ job \in Requests /\ reply[job] = 0 /\ body' = body
           /\ \A q \in Requests : q # job => reply'[q] = reply[q]
           /\ \A n \in Names : \/ told'[n] = told[n] /\ n # body[job].name
                               \/ n = body[job].name /\ told'[n].last = job
<1>1. /\ step = "replaced" /\ body' = body
      /\ reply' = [reply EXCEPT ![job] = Success(job)]
      /\ told' = [told EXCEPT ![body[job].name] = memory[body[job].name]]
  BY DEF Reply
<1>2. job \in Requests /\ body[job].name \in Names /\ reply[job] = 0
  BY <1>1, JobType DEF RegistryInv, Handling
<1>3. memory[body[job].name].last = job
  BY <1>1 DEF RegistryInv, InStep
<1> QED BY <1>1, <1>2, <1>3 DEF RegistryInv, TypeOK, Registry

(***************************************************************************)
(* The inductive invariant                                                 *)
(***************************************************************************)
\* What the portal knows of a call agrees with the registry.
Agree ==
    \A r \in Requests :
        /\ asked[r] # NoBody /\ body[r] # NoBody => body[r] = asked[r]
        /\ asked[r] = NoBody => shown[r] = 0
        /\ shown[r] = 200 => reply[r] = 200

EarlierAnswered ==
    \A q \in Requests : \A r \in earlier[q] : shown[r] # 0 /\ asked[q] # NoBody /\ r # q

\* Once the later change is answered 200, nobody is told the earlier one.
LaterIsTold ==
    \A q \in Requests : \A r \in earlier[q] :
        shown[r] = 200 /\ reply[q] = 200 /\ asked[r].name = asked[q].name
        => ~ MadeBy(r, told[asked[q].name])

PortalInv == RegistryInv /\ PortalType /\ Agree /\ EarlierAnswered /\ LaterIsTold

LEMMA PortalInvInit == PortalInit => PortalInv
BY InitRegistryInv DEF PortalInit, PortalInv, PortalType, Agree, EarlierAnswered, LaterIsTold

LEMMA AskStep ==
    ASSUME PortalInv, RegistryInv', NEW c \in Requests, NEW b \in Body, Ask(c, b)
    PROVE  PortalInv'
<1>0. /\ asked[c] = NoBody /\ body[c] = NoBody /\ b # NoBody
      /\ asked' = [asked EXCEPT ![c] = b]
      /\ earlier' = [earlier EXCEPT ![c] = {q \in Requests : shown[q] # 0}]
      /\ UNCHANGED <<body, reply, told>>
      /\ shown' = shown \/ shown' = [shown EXCEPT ![c] = 422]
  BY BodyIsNotNoBody DEF Ask, vars
<1>1. shown[c] = 0 /\ reply[c] = 0
  BY <1>0 DEF PortalInv, Agree, RegistryInv, Handling
<1>2. PortalType'
  BY <1>0 DEF PortalInv, PortalType
<1>3. /\ asked'[c] = b /\ earlier'[c] = {q \in Requests : shown[q] # 0}
      /\ \A r \in Requests : r # c => asked'[r] = asked[r] /\ earlier'[r] = earlier[r]
                                       /\ shown'[r] = shown[r]
      /\ shown'[c] # 200
  BY <1>0, <1>1 DEF PortalInv, PortalType
<1>4. Agree'
  BY <1>0, <1>1, <1>3 DEF PortalInv, Agree
<1>5. \A q \in Requests : earlier[q] \subseteq Requests
  BY DEF PortalInv, PortalType
<1>6. EarlierAnswered'
  <2>1. ASSUME NEW q \in Requests, NEW r \in earlier'[q]
        PROVE  shown'[r] # 0 /\ asked'[q] # NoBody /\ r # q
    <3>1. CASE q = c
      BY <1>0, <1>1, <1>3, <2>1, <3>1
    <3>2. CASE q # c
      BY <1>1, <1>3, <1>5, <2>1, <3>2 DEF PortalInv, EarlierAnswered
    <3> QED BY <3>1, <3>2
  <2> QED BY <2>1 DEF EarlierAnswered
<1>7. LaterIsTold'
  <2>1. ASSUME NEW q \in Requests, NEW r \in earlier'[q],
               shown'[r] = 200, reply'[q] = 200, asked'[r].name = asked'[q].name
        PROVE  ~ MadeBy(r, told'[asked'[q].name])
    <3>1. q # c
      BY <1>0, <1>1, <2>1
    <3>2. r \in earlier[q] /\ r \in Requests /\ r # c
      BY <1>1, <1>3, <1>5, <2>1, <3>1 DEF PortalInv, EarlierAnswered
    <3> QED BY <1>0, <1>3, <2>1, <3>1, <3>2 DEF PortalInv, LaterIsTold
  <2> QED BY <2>1 DEF LaterIsTold, MadeBy
<1> QED BY <1>2, <1>4, <1>6, <1>7 DEF PortalInv

\* The portal answers a call that waits, and nothing happens in the registry.
LEMMA ShowsStep ==
    ASSUME PortalInv, RegistryInv', NEW c \in Requests, NEW status \in Nat \ {0},
           status = 200 => reply[c] = 200, Shows(c, status)
    PROVE  PortalInv'
<1>0. /\ asked[c] # NoBody /\ shown[c] = 0
      /\ shown' = [shown EXCEPT ![c] = status]
      /\ UNCHANGED <<body, reply, told, asked, earlier>>
  BY DEF Shows, Waiting, vars
<1>1. PortalType'
  BY <1>0 DEF PortalInv, PortalType
<1>2. /\ \A r \in Requests : r # c => shown'[r] = shown[r]
      /\ shown'[c] = status
      /\ \A q \in Requests : earlier[q] \subseteq Requests /\ c \notin earlier[q]
  BY <1>0 DEF PortalInv, PortalType, EarlierAnswered
<1>3. Agree'
  BY <1>0, <1>2 DEF PortalInv, Agree
<1>4. EarlierAnswered' /\ LaterIsTold'
  BY <1>0, <1>2 DEF PortalInv, EarlierAnswered, LaterIsTold, MadeBy
<1> QED BY <1>1, <1>3, <1>4 DEF PortalInv

\* The registry takes a request up or goes on, and tells nobody anything.
LEMMA QuietStep ==
    ASSUME PortalInv, RegistryInv', UNCHANGED <<asked, shown, earlier, told>>,
           \A q \in Requests : reply'[q] = 200 <=> reply[q] = 200,
           \A r \in Requests : \/ body'[r] = body[r]
                               \/ asked[r] \in {NoBody, body'[r]}
    PROVE  PortalInv'
<1>1. PortalType' /\ EarlierAnswered'
  BY DEF PortalInv, PortalType, EarlierAnswered
<1>2. Agree'
  BY DEF PortalInv, Agree
<1>3. LaterIsTold'
  BY DEF PortalInv, LaterIsTold, MadeBy
<1> QED BY <1>1, <1>2, <1>3 DEF PortalInv

LEMMA ReplyPortalStep ==
    ASSUME PortalInv, RegistryInv', Reply, UNCHANGED portal
    PROVE  PortalInv'
<1>0. UNCHANGED <<asked, shown, earlier>>
  BY DEF portal
<1>1. /\ job \in Requests /\ reply[job] = 0 /\ body' = body
      /\ \A q \in Requests : q # job => reply'[q] = reply[q]
      /\ \A n \in Names : \/ told'[n] = told[n] /\ n # body[job].name
                          \/ n = body[job].name /\ told'[n].last = job
  BY ReplyTells DEF PortalInv
<1>2. body[job] # NoBody
  BY DEF PortalInv, RegistryInv, Handling, Reply
<1>3. PortalType' /\ EarlierAnswered'
  BY <1>0 DEF PortalInv, PortalType, EarlierAnswered
<1>4. Agree'
  BY <1>0, <1>1 DEF PortalInv, Agree
<1>5. LaterIsTold'
  <2>1. ASSUME NEW q \in Requests, NEW r \in earlier[q],
               shown[r] = 200, reply'[q] = 200, asked[r].name = asked[q].name
        PROVE  ~ MadeBy(r, told'[asked[q].name])
    <3>1. r \in Requests /\ r # q /\ r # job /\ asked[q] # NoBody
      BY <1>1, <2>1 DEF PortalInv, PortalType, EarlierAnswered, Agree
    <3>2. asked[q].name \in Names
      BY <3>1 DEF PortalInv, PortalType, Body
    <3>3. q = job => asked[q].name = body[job].name
      BY <1>2, <3>1 DEF PortalInv, Agree
    <3>4. CASE told'[asked[q].name] = told[asked[q].name] /\ q # job
      BY <1>1, <2>1, <3>4 DEF PortalInv, LaterIsTold
    <3>5. CASE told'[asked[q].name].last = job
      BY <3>1, <3>5 DEF MadeBy
    <3> QED BY <1>1, <3>2, <3>3, <3>4, <3>5
  <2> QED BY <1>0, <2>1 DEF LaterIsTold, MadeBy
<1> QED BY <1>3, <1>4, <1>5 DEF PortalInv

LEMMA PortalInvStep == PortalInv /\ [PortalNext]_portalVars => PortalInv'
<1> SUFFICES ASSUME PortalInv, [PortalNext]_portalVars PROVE PortalInv'
  OBVIOUS
<1>0. RegistryInv'
  BY PortalStepIsNext, RegistryInvStep DEF PortalInv
<1>1. CASE UNCHANGED portalVars
  BY <1>0, <1>1, QuietStep DEF portalVars, portal, vars
<1>2. ASSUME NEW r \in Requests, NEW b \in Body, Ask(r, b)
      PROVE  PortalInv'
  BY <1>0, <1>2, AskStep
<1>3. ASSUME NEW r \in Requests, NEW b \in Body, Direct(r, b)
      PROVE  PortalInv'
  <2>1. /\ body[r] = NoBody /\ body' = [body EXCEPT ![r] = b] /\ told' = told
        /\ \A q \in Requests : reply'[q] = 200 <=> reply[q] = 200
    BY <1>3, AcceptKeeps DEF Direct, PortalInv
  <2>2. asked[r] = NoBody /\ UNCHANGED <<asked, shown, earlier>>
    BY <1>3 DEF Direct, portal
  <2>3. \A q \in Requests : body'[q] = body[q] \/ asked[q] \in {NoBody, body'[q]}
    BY <2>1, <2>2 DEF PortalInv, RegistryInv, TypeOK
  <2> QED BY <1>0, <2>1, <2>2, <2>3, QuietStep
<1>4. ASSUME NEW r \in Requests, TakesUp(r)
      PROVE  PortalInv'
  <2>1. asked[r] \in Body /\ Patch(r, asked[r]) /\ UNCHANGED <<asked, shown, earlier>>
    BY <1>4 DEF TakesUp, Patch, PortalInv, PortalType, NoBody
  <2>2. /\ body' = [body EXCEPT ![r] = asked[r]] /\ told' = told
        /\ \A q \in Requests : reply'[q] = 200 <=> reply[q] = 200
    BY <2>1, AcceptKeeps DEF PortalInv
  <2>3. \A q \in Requests : body'[q] = body[q] \/ asked[q] \in {NoBody, body'[q]}
    BY <2>2 DEF PortalInv, RegistryInv, TypeOK
  <2> QED BY <1>0, <2>1, <2>2, <2>3, QuietStep
<1>5. ASSUME NEW r \in Requests, PassesOn(r) \/ Refused(r) \/ GivesUp(r) \/ Broken(r)
      PROVE  PortalInv'
  <2>1. CASE Shows(r, 502) \/ Shows(r, 500)
    BY <1>0, <2>1, ShowsStep
  <2>2. CASE reply[r] # 0 /\ Shows(r, reply[r])
    <3>1. reply[r] \in Nat \ {0}
      BY <2>2 DEF PortalInv, RegistryInv, TypeOK, Lost
    <3> QED BY <1>0, <2>2, <3>1, ShowsStep
  <2> QED BY <1>5, <2>1, <2>2 DEF PassesOn, Refused, GivesUp, Broken
<1>6. CASE RegistrySteps \/ RegistryDies
  <2>1. CASE Reply /\ UNCHANGED portal
    BY <1>0, <2>1, ReplyPortalStep
  <2>2. CASE /\ WriteTmp \/ Replace \/ PersistFails \/ Crash \/ Load \/ Discard \/ LoadFails
             /\ UNCHANGED <<asked, shown, earlier>>
    BY <1>0, <2>2, StepKeeps, QuietStep DEF PortalInv
  <2> QED BY <1>6, <2>1, <2>2 DEF RegistrySteps, RegistryDies, portal
<1> QED BY <1>1, <1>2, <1>3, <1>4, <1>5, <1>6 DEF PortalNext

LEMMA PortalInvariant == PortalSpec => []PortalInv
BY PortalInvInit, PortalInvStep, PTL DEF PortalSpec

\* Whatever calls the portal makes, gives up or loses, the registry behind it
\* is the registry: each step of the two is one of the registry, or none.
THEOREM PortalImplementsRegistry == PortalSpec => Spec
<1>1. PortalInit => Init
  BY DEF PortalInit
<1>2. PortalInv /\ [PortalNext]_portalVars => [Next]_vars
  BY PortalStepIsNext DEF PortalInv
<1> QED BY <1>1, <1>2, PortalInvariant, PTL DEF PortalSpec, Spec

\* What the registry acknowledges to the portal survives every crash and
\* every I/O error too.
THEOREM PortalKeepsAcknowledged == PortalSpec => []AcknowledgedSurvives
BY PortalImplementsRegistry, AcknowledgedAlwaysSurvives, PTL

\* Two changes of a model that the portal showed as made, the second asked for
\* after the first was shown: the first never comes back, whatever was given
\* up, lost or rolled back around them.
THEOREM LaterChangeAlwaysStays == PortalSpec => []LaterChangeStays
<1>1. PortalInv => LaterChangeStays
  <2> SUFFICES ASSUME PortalInv, ~unread, NEW r \in Requests, NEW q \in Requests,
                      shown[r] = 200, shown[q] = 200, r \in earlier[q],
                      asked[r].name = asked[q].name, MadeBy(r, Durable[asked[q].name])
               PROVE  FALSE
    BY DEF LaterChangeStays
  <2>1. reply[r] = 200 /\ reply[q] = 200 /\ asked[q] # NoBody
    BY DEF PortalInv, Agree
  <2>2. asked[q].name \in Names
    BY <2>1 DEF PortalInv, PortalType, Body
  <2>3. ~ MadeBy(r, told[asked[q].name])
    BY <2>1 DEF PortalInv, LaterIsTold
  <2>4. reply[r] \in {0, Lost}
    BY <2>2, <2>3 DEF MadeBy, PortalInv, RegistryInv, AcknowledgedSurvives
  <2> QED BY <2>1, <2>4 DEF Lost
<1> QED BY <1>1, PortalInvariant, PTL
================================================================================
