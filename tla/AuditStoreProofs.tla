---------------------------- MODULE AuditStoreProofs ----------------------------
(***************************************************************************)
(* Proofs about AuditStore, for any requests, ids, batch size and number   *)
(* of errors and process deaths: refused rows stay out, returned rows      *)
(* stay, and the store implements AuditLog.                                *)
(***************************************************************************)
EXTENDS AuditStore, FiniteSetTheorems, SequenceTheorems, TLAPS

(***************************************************************************)
(* The inductive invariant                                                 *)
(***************************************************************************)
SinglesAreOne == \A r \in Singles : DOMAIN ids[r] = {1}

\* What is inserted and not committed is of single events that were told 500.
PendingFailed ==
    \A row \in pending : row \notin committed /\ row[1] \in Singles /\ reply[row[1]] = 500

Unique(rows) == \A e, f \in rows : IdOf(e) = IdOf(f) => e = f

RowsInv == SinglesAreOne /\ RefusedIsNotStored /\ PendingFailed /\ ReturnedRowsStay /\ Unique(Visible)

StoreInv == TypeOK /\ RowsInv

(***************************************************************************)
(* Rows                                                                    *)
(***************************************************************************)
LEMMA RowIsOfItsRequest ==
    \A r : \A row \in Rows(r) :
        /\ row[1] = r /\ row[2] \in DOMAIN ids[r] /\ row = <<row[1], row[2]>>
        /\ IdOf(row) = ids[r][row[2]] /\ IdOf(row) \in IdsOf(r)
BY DEF Rows, IdOf, IdsOf

LEMMA IdsType ==
    ASSUME TypeOK, NEW r \in Requests
    PROVE  \E n \in 1..MaxBatch : ids[r] \in [1..n -> AuditIds] /\ DOMAIN ids[r] = 1..n
BY DEF TypeOK

LEMMA RowsAreSome ==
    ASSUME TypeOK, NEW r \in Requests
    PROVE  Rows(r) # {} /\ Rows(r) \subseteq AllRows
<1>1. 1 \in DOMAIN ids[r]
  BY IdsType, StoreAssumption DEF StoreAssumption
<1>2. <<r, 1>> \in Rows(r)
  BY <1>1 DEF Rows
<1> QED BY <1>2 DEF AllRows

LEMMA RowsAreFinite ==
    ASSUME TypeOK, NEW r \in Requests
    PROVE  Cardinality(Rows(r)) \in Nat
<1> PICK n \in 1..MaxBatch : DOMAIN ids[r] = 1..n
  BY IdsType
<1>0. 1 \in Int /\ n \in Int
  BY StoreAssumption DEF StoreAssumption
<1>1. IsFiniteSet(1..n) /\ IsFiniteSet({r})
  BY <1>0, FS_Interval, FS_Singleton
<1>2. IsFiniteSet({r} \X (1..n))
  BY <1>1, FS_Product
<1>3. Rows(r) \subseteq {r} \X (1..n)
  BY DEF Rows
<1> QED BY <1>2, <1>3, FS_Subset, FS_CardinalityType

\* A row in the table is a row of the request it names.
LEMMA RowInTable ==
    ASSUME TypeOK, NEW row \in Visible \cup seen
    PROVE  row[1] \in Requests /\ row \in Rows(row[1])
<1> PICK r \in Requests : row \in Rows(r)
  BY DEF TypeOK, Visible, AllRows
<1> QED BY RowIsOfItsRequest

\* A request that has no answer yet has nothing in the table.
LEMMA UnansweredHasNoRow ==
    ASSUME RowsInv, NEW r \in Requests, reply[r] = 0
    PROVE  Rows(r) \cap Visible = {}
BY DEF RowsInv, RefusedIsNotStored, Unanswered

\* The id of a fresh row is that of no other row.
LEMMA FreshIsUnique ==
    ASSUME StoreInv, NEW r \in Requests, Taken \cap IdsOf(r) = {}, r \in Singles \/ ~Duplicates(r)
    PROVE  Unique(Visible \cup Rows(r))
<1>1. ASSUME NEW e \in Rows(r), NEW f \in Rows(r), IdOf(e) = IdOf(f)
      PROVE  e = f
  <2>1. /\ e = <<r, e[2]>> /\ f = <<r, f[2]>> /\ ids[r][e[2]] = ids[r][f[2]]
        /\ e[2] \in DOMAIN ids[r] /\ f[2] \in DOMAIN ids[r]
    BY <1>1, RowIsOfItsRequest
  <2>2. e[2] = f[2]
    BY <2>1 DEF StoreInv, RowsInv, SinglesAreOne, Duplicates
  <2> QED BY <2>1, <2>2
<1>2. ASSUME NEW e \in Rows(r), NEW f \in Visible
      PROVE  IdOf(e) # IdOf(f)
  BY RowIsOfItsRequest DEF Taken
<1> QED BY <1>1, <1>2 DEF StoreInv, RowsInv, Unique

(***************************************************************************)
(* What the steps do to the rows                                           *)
(***************************************************************************)
Answers(r, status) == reply[r] = 0 /\ reply' = [reply EXCEPT ![r] = status]

Stores(r, status) ==
    /\ Taken \cap IdsOf(r) = {} /\ (r \in Singles \/ ~Duplicates(r))
    /\ Committed(r) /\ Answers(r, status)
    /\ UNCHANGED <<ids, seen>>

\* A refusal leaves the table as it is, or drops what is not committed.
Refuses(r, status) ==
    /\ UNCHANGED committed /\ pending' \in {pending, {}}
    /\ Answers(r, status)
    /\ UNCHANGED <<ids, seen>>

\* The COMMIT fails and the row stays in the open transaction.
Hangs(r) ==
    /\ r \in Singles /\ Taken \cap IdsOf(r) = {}
    /\ UNCHANGED committed /\ pending' = pending \cup Rows(r)
    /\ Answers(r, 500)
    /\ UNCHANGED <<ids, seen>>

Others ==
    /\ UNCHANGED <<ids, committed, reply>> /\ pending' \in {pending, {}}
    /\ seen' \in {seen, seen \cup Visible}
    /\ seen' = seen \/ pending' = pending

LEMMA StepKinds ==
    ASSUME [Next]_vars
    PROVE  \/ \E r \in Requests : Stores(r, 201) \/ Stores(r, Unanswered)
           \/ \E r \in Requests : Refuses(r, 409) \/ Refuses(r, 500)
           \/ \E r \in Singles : Hangs(r)
           \/ Others
<1>1. ASSUME NEW r \in Singles, CreateEvent(r)
      PROVE  Stores(r, 201) \/ Refuses(r, 409) \/ Refuses(r, 500) \/ Hangs(r)
  <2>1. CASE Taken \cap IdsOf(r) = {} /\ Created(r)
    BY <2>1 DEF Created, Answer, Stores, Answers
  <2>2. CASE Conflict(r)
    BY <2>2 DEF Conflict, Answer, Refuses, Answers
  <2>3. CASE Failed(r)
    BY <2>3 DEF Failed, Rolled, Answer, Refuses, Hangs, Answers
  <2> QED BY <1>1, <2>1, <2>2, <2>3 DEF CreateEvent
<1>2. ASSUME NEW r \in Batches, CreateBatch(r)
      PROVE  Stores(r, 201) \/ Refuses(r, 409) \/ Refuses(r, 500)
  <2>1. CASE ~Duplicates(r) /\ Created(r)
    BY <2>1 DEF Created, Answer, Stores, Answers, Duplicates
  <2>2. CASE Rolled /\ (Answer(r, 409) \/ Answer(r, 500))
    BY <2>2 DEF Rolled, Answer, Refuses, Answers
  <2> QED BY <1>2, <2>1, <2>2 DEF CreateBatch
<1>3. CASE Query
  BY <1>3 DEF Query, database, Others
<1>4. CASE Crash
  BY <1>4 DEF Crash, Dies, Rolled, Others
<1>5. ASSUME NEW r \in Requests, CrashUnanswered(r)
      PROVE  Stores(r, Unanswered)
  BY <1>5 DEF CrashUnanswered, Dies, Stores, Answers, Duplicates
<1>6. CASE UNCHANGED vars
  BY <1>6 DEF vars, database, Others
<1> QED BY <1>1, <1>2, <1>3, <1>4, <1>5, <1>6 DEF Next, Requests

LEMMA AnswersKeeps ==
    ASSUME TypeOK, NEW r \in Requests, NEW status, Answers(r, status)
    PROVE  reply'[r] = status /\ \A q \in Requests : q # r => reply'[q] = reply[q]
BY DEF Answers, TypeOK

LEMMA StoresKeeps ==
    ASSUME StoreInv, NEW r \in Requests, NEW status \in {201, Unanswered}, Stores(r, status)
    PROVE  RowsInv'
<1>0. /\ ids' = ids /\ seen' = seen /\ pending' = {} /\ committed' = Visible \cup Rows(r)
      /\ Visible' = Visible \cup Rows(r) /\ reply[r] = 0
  BY DEF Stores, Committed, Visible, Answers
<1>1. reply'[r] = status /\ \A q \in Requests : q # r => reply'[q] = reply[q]
  BY AnswersKeeps DEF StoreInv, Stores
<1>2. SinglesAreOne' /\ PendingFailed'
  BY <1>0 DEF StoreInv, RowsInv, SinglesAreOne, PendingFailed
<1>3. RefusedIsNotStored'
  <2>1. ASSUME NEW q \in Requests, q # r, Rows(q) \cap Visible' # {}
        PROVE  Rows(q) \cap Visible # {}
    BY <1>0, <2>1, RowIsOfItsRequest
  <2>2. \A q \in Requests : Rows(q)' = Rows(q)
    BY <1>0 DEF Rows
  <2> QED BY <1>1, <2>1, <2>2 DEF StoreInv, RowsInv, RefusedIsNotStored
<1>4. ReturnedRowsStay'
  <2>1. ASSUME NEW row \in seen, row \notin Visible
        PROVE  row[1] \in Singles /\ reply'[row[1]] = 500
    <3>1. row[1] \in Singles /\ reply[row[1]] = 500
      BY <2>1 DEF StoreInv, RowsInv, ReturnedRowsStay
    <3> QED BY <1>0, <1>1, <3>1 DEF Requests
  <2> QED BY <1>0, <2>1 DEF ReturnedRowsStay
<1>5. Unique(Visible)'
  BY <1>0, FreshIsUnique DEF Stores, Unique, IdOf
<1> QED BY <1>2, <1>3, <1>4, <1>5 DEF RowsInv

LEMMA RefusesKeeps ==
    ASSUME StoreInv, NEW r \in Requests, NEW status \in {409, 500}, Refuses(r, status)
    PROVE  RowsInv'
<1>0. /\ ids' = ids /\ seen' = seen /\ committed' = committed /\ pending' \subseteq pending
      /\ Visible' \subseteq Visible /\ Visible \ Visible' \subseteq pending /\ reply[r] = 0
  BY DEF Refuses, Visible, Answers
<1>1. reply'[r] = status /\ \A q \in Requests : q # r => reply'[q] = reply[q]
  BY AnswersKeeps DEF StoreInv, Refuses
<1>2. \A q \in Singles : reply[q] = 500 => reply'[q] = 500
  BY <1>0, <1>1 DEF Requests
<1>3. SinglesAreOne' /\ PendingFailed'
  BY <1>0, <1>2 DEF StoreInv, RowsInv, SinglesAreOne, PendingFailed
<1>4. RefusedIsNotStored'
  <2>1. \A q \in Requests : Rows(q)' = Rows(q)
    BY <1>0 DEF Rows
  <2>2. Rows(r) \cap Visible = {}
    BY <1>0, UnansweredHasNoRow DEF StoreInv
  <2> QED BY <1>0, <1>1, <2>1, <2>2 DEF StoreInv, RowsInv, RefusedIsNotStored
<1>5. ReturnedRowsStay'
  BY <1>0, <1>2 DEF StoreInv, RowsInv, ReturnedRowsStay, PendingFailed
<1>6. Unique(Visible)'
  BY <1>0 DEF StoreInv, RowsInv, Unique, IdOf
<1> QED BY <1>3, <1>4, <1>5, <1>6 DEF RowsInv

LEMMA HangsKeeps ==
    ASSUME StoreInv, NEW r \in Singles, Hangs(r)
    PROVE  RowsInv'
<1>0. /\ ids' = ids /\ seen' = seen /\ committed' = committed /\ pending' = pending \cup Rows(r)
      /\ Visible' = Visible \cup Rows(r) /\ reply[r] = 0 /\ r \in Requests
  BY DEF Hangs, Visible, Answers, Requests
<1>1. reply'[r] = 500 /\ \A q \in Requests : q # r => reply'[q] = reply[q]
  BY <1>0, AnswersKeeps DEF StoreInv, Hangs
<1>2. \A q \in Singles : reply[q] = 500 => reply'[q] = 500
  BY <1>0, <1>1 DEF Requests
<1>3. SinglesAreOne' /\ PendingFailed'
  <2>1. Rows(r) \cap Visible = {}
    BY <1>0, UnansweredHasNoRow DEF StoreInv
  <2> QED BY <1>0, <1>1, <1>2, <2>1, RowIsOfItsRequest
          DEF StoreInv, RowsInv, SinglesAreOne, PendingFailed, Visible
<1>4. RefusedIsNotStored'
  <2>1. ASSUME NEW q \in Requests, q # r, Rows(q) \cap Visible' # {}
        PROVE  Rows(q) \cap Visible # {}
    BY <1>0, <2>1, RowIsOfItsRequest
  <2>2. \A q \in Requests : Rows(q)' = Rows(q)
    BY <1>0 DEF Rows
  <2> QED BY <1>1, <2>1, <2>2 DEF StoreInv, RowsInv, RefusedIsNotStored
<1>5. ReturnedRowsStay'
  BY <1>0, <1>2 DEF StoreInv, RowsInv, ReturnedRowsStay
<1>6. Unique(Visible)'
  BY <1>0, FreshIsUnique DEF Hangs, Unique, IdOf
<1> QED BY <1>3, <1>4, <1>5, <1>6 DEF RowsInv

LEMMA OthersKeep ==
    ASSUME StoreInv, Others
    PROVE  RowsInv'
<1>0. /\ ids' = ids /\ reply' = reply /\ committed' = committed /\ pending' \subseteq pending
      /\ Visible' \subseteq Visible /\ Visible \ Visible' \subseteq pending
      /\ seen' \subseteq seen \cup Visible'
  BY DEF Others, Visible
<1>1. SinglesAreOne' /\ PendingFailed'
  BY <1>0 DEF StoreInv, RowsInv, SinglesAreOne, PendingFailed
<1>2. RefusedIsNotStored'
  BY <1>0 DEF StoreInv, RowsInv, RefusedIsNotStored, Rows
<1>3. ReturnedRowsStay'
  BY <1>0 DEF StoreInv, RowsInv, ReturnedRowsStay, PendingFailed
<1>4. Unique(Visible)'
  BY <1>0 DEF StoreInv, RowsInv, Unique, IdOf
<1> QED BY <1>1, <1>2, <1>3, <1>4 DEF RowsInv

(***************************************************************************)
(* Types                                                                   *)
(***************************************************************************)
LEMMA RowTypes ==
    ASSUME TypeOK, [Next]_vars
    PROVE  /\ ids' = ids
           /\ committed' \subseteq AllRows' /\ pending' \subseteq AllRows' /\ seen' \subseteq AllRows'
           /\ reply' \in [Requests -> {0, Unanswered, 201, 409, 500}]
<1>1. \A r \in Requests : Rows(r) \subseteq AllRows
  BY RowsAreSome
<1>2. committed \subseteq AllRows /\ pending \subseteq AllRows /\ seen \subseteq AllRows
  BY DEF TypeOK
<1>3. ids' = ids
  BY StepKinds DEF Stores, Refuses, Hangs, Others
<1>4. AllRows' = AllRows
  BY <1>3 DEF AllRows, Rows
<1>5. reply' \in [Requests -> {0, Unanswered, 201, 409, 500}]
  <2>1. ASSUME NEW r \in Requests, NEW status \in {Unanswered, 201, 409, 500}, Answers(r, status)
        PROVE  reply' \in [Requests -> {0, Unanswered, 201, 409, 500}]
    BY <2>1 DEF TypeOK, Answers
  <2>2. reply' = reply => reply' \in [Requests -> {0, Unanswered, 201, 409, 500}]
    BY DEF TypeOK
  <2> QED BY <2>1, <2>2, StepKinds DEF Stores, Refuses, Hangs, Others, Requests
<1>6. committed' \subseteq AllRows /\ pending' \subseteq AllRows /\ seen' \subseteq AllRows
  <2>1. ASSUME NEW r \in Requests, NEW status, Stores(r, status) \/ Refuses(r, status) \/ Hangs(r)
        PROVE  committed' \subseteq AllRows /\ pending' \subseteq AllRows /\ seen' \subseteq AllRows
    BY <1>1, <1>2, <2>1 DEF Stores, Committed, Visible, Refuses, Hangs
  <2>2. CASE Others
    BY <1>2, <2>2 DEF Others, Visible
  <2> QED BY <2>1, <2>2, StepKinds DEF Requests
<1> QED BY <1>3, <1>4, <1>5, <1>6

LEMMA TransactionType ==
    ASSUME TypeOK, [Next]_vars
    PROVE  inTxn' \in BOOLEAN
<1>1. inTxn \in BOOLEAN
  BY DEF TypeOK
<1> QED BY <1>1 DEF Next, CreateEvent, Created, Committed, Conflict, Failed, CreateBatch, Rolled,
           Query, Crash, CrashUnanswered, vars, database

LEMMA CounterTypes ==
    ASSUME TypeOK, [Next]_vars
    PROVE  written' \in Nat /\ errors' \in 0..MaxErrors /\ crashes' \in 0..MaxCrashes
<1>0. /\ written \in Nat /\ errors \in 0..MaxErrors /\ crashes \in 0..MaxCrashes
      /\ MaxErrors \in Nat /\ MaxCrashes \in Nat
  BY StoreAssumption DEF TypeOK, StoreAssumption
<1>1. ASSUME NEW r \in Requests, Created(r) \/ Conflict(r) \/ Failed(r) \/ CreateBatch(r)
      PROVE  written' \in Nat /\ errors' \in 0..MaxErrors /\ crashes' \in 0..MaxCrashes
  <2>1. CASE Created(r)
    <3>1. written' = written + Cardinality(Rows(r)) /\ UNCHANGED <<errors, crashes>>
      BY <2>1 DEF Created, Committed, Answer
    <3>2. Cardinality(Rows(r)) \in Nat
      BY RowsAreFinite
    <3> QED BY <1>0, <3>1, <3>2
  <2>2. CASE /\ UNCHANGED <<written, crashes>>
             /\ UNCHANGED errors \/ SqlError
    BY <1>0, <2>2 DEF SqlError
  <2> QED BY <1>1, <2>1, <2>2 DEF Conflict, Failed, CreateBatch, Rolled, Answer
<1>2. CASE Query
  BY <1>0, <1>2 DEF Query, database
<1>3. CASE Dies
  BY <1>0, <1>3 DEF Dies
<1>4. CASE UNCHANGED vars
  BY <1>0, <1>4 DEF vars, database
<1> QED BY <1>1, <1>2, <1>3, <1>4 DEF Next, CreateEvent, Crash, CrashUnanswered, Rolled, Committed, Requests

LEMMA StoreInvStep == StoreInv /\ [Next]_vars => StoreInv'
<1> SUFFICES ASSUME StoreInv, [Next]_vars PROVE StoreInv'
  OBVIOUS
<1>1. TypeOK'
  <2>1. ids' \in [Requests -> UNION {[1..n -> AuditIds] : n \in 1..MaxBatch}]
    BY RowTypes DEF StoreInv, TypeOK
  <2> QED BY <2>1, RowTypes, TransactionType, CounterTypes DEF StoreInv, TypeOK
<1>2. RowsInv'
  BY StepKinds, StoresKeeps, RefusesKeeps, HangsKeeps, OthersKeep
<1> QED BY <1>1, <1>2 DEF StoreInv

LEMMA InitStoreInv == Init => StoreInv
<1> SUFFICES ASSUME Init PROVE StoreInv
  OBVIOUS
<1>1. TypeOK
  <2>1. reply \in [Requests -> {0, Unanswered, 201, 409, 500}]
    BY DEF Init
  <2>2. errors \in 0..MaxErrors /\ crashes \in 0..MaxCrashes
    BY StoreAssumption DEF Init, StoreAssumption
  <2> QED BY <2>1, <2>2 DEF Init, TypeOK
<1>2. SinglesAreOne
  <2>1. ASSUME NEW r \in Singles
        PROVE  DOMAIN ids[r] = {1}
    <3> PICK n \in 1..MaxBatch : ids[r] \in [1..n -> AuditIds] /\ DOMAIN ids[r] = 1..n
      BY <1>1, IdsType DEF Requests
    <3>1. n \in Nat
      BY StoreAssumption DEF StoreAssumption
    <3>2. ids[r] \in Seq(AuditIds)
      BY <3>1
    <3>3. Len(ids[r]) = 1
      BY DEF Init
    <3>4. DOMAIN ids[r] = 1..1
      BY <3>2, <3>3, LenProperties
    <3>5. 1..1 = {1}
      OBVIOUS
    <3> QED BY <3>4, <3>5
  <2> QED BY <2>1 DEF SinglesAreOne
<1>3. RefusedIsNotStored /\ PendingFailed /\ ReturnedRowsStay /\ Unique(Visible)
  BY DEF Init, RefusedIsNotStored, PendingFailed, ReturnedRowsStay, Visible, Unique
<1> QED BY <1>1, <1>2, <1>3 DEF StoreInv, RowsInv

LEMMA StoreInvariant == Spec => []StoreInv
BY InitStoreInv, StoreInvStep, PTL DEF Spec

\* Every variable of the store has its type.
THEOREM TypeCorrect == Spec => []TypeOK
<1>1. StoreInv => TypeOK
  BY DEF StoreInv
<1> QED BY <1>1, StoreInvariant, PTL

\* A conflict or a failed batch stores nothing, then or later; only a single
\* event whose COMMIT failed may still be found.
THEOREM RefusedIsNeverStored == Spec => []RefusedIsNotStored
<1>1. StoreInv => RefusedIsNotStored
  BY DEF StoreInv, RowsInv
<1> QED BY <1>1, StoreInvariant, PTL

\* What a query returned is found again, whatever conflicts, rollbacks and
\* process deaths follow, unless its request was told 500.
THEOREM ReturnedRowsAlwaysStay == Spec => []ReturnedRowsStay
<1>1. StoreInv => ReturnedRowsStay
  BY DEF StoreInv, RowsInv
<1> QED BY <1>1, StoreInvariant, PTL

(***************************************************************************)
(* The store implements AuditLog                                           *)
(***************************************************************************)
Acked == {r \in Requests : reply[r] = 201}

LEMMA InitMaps == Init => Log!Init
<1> SUFFICES ASSUME Init PROVE Log!Init
  OBVIOUS
<1>1. ids \in [Requests -> Seq(AuditIds)]
  BY StoreAssumption DEF Init, StoreAssumption
<1> QED BY <1>1 DEF Init, Log!Init

\* A COMMIT adds the rows of its request and of those left in the open
\* transaction, all of them whole.
LEMMA CommitMaps ==
    ASSUME StoreInv, NEW r \in Requests, NEW status \in {201, Unanswered}, Stores(r, status)
    PROVE  Log!Next
<1> DEFINE S == {r} \cup {row[1] : row \in pending}
           A == IF status = 201 THEN {r} ELSE {}
<1>0. /\ ids' = ids /\ committed' = Visible \cup Rows(r) /\ reply[r] = 0
  BY DEF Stores, Committed, Answers
<1>1. \A row \in pending : /\ row[1] \in Singles /\ row[1] \in Requests /\ row \in Rows(row[1])
                           /\ Rows(row[1]) = {row}
  <2>1. ASSUME NEW row \in pending
        PROVE  /\ row[1] \in Singles /\ row[1] \in Requests /\ row \in Rows(row[1])
               /\ Rows(row[1]) = {row}
    <3>1. row[1] \in Requests /\ row \in Rows(row[1]) /\ row[1] \in Singles
      BY RowInTable DEF StoreInv, RowsInv, PendingFailed, Visible
    <3>2. Rows(row[1]) = {<<row[1], 1>>}
      BY <3>1 DEF StoreInv, RowsInv, SinglesAreOne, Rows
    <3> QED BY <3>1, <3>2
  <2> QED BY <2>1
<1>2. S \in SUBSET Requests /\ A \in SUBSET Requests /\ A \subseteq S
  BY <1>1
<1>3. Log!EventsOf(S) = Rows(r) \cup pending
  <2>1. \A q \in S : Log!Events(q) = Rows(q)
    BY DEF Log!Events, Rows
  <2>2. \A q \in S : q = r \/ \E row \in pending : q = row[1] /\ Rows(q) = {row}
    BY <1>1
  <2>3. \A row \in pending : row[1] \in S /\ row \in Rows(row[1])
    BY <1>1
  <2>4. Log!EventsOf(S) = UNION {Rows(q) : q \in S}
    BY <2>1 DEF Log!EventsOf
  <2> QED BY <2>2, <2>3, <2>4
<1>4. Log!EventsOf(S) \cap committed = {}
  BY <1>0, <1>3, UnansweredHasNoRow DEF StoreInv, RowsInv, PendingFailed, Visible
<1>5. committed' = committed \cup Log!EventsOf(S)
  BY <1>0, <1>3 DEF Visible
<1>6. Log!Unique(committed \cup Log!EventsOf(S))
  <2>1. Unique(Visible \cup Rows(r))
    BY FreshIsUnique DEF Stores
  <2>2. committed \cup Log!EventsOf(S) = Visible \cup Rows(r)
    BY <1>3 DEF Visible
  <2> QED BY <2>1, <2>2 DEF Unique, IdOf, Log!Unique, Log!IdOf
<1>7. Acked' = Acked \cup A
  <2>1. reply'[r] = status /\ \A q \in Requests : q # r => reply'[q] = reply[q]
    BY AnswersKeeps DEF StoreInv, Stores
  <2> QED BY <1>0, <2>1 DEF Acked, Unanswered
<1>8. Log!Add(S, A)
  BY <1>0, <1>2, <1>4, <1>5, <1>6, <1>7 DEF Log!Add, Acked
<1> QED BY <1>2, <1>8 DEF Log!Next

LEMMA StepMaps == StoreInv /\ [Next]_vars => [Log!Next]_(Log!vars)
<1> SUFFICES ASSUME StoreInv, [Next]_vars PROVE [Log!Next]_(Log!vars)
  OBVIOUS
<1>1. ASSUME NEW r \in Requests, NEW status \in {409, 500}, Answers(r, status)
      PROVE  Acked' = Acked
  <2>1. reply'[r] = status /\ \A q \in Requests : q # r => reply'[q] = reply[q]
    BY <1>1, AnswersKeeps DEF StoreInv
  <2>2. reply[r] = 0
    BY <1>1 DEF Answers
  <2> QED BY <2>1, <2>2 DEF Acked
<1>2. CASE \E r \in Requests : Stores(r, 201) \/ Stores(r, Unanswered)
  BY <1>2, CommitMaps
<1>3. CASE \E r \in Requests : Refuses(r, 409) \/ Refuses(r, 500) \/ Hangs(r)
  <2>1. Acked' = Acked /\ committed' = committed /\ ids' = ids
    BY <1>1, <1>3 DEF Refuses, Hangs
  <2> QED BY <2>1 DEF Log!vars, Acked
<1>4. CASE Others
  BY <1>4 DEF Others, Log!vars
<1> QED BY <1>2, <1>3, <1>4, StepKinds DEF Requests

\* The table only grows, by whole writes under ids that are free, and holds
\* each write that was acknowledged: every step is one of AuditLog, or none.
THEOREM StoreImplementsAuditLog == Spec => ImplementsAuditLog
BY InitMaps, StepMaps, StoreInvariant, PTL DEF Spec, ImplementsAuditLog, Log!Spec
================================================================================
