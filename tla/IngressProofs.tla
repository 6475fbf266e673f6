----------------------------- MODULE IngressProofs -----------------------------
(***************************************************************************)
(* Proofs of everything the runs check of the way in, for every number of  *)
(* requests, keys, texts, answers of the router and faults: what the       *)
(* gateway refuses stays outside, what the router was asked about is       *)
(* audited, the limit holds in every window, and the events tell what the  *)
(* client got.                                                             *)
(***************************************************************************)
EXTENDS Ingress, FiniteSetTheorems, TLAPS

(***************************************************************************)
(* The inductive invariant                                                 *)
(***************************************************************************)
Shape ==
    /\ call \in [Requests -> Calls \cup {NoCall}]
    /\ at \in [Requests -> {"new", "limit", "route", "waiting", "streaming", "done"}]
    /\ reply \in [Requests -> Nat]
    /\ sec \in [Requests -> {"none", "received", "routing", "answered", "dead"}]
    /\ answer \in [Requests -> [status : Nat, body : Bodies \cup {"none"}]]
    /\ routed \in [Requests -> SUBSET SUBSET Marks]

\* Before it forwards, the gateway owes an answer and the Security Layer knows
\* nothing; while it waits it still owes one.
Owing(r) ==
    /\ at[r] \in {"new", "limit", "route", "waiting"} => reply[r] = 0
    /\ at[r] \in {"new", "limit", "route"} => sec[r] = "none"
    /\ sec[r] # "none" => call[r] \in Calls
    /\ at[r] = "streaming" => reply[r] = 200 /\ routed[r] # {}

\* The router is called after the checks, and what they block it never sees.
Checked(r) ==
    /\ sec[r] \in {"none", "received"} => routed[r] = {}
    /\ sec[r] = "routing" => routed[r] # {}
    /\ sec[r] = "answered" /\ answer[r].status \in {400, 403, 429} => routed[r] = {}
    /\ sec[r] = "answered" /\ answer[r].status = 200 => routed[r] # {}

StaysOutside(r) ==
    /\ reply[r] \in {400, 401, 403, 429} => routed[r] = {} /\ sec[r] \in {"none", "answered"}
    /\ reply[r] = 200 /\ call[r].path = "chat" => routed[r] # {}

Audited(r) ==
    sec[r] = "answered" /\ routed[r] # {} /\ answer[r].status # 500 =>
        r \in posts \cup trail \cup lost

CallInv(r) == Owing(r) /\ Checked(r) /\ StaysOutside(r) /\ Audited(r)
IngressInv == Shape /\ \A r \in Requests : CallInv(r)

(***************************************************************************)
(* Facts about the operators                                               *)
(***************************************************************************)
LEMMA BlockStatuses == \A text : BlockStatus(text) \in {0, 400, 403}
BY DEF BlockStatus

\* What the Security Layer makes of the router's silence or answer never looks
\* like one of its own blocks.
LEMMA RelayedIsNoBlock ==
    ASSUME NEW a \in RouterAnswers \cup {Timeout, Refused}
    PROVE  /\ Relayed(a).status \in Nat /\ Relayed(a).body \in Bodies
           /\ Relayed(a).status \notin {400, 403, 429}
<1>1. CASE a \in RouterAnswers
  BY <1>1, IngressAssumption DEF Relayed, Bodies
<1>2. CASE a \in {Timeout, Refused}
  BY <1>2 DEF Relayed, Timeout, Refused, Bodies
<1> QED BY <1>1, <1>2

(***************************************************************************)
(* The gateway                                                             *)
(***************************************************************************)
\* A step of the gateway on r, as the invariant sees it.
LEMMA GatewayStep ==
    ASSUME IngressInv, NEW r \in Requests, UNCHANGED security, Shape',
           \A q \in Requests \ {r} : at'[q] = at[q] /\ reply'[q] = reply[q] /\ call'[q] = call[q],
           Owing(r)', StaysOutside(r)'
    PROVE  IngressInv'
<1>1. Checked(r)' /\ Audited(r)'
  BY DEF IngressInv, CallInv, Checked, Audited, security
<1>2. ASSUME NEW q \in Requests \ {r}
      PROVE  CallInv(q)'
  <2>1. CallInv(q)
    BY DEF IngressInv
  <2> QED BY <2>1 DEF CallInv, Owing, Checked, StaysOutside, Audited, security
<1> QED BY <1>1, <1>2 DEF IngressInv, CallInv

LEMMA AuthenticateKeeps ==
    ASSUME IngressInv, NEW r \in Requests, NEW c \in Calls, Authenticate(r, c)
    PROVE  IngressInv'
<1>1. /\ Shape /\ CallInv(r) /\ UNCHANGED security
      /\ call' = [call EXCEPT ![r] = c] /\ at[r] = "new"
      /\ \/ at' = [at EXCEPT ![r] = "limit"] /\ UNCHANGED reply
         \/ at' = [at EXCEPT ![r] = "done"] /\ reply' = [reply EXCEPT ![r] = 401]
  BY DEF IngressInv, Authenticate, Goto, Finish
<1>2. Shape'
  BY <1>1 DEF Shape, security
<1>3. /\ \A q \in Requests \ {r} : at'[q] = at[q] /\ reply'[q] = reply[q] /\ call'[q] = call[q]
      /\ Owing(r)' /\ StaysOutside(r)'
  BY <1>1 DEF Shape, CallInv, Owing, Checked, StaysOutside, security
<1> QED BY <1>1, <1>2, <1>3, GatewayStep

LEMMA RateLimitKeeps ==
    ASSUME IngressInv, NEW r \in Requests, RateLimit(r)
    PROVE  IngressInv'
<1>1. /\ Shape /\ CallInv(r) /\ UNCHANGED security /\ UNCHANGED call /\ at[r] = "limit"
      /\ \/ at' = [at EXCEPT ![r] = "route"] /\ UNCHANGED reply
         \/ at' = [at EXCEPT ![r] = "done"] /\ reply' = [reply EXCEPT ![r] = 429]
  BY DEF IngressInv, RateLimit, Goto, Finish
<1>2. Shape'
  BY <1>1 DEF Shape, security
<1>3. /\ \A q \in Requests \ {r} : at'[q] = at[q] /\ reply'[q] = reply[q] /\ call'[q] = call[q]
      /\ Owing(r)' /\ StaysOutside(r)'
  BY <1>1 DEF Shape, CallInv, Owing, Checked, StaysOutside, security
<1> QED BY <1>1, <1>2, <1>3, GatewayStep

LEMMA AnswerAtOnceKeeps ==
    ASSUME IngressInv, NEW r \in Requests, AnswerAtOnce(r)
    PROVE  IngressInv'
<1>1. /\ Shape /\ CallInv(r) /\ UNCHANGED security /\ UNCHANGED call /\ at[r] = "route"
      /\ at' = [at EXCEPT ![r] = "done"]
      /\ \/ call[r].path = "docs" /\ reply' = [reply EXCEPT ![r] = 200]
         \/ reply' = [reply EXCEPT ![r] = 400]
  BY DEF IngressInv, AnswerAtOnce, Finish
<1>2. Shape'
  BY <1>1 DEF Shape, security
<1>3. /\ \A q \in Requests \ {r} : at'[q] = at[q] /\ reply'[q] = reply[q] /\ call'[q] = call[q]
      /\ Owing(r)' /\ StaysOutside(r)'
  BY <1>1 DEF Shape, CallInv, Owing, Checked, StaysOutside, security
<1> QED BY <1>1, <1>2, <1>3, GatewayStep

\* The gateway sends a status to the client of r, and is done or streams.
Sends(r, status, place) ==
    /\ at' = [at EXCEPT ![r] = place]
    /\ reply' = [reply EXCEPT ![r] = status]
    /\ UNCHANGED security /\ UNCHANGED call

\* What it may send to a client it has let wait.
LEMMA CloseKeeps ==
    ASSUME IngressInv, NEW r \in Requests, at[r] \in {"waiting", "streaming"},
           NEW status \in Nat, NEW place \in {"done", "streaming"}, Sends(r, status, place),
           status \in {400, 401, 403, 429} => routed[r] = {} /\ sec[r] = "answered",
           status = 200 => routed[r] # {},
           place = "streaming" => status = 200
    PROVE  IngressInv'
<1>1. /\ Shape /\ CallInv(r) /\ UNCHANGED security /\ UNCHANGED call
      /\ at' = [at EXCEPT ![r] = place] /\ reply' = [reply EXCEPT ![r] = status]
  BY DEF IngressInv, Sends
<1>2. Shape'
  BY <1>1 DEF Shape, security
<1>3. /\ \A q \in Requests \ {r} : at'[q] = at[q] /\ reply'[q] = reply[q] /\ call'[q] = call[q]
      /\ Owing(r)' /\ StaysOutside(r)'
  BY <1>1 DEF Shape, CallInv, Owing, Checked, StaysOutside, security
<1> QED BY <1>1, <1>2, <1>3, GatewayStep

LEMMA WaitKeeps ==
    ASSUME IngressInv, NEW r \in Requests, GiveUp(r) \/ Relay(r) \/ OpenStream(r)
    PROVE  IngressInv'
<1>1. Checked(r) /\ Shape /\ at[r] = "waiting"
  BY DEF IngressInv, CallInv, GiveUp, Relay, OpenStream, Answered
<1>2. CASE Sends(r, 502, "done") \/ Sends(r, 500, "done")
  BY <1>1, <1>2, CloseKeeps
<1>3. CASE sec[r] = "answered" /\ answer[r].status = 200 /\ Sends(r, 200, "done")
  <2>1. routed[r] # {}
    BY <1>1, <1>3 DEF Checked
  <2> QED BY <1>1, <1>3, <2>1, CloseKeeps
<1>4. CASE sec[r] = "answered" /\ answer[r].status = 200 /\ Sends(r, 200, "streaming")
  <2>1. routed[r] # {}
    BY <1>1, <1>4 DEF Checked
  <2> QED BY <1>1, <1>4, <2>1, CloseKeeps
<1>5. ASSUME NEW status \in {400, 403, 429}, sec[r] = "answered", answer[r].status = status,
             Sends(r, status, "done")
      PROVE  IngressInv'
  <2>1. routed[r] = {}
    BY <1>1, <1>5 DEF Checked
  <2> QED BY <1>1, <1>5, <2>1, CloseKeeps
<1>6. CASE GiveUp(r)
  BY <1>2, <1>6 DEF GiveUp, Close, Finish, Sends
<1>7. CASE OpenStream(r)
  BY <1>2, <1>4, <1>7 DEF OpenStream, Answered, Close, Finish, Sends
<1>8. CASE Relay(r)
  BY <1>2, <1>3, <1>5, <1>8 DEF Relay, Answered, Close, Finish, Sends
<1> QED BY <1>6, <1>7, <1>8

LEMMA StreamKeeps ==
    ASSUME IngressInv, NEW r \in Requests, Stream(r)
    PROVE  IngressInv'
<1>1. /\ Shape /\ CallInv(r) /\ UNCHANGED security /\ UNCHANGED call
      /\ at[r] = "streaming" /\ at' = [at EXCEPT ![r] = "done"] /\ UNCHANGED reply
  BY DEF IngressInv, Stream, Goto
<1>2. reply[r] = 200 /\ routed[r] # {}
  BY <1>1 DEF CallInv, Owing
<1>3. Sends(r, 200, "done")
  BY <1>1, <1>2 DEF Sends, Shape
<1> QED BY <1>1, <1>2, <1>3, CloseKeeps

(***************************************************************************)
(* The Security Layer                                                      *)
(***************************************************************************)
\* A step of the Security Layer on r; nothing an audit post was is forgotten.
LEMMA SecurityStep ==
    ASSUME IngressInv, NEW r \in Requests, UNCHANGED <<call, reply>>, Shape',
           \A q \in Requests \ {r} :
               at'[q] = at[q] /\ sec'[q] = sec[q] /\ answer'[q] = answer[q] /\ routed'[q] = routed[q],
           posts \cup trail \cup lost \subseteq (posts \cup trail \cup lost)',
           CallInv(r)'
    PROVE  IngressInv'
<1>1. ASSUME NEW q \in Requests \ {r}
      PROVE  CallInv(q)'
  <2>1. CallInv(q)
    BY DEF IngressInv
  <2> QED BY <2>1 DEF CallInv, Owing, Checked, StaysOutside, Audited
<1> QED BY <1>1 DEF IngressInv

LEMMA ForwardKeeps ==
    ASSUME IngressInv, NEW r \in Requests, Forward(r)
    PROVE  IngressInv'
<1>1. /\ Shape /\ CallInv(r) /\ at[r] = "route" /\ call[r].path = "chat"
      /\ at' = [at EXCEPT ![r] = "waiting"] /\ sec' = [sec EXCEPT ![r] = "received"]
      /\ UNCHANGED <<call, reply, answer, routed, posts, trail, lost>>
  BY DEF IngressInv, Forward, Goto
<1>2. call[r] \in Calls
  BY <1>1 DEF Shape, NoCall
<1>3. Shape'
  BY <1>1 DEF Shape
<1>4. CallInv(r)'
  BY <1>1, <1>2 DEF Shape, CallInv, Owing, Checked, StaysOutside, Audited
<1> QED BY <1>1, <1>3, <1>4, SecurityStep DEF Shape

LEMMA PreCheckKeeps ==
    ASSUME IngressInv, NEW r \in Requests, PreCheck(r)
    PROVE  IngressInv'
<1>1. /\ Shape /\ CallInv(r) /\ sec[r] = "received"
      /\ UNCHANGED <<call, at, reply, posts, trail, lost>>
  BY DEF IngressInv, PreCheck, Block, Pass, MaskFails, gateway
<1>2. routed[r] = {} /\ at[r] \notin {"new", "limit", "route", "streaming"}
  BY <1>1 DEF Shape, CallInv, Owing, Checked
<1>3. CASE Pass(r)
  <2>1. /\ sec' = [sec EXCEPT ![r] = "routing"] /\ UNCHANGED answer
        /\ routed' = [routed EXCEPT ![r] = {Masked(call[r].text)}]
    BY <1>3 DEF Pass
  <2>2. Masked(call[r].text) \subseteq Marks
    <3>1. call[r].text \subseteq Marks
      BY <1>1, IngressAssumption DEF CallInv, Owing
    <3> QED BY <3>1 DEF Masked
  <2>3. Shape'
    BY <1>1, <2>1, <2>2 DEF Shape
  <2>4. CallInv(r)'
    BY <1>1, <1>2, <2>1 DEF Shape, CallInv, Owing, Checked, StaysOutside, Audited
  <2> QED BY <1>1, <2>1, <2>3, <2>4, SecurityStep DEF Shape
<1>4. CASE Block(r) \/ MaskFails(r)
  <2>1. PICK status \in {400, 403, 500}, text \in Bodies :
           /\ sec' = [sec EXCEPT ![r] = "answered"] /\ UNCHANGED routed
           /\ answer' = [answer EXCEPT ![r] = [status |-> status, body |-> text]]
    BY <1>4, BlockStatuses DEF Block, MaskFails, Reply, Bodies
  <2>2. Shape'
    BY <1>1, <2>1 DEF Shape
  <2>3. CallInv(r)'
    BY <1>1, <1>2, <2>1 DEF Shape, CallInv, Owing, Checked, StaysOutside, Audited
  <2> QED BY <1>1, <2>1, <2>2, <2>3, SecurityStep DEF Shape
<1> QED BY <1>1, <1>3, <1>4 DEF PreCheck

LEMMA RoutingKeeps ==
    ASSUME IngressInv, NEW r \in Requests,
           RouterRaises(r) \/ \E a \in RouterAnswers \cup {Timeout, Refused} : RouterReturns(r, a)
    PROVE  IngressInv'
<1>1. /\ Shape /\ CallInv(r) /\ sec[r] = "routing"
      /\ UNCHANGED <<call, at, reply, routed, trail, lost>>
  BY DEF IngressInv, RouterRaises, RouterReturns, gateway
<1>2. routed[r] # {} /\ at[r] \notin {"new", "limit", "route"}
  BY <1>1 DEF Shape, CallInv, Owing, Checked
<1>3. PICK status \in Nat, text \in Bodies :
         /\ status \notin {400, 403, 429}
         /\ Reply(r, status, text)
         /\ posts' = posts \cup {r} \/ (posts' = posts /\ status = 500)
  <2>1. CASE RouterRaises(r)
    BY <2>1 DEF RouterRaises, Bodies
  <2>2. ASSUME NEW a \in RouterAnswers \cup {Timeout, Refused}, RouterReturns(r, a)
        PROVE  /\ Relayed(a).status \in Nat /\ Relayed(a).body \in Bodies
               /\ Relayed(a).status \notin {400, 403, 429}
               /\ Reply(r, Relayed(a).status, Relayed(a).body)
               /\ posts' = posts \cup {r}
    BY <2>2, RelayedIsNoBlock DEF RouterReturns
  <2> QED BY <2>1, <2>2
<1>4. Shape'
  BY <1>1, <1>3 DEF Reply, Shape
<1>5. CallInv(r)'
  BY <1>1, <1>2, <1>3 DEF Reply, Shape, CallInv, Owing, Checked, StaysOutside, Audited
<1>6. posts \cup trail \cup lost \subseteq (posts \cup trail \cup lost)'
  BY <1>1, <1>3
<1> QED BY <1>1, <1>3, <1>4, <1>5, <1>6, SecurityStep DEF Reply, Shape

\* Steps after which every call is where it was, with its post accounted for.
LEMMA BystanderKeeps ==
    ASSUME IngressInv, UNCHANGED <<call, at, reply, sec, answer, routed>>,
           posts \cup trail \cup lost \subseteq (posts \cup trail \cup lost)'
    PROVE  IngressInv'
<1>1. Shape'
  BY DEF IngressInv, Shape
<1>2. ASSUME NEW r \in Requests
      PROVE  CallInv(r)'
  <2>1. CallInv(r)
    BY DEF IngressInv
  <2> QED BY <2>1 DEF CallInv, Owing, Checked, StaysOutside, Audited
<1> QED BY <1>1, <1>2 DEF IngressInv

LEMMA PostKeeps ==
    ASSUME IngressInv, NEW r \in Requests, Post(r)
    PROVE  IngressInv'
<1>1. UNCHANGED <<call, at, reply, sec, answer, routed>>
  BY DEF Post, gateway
<1>2. posts \cup trail \cup lost \subseteq (posts \cup trail \cup lost)'
  BY DEF Post
<1> QED BY <1>1, <1>2, BystanderKeeps

\* The handlers that run when the Security Layer dies have blocked nothing:
\* whoever read a refusal did not get it from them.
LEMMA SecurityCrashKeeps ==
    ASSUME IngressInv, SecurityCrash
    PROVE  IngressInv'
<1> DEFINE running == {r \in Requests : sec[r] \in {"received", "routing"}}
<1>1. /\ Shape /\ UNCHANGED <<call, at, reply, answer, routed, trail>>
      /\ sec' = [r \in Requests |-> IF r \in running THEN "dead" ELSE sec[r]]
      /\ lost' = lost \cup posts \cup running /\ posts' = {}
  BY DEF IngressInv, SecurityCrash, gateway
<1>2. Shape'
  BY <1>1 DEF Shape
<1>3. ASSUME NEW r \in Requests
      PROVE  CallInv(r)'
  <2>1. CallInv(r)
    BY DEF IngressInv
  <2>2. sec'[r] = IF sec[r] \in {"received", "routing"} THEN "dead" ELSE sec[r]
    BY <1>1
  <2>3. (posts \cup trail \cup lost) \subseteq (posts \cup trail \cup lost)'
    BY <1>1
  <2> HIDE DEF running
  <2> QED BY <1>1, <2>1, <2>2, <2>3 DEF CallInv, Owing, Checked, StaysOutside, Audited
<1> QED BY <1>2, <1>3 DEF IngressInv

(***************************************************************************)
(* Types                                                                   *)
(***************************************************************************)
\* A request has its call as soon as the gateway has looked at it.
Called == \A r \in Requests : at[r] # "new" => call[r] \in Calls
Typed == TypeOK /\ Called

LEMMA EmitTyped ==
    ASSUME Typed, NEW r \in Requests, NEW type \in EventTypes, NEW status \in Statuses \cup {0},
           Emit(r, type, status)
    PROVE  stdout' \in [Requests -> Seq(Event)]
<1>1. [type |-> type, status |-> status] \in Event
  BY DEF Event
<1>2. stdout \in [Requests -> Seq(Event)]
  BY DEF Typed, TypeOK
<1>3. Append(stdout[r], [type |-> type, status |-> status]) \in Seq(Event)
  BY <1>1, <1>2
<1> QED BY <1>2, <1>3 DEF Emit

LEMMA FinishTyped ==
    ASSUME Typed, NEW r \in Requests, NEW status \in Statuses, Finish(r, status)
    PROVE  reply' \in [Requests -> Statuses \cup {0}] /\ at' \in [Requests -> Places]
BY DEF Typed, TypeOK, Finish, Places

LEMMA GotoTyped ==
    ASSUME Typed, NEW r \in Requests, NEW place \in Places, Goto(r, place)
    PROVE  reply' \in [Requests -> Statuses \cup {0}] /\ at' \in [Requests -> Places]
BY DEF Typed, TypeOK, Goto

LEMMA CloseTyped ==
    ASSUME Typed, NEW r \in Requests, NEW status \in Statuses, Close(r, status)
    PROVE  /\ reply' \in [Requests -> Statuses \cup {0}] /\ at' \in [Requests -> Places]
           /\ stdout' \in [Requests -> Seq(Event)]
BY FinishTyped, EmitTyped DEF Close, EventTypes

\* What a step of the gateway on r does to the types: it moves r on, and
\* prints an event or does not.
LEMMA GatewayTyped ==
    ASSUME Typed, NEW r \in Requests,
           reply' \in [Requests -> Statuses \cup {0}], at' \in [Requests -> Places],
           stdout' \in [Requests -> Seq(Event)],
           at[r] # "new", \A q \in Requests \ {r} : at'[q] = at[q],
           UNCHANGED <<now, call, store, judged, security, faults>>
    PROVE  Typed'
<1>1. TypeOK'
  BY DEF Typed, TypeOK, security
<1>2. Called'
  BY DEF Typed, Called
<1> QED BY <1>1, <1>2 DEF Typed

LEMMA AuthenticateTyped ==
    ASSUME Typed, NEW r \in Requests, NEW c \in Calls, Authenticate(r, c)
    PROVE  Typed'
<1>1. stdout' \in [Requests -> Seq(Event)]
  <2>1. stdout' = stdout \/ Emit(r, "auth_fail", 401) \/ Emit(r, "auth_pass", 0)
    BY DEF Authenticate
  <2>2. CASE stdout' = stdout
    BY <2>2 DEF Typed, TypeOK
  <2>3. CASE Emit(r, "auth_fail", 401)
    BY <2>3, EmitTyped DEF Statuses, EventTypes
  <2>4. CASE Emit(r, "auth_pass", 0)
    BY <2>4, EmitTyped DEF Statuses, EventTypes
  <2> QED BY <2>1, <2>2, <2>3, <2>4
<1>2. reply' \in [Requests -> Statuses \cup {0}] /\ at' \in [Requests -> Places]
  <2>1. Goto(r, "limit") \/ Finish(r, 401)
    BY DEF Authenticate
  <2> QED BY <2>1, GotoTyped, FinishTyped DEF Statuses, Places
<1>3. call' = [call EXCEPT ![r] = c] /\ UNCHANGED <<now, store, judged, security, faults>>
  BY DEF Authenticate
<1>4. TypeOK'
  BY <1>1, <1>2, <1>3 DEF Typed, TypeOK, security
<1>5. ASSUME NEW q \in Requests \ {r} PROVE at'[q] = at[q] /\ call'[q] = call[q]
  BY <1>3 DEF Authenticate, Goto, Finish, Typed, TypeOK
<1>6. call'[r] \in Calls
  BY <1>3 DEF Typed, TypeOK
<1>7. Called'
  BY <1>5, <1>6 DEF Typed, Called
<1> QED BY <1>4, <1>7 DEF Typed

LEMMA RateLimitTyped ==
    ASSUME Typed, NEW r \in Requests, RateLimit(r)
    PROVE  Typed'
<1>1. call[r] \in Calls /\ call[r].key \in Keys
  BY DEF Typed, Called, RateLimit, Keys
<1>2. stdout' \in [Requests -> Seq(Event)]
  <2>1. stdout' = stdout \/ Emit(r, "rate_limited", 429)
    BY DEF RateLimit
  <2>2. CASE stdout' = stdout
    BY <2>2 DEF Typed, TypeOK
  <2>3. CASE Emit(r, "rate_limited", 429)
    BY <2>3, EmitTyped DEF Statuses, EventTypes
  <2> QED BY <2>1, <2>2, <2>3
<1>3. store' \in [Keys -> SUBSET [of : Requests, time : 0..MaxTime]]
  <2>1. Recent(call[r].key) \cup {Stamp(r)} \in SUBSET [of : Requests, time : 0..MaxTime]
    BY <1>1 DEF Typed, TypeOK, Recent, Stamp
  <2> QED BY <1>1, <2>1 DEF RateLimit, Typed, TypeOK
<1>4. reply' \in [Requests -> Statuses \cup {0}] /\ at' \in [Requests -> Places]
  <2>1. Goto(r, "route") \/ Finish(r, 429)
    BY DEF RateLimit
  <2> QED BY <2>1, GotoTyped, FinishTyped DEF Statuses, Places
<1>5. judged' \in [Requests -> [at : 0..MaxTime, verdict : {"none", "admitted", "refused"}]]
  <2>1. PICK verdict \in {"admitted", "refused"} :
           judged' = [judged EXCEPT ![r] = [at |-> now, verdict |-> verdict]]
    BY DEF RateLimit
  <2>2. [at |-> now, verdict |-> verdict] \in [at : 0..MaxTime, verdict : {"none", "admitted", "refused"}]
    BY DEF Typed, TypeOK
  <2> QED BY <2>1, <2>2 DEF Typed, TypeOK
<1>6. UNCHANGED <<now, call, security, faults>>
  BY DEF RateLimit
<1>7. TypeOK'
  BY <1>2, <1>3, <1>4, <1>5, <1>6 DEF Typed, TypeOK, security
<1>8. \A q \in Requests \ {r} : at'[q] = at[q]
  BY DEF RateLimit, Goto, Finish, Typed, TypeOK
<1>9. Called'
  BY <1>1, <1>6, <1>8 DEF Typed, Called
<1> QED BY <1>7, <1>9 DEF Typed

LEMMA AnswerTyped ==
    ASSUME Typed, NEW r \in Requests,
           AnswerAtOnce(r) \/ GiveUp(r) \/ Relay(r) \/ OpenStream(r) \/ Stream(r)
    PROVE  Typed'
<1>1. /\ at[r] # "new" /\ UNCHANGED <<now, call, store, judged, security, faults>>
      /\ \A q \in Requests \ {r} : at'[q] = at[q]
  BY DEF AnswerAtOnce, GiveUp, Relay, OpenStream, Stream, Answered, Close, Finish, Goto,
         Typed, TypeOK
<1>2. CASE \E status \in Statuses : Close(r, status)
  BY <1>1, <1>2, CloseTyped, GatewayTyped
<1>3. CASE (\E status \in Statuses : Finish(r, status)) /\ UNCHANGED stdout
  <2>1. stdout' \in [Requests -> Seq(Event)]
    BY <1>3 DEF Typed, TypeOK
  <2> QED BY <1>1, <1>3, <2>1, FinishTyped, GatewayTyped
<1>4. CASE OpenStream(r) /\ UNCHANGED stdout
  <2>1. stdout' \in [Requests -> Seq(Event)]
    BY <1>4 DEF Typed, TypeOK
  <2>2. reply' \in [Requests -> Statuses \cup {0}] /\ at' \in [Requests -> Places]
    <3>1. CASE Close(r, 502)
      BY <3>1, CloseTyped DEF Statuses
    <3>2. CASE at' = [at EXCEPT ![r] = "streaming"] /\ reply' = [reply EXCEPT ![r] = 200]
      <4>1. reply \in [Requests -> Statuses \cup {0}] /\ at \in [Requests -> Places]
        BY DEF Typed, TypeOK
      <4>2. 200 \in Statuses /\ "streaming" \in Places
        BY DEF Statuses, Places
      <4> QED BY <3>2, <4>1, <4>2
    <3> QED BY <1>4, <3>1, <3>2 DEF OpenStream
  <2> QED BY <1>1, <2>1, <2>2, GatewayTyped
<1>5. CASE Stream(r)
  <2>1. stdout' \in [Requests -> Seq(Event)]
    BY <1>5, EmitTyped DEF Stream, Statuses, EventTypes
  <2>2. reply' \in [Requests -> Statuses \cup {0}] /\ at' \in [Requests -> Places]
    BY <1>5, GotoTyped DEF Stream, Places
  <2> QED BY <1>1, <2>1, <2>2, GatewayTyped
<1>6. CASE AnswerAtOnce(r)
  BY <1>3, <1>6 DEF AnswerAtOnce, Statuses
<1>7. CASE GiveUp(r)
  BY <1>2, <1>7 DEF GiveUp, Statuses
<1>8. CASE Relay(r)
  BY <1>2, <1>3, <1>8 DEF Relay, Statuses
<1>9. CASE OpenStream(r)
  BY <1>2, <1>4, <1>9 DEF OpenStream, Statuses
<1> QED BY <1>5, <1>6, <1>7, <1>8, <1>9

LEMMA ForwardTyped ==
    ASSUME Typed, NEW r \in Requests, Forward(r)
    PROVE  Typed'
<1>1. stdout' \in [Requests -> Seq(Event)]
  BY EmitTyped DEF Forward, EventTypes
<1>2. reply' \in [Requests -> Statuses \cup {0}] /\ at' \in [Requests -> Places]
  BY GotoTyped DEF Forward, Places
<1>3. TypeOK'
  BY <1>1, <1>2 DEF Typed, TypeOK, Forward
<1>4. Called'
  BY DEF Typed, TypeOK, Called, Forward, Goto
<1> QED BY <1>3, <1>4 DEF Typed

LEMMA ReplyTyped ==
    ASSUME Typed, NEW r \in Requests, NEW status \in Nat, NEW body \in Bodies, Reply(r, status, body)
    PROVE  /\ sec' \in [Requests -> {"none", "received", "routing", "answered", "dead"}]
           /\ answer' \in [Requests -> [status : Nat, body : Bodies \cup {"none"}]]
BY DEF Typed, TypeOK, Reply

LEMMA PreCheckTyped ==
    ASSUME Typed, NEW r \in Requests, PreCheck(r),
           sec[r] # "none" => call[r] \in Calls
    PROVE  Typed'
<1>1. call[r] \in Calls
  BY DEF PreCheck
<1>2. Masked(call[r].text) \subseteq Marks
  <2>1. call[r].text \subseteq Marks
    BY <1>1, IngressAssumption
  <2> QED BY <2>1 DEF Masked
<1>3. Called'
  BY DEF Typed, Called, PreCheck, gateway
<1>4. CASE Pass(r)
  BY <1>2, <1>3, <1>4 DEF Typed, TypeOK, PreCheck, Pass, gateway
<1>5. CASE Block(r)
  <2>1. BlockStatus(call[r].text) \in Nat
    BY BlockStatuses
  <2>2. /\ sec' \in [Requests -> {"none", "received", "routing", "answered", "dead"}]
        /\ answer' \in [Requests -> [status : Nat, body : Bodies \cup {"none"}]]
    BY <1>5, <2>1, ReplyTyped DEF Block, Bodies
  <2> QED BY <1>3, <1>5, <2>2 DEF Typed, TypeOK, PreCheck, Block, gateway
<1>6. CASE MaskFails(r)
  <2>1. /\ sec' \in [Requests -> {"none", "received", "routing", "answered", "dead"}]
        /\ answer' \in [Requests -> [status : Nat, body : Bodies \cup {"none"}]]
    BY <1>6, ReplyTyped DEF MaskFails, Bodies
  <2> QED BY <1>3, <1>6, <2>1, IngressAssumption DEF Typed, TypeOK, PreCheck, MaskFails, Fault, gateway
<1> QED BY <1>4, <1>5, <1>6 DEF PreCheck

LEMMA RoutingTyped ==
    ASSUME Typed, NEW r \in Requests,
           RouterRaises(r) \/ \E a \in RouterAnswers \cup {Timeout, Refused} : RouterReturns(r, a)
    PROVE  Typed'
<1>1. /\ sec' \in [Requests -> {"none", "received", "routing", "answered", "dead"}]
      /\ answer' \in [Requests -> [status : Nat, body : Bodies \cup {"none"}]]
  <2>1. CASE RouterRaises(r)
    BY <2>1, ReplyTyped DEF RouterRaises, Bodies
  <2>2. ASSUME NEW a \in RouterAnswers \cup {Timeout, Refused}, RouterReturns(r, a)
        PROVE  <1>1!:
    BY <2>2, RelayedIsNoBlock, ReplyTyped DEF RouterReturns
  <2> QED BY <2>1, <2>2
<1>2. posts' \subseteq Requests /\ UNCHANGED <<now, gateway, routed, trail, lost, faults>>
  BY DEF RouterRaises, RouterReturns, Typed, TypeOK
<1> QED BY <1>1, <1>2 DEF Typed, TypeOK, Called, gateway

LEMMA FaultTyped ==
    ASSUME Typed, Fault
    PROVE  faults' \in 0..MaxFaults
BY IngressAssumption DEF Typed, TypeOK, Fault

LEMMA PostTyped ==
    ASSUME Typed, NEW r \in Requests, Post(r)
    PROVE  Typed'
<1>1. faults' \in 0..MaxFaults /\ posts' \subseteq Requests /\ trail' \subseteq Requests
      /\ lost' \subseteq Requests /\ UNCHANGED <<now, gateway, sec, answer, routed>>
  BY FaultTyped DEF Typed, TypeOK, Post
<1> QED BY <1>1 DEF Typed, TypeOK, Called, gateway

LEMMA SecurityCrashTyped ==
    ASSUME Typed, SecurityCrash
    PROVE  Typed'
BY FaultTyped DEF Typed, TypeOK, Called, SecurityCrash, gateway

LEMMA TickTyped ==
    ASSUME Typed, Tick
    PROVE  Typed'
<1>1. now' \in 0..MaxTime
  BY IngressAssumption DEF Typed, TypeOK, Tick
<1> QED BY <1>1 DEF Typed, TypeOK, Called, Tick, gateway, security

(***************************************************************************)
(* The limit                                                               *)
(***************************************************************************)
\* A request is judged once, when it stands before the limiter.
Judged(r) ==
    /\ at[r] \in {"new", "limit"} => judged[r].verdict = "none"
    /\ judged[r].at <= now

\* What the store still holds for a key is what admitted calls of that key
\* left there, each at its own time, and it has forgotten none of the window.
StoreExact(k) ==
    /\ \A e \in store[k] :
          judged[e.of] = [at |-> e.time, verdict |-> "admitted"] /\ call[e.of].key = k
    /\ \A r \in Requests :
          judged[r].verdict = "admitted" /\ call[r].key = k /\ judged[r].at > now - Window =>
              [of |-> r, time |-> judged[r].at] \in store[k]

LimitInv ==
    /\ \A r \in Requests : Judged(r)
    /\ \A k \in Keys : StoreExact(k)
    /\ WithinLimit /\ RefusedOnlyWhenFull

LEMMA AdmittedFinite ==
    \A k, t : IsFiniteSet(AdmittedIn(k, t)) /\ Cardinality(AdmittedIn(k, t)) \in Nat
<1>1. \A k, t : AdmittedIn(k, t) \in SUBSET Requests
  BY DEF AdmittedIn
<1> QED BY <1>1, FS_Subset, FS_CardinalityType, IngressAssumption

\* The limiter counts the calls of the key that were admitted in the window.
LEMMA RecentCountsAdmitted ==
    ASSUME Typed, LimitInv, NEW k \in Keys
    PROVE  Cardinality(Recent(k)) = Cardinality(AdmittedIn(k, now))
<1> DEFINE f == [r \in AdmittedIn(k, now) |-> [of |-> r, time |-> judged[r].at]]
<1>1. StoreExact(k) /\ \A r \in Requests : Judged(r)
  BY DEF LimitInv
<1>2. \A r \in AdmittedIn(k, now) : f[r] \in Recent(k)
  BY <1>1 DEF StoreExact, AdmittedIn, Recent
<1>3. \A r, q \in AdmittedIn(k, now) : f[r] = f[q] => r = q
  OBVIOUS
<1>4. \A e \in Recent(k) : \E r \in AdmittedIn(k, now) : f[r] = e
  <2> SUFFICES ASSUME NEW e \in Recent(k)
               PROVE  e.of \in AdmittedIn(k, now) /\ f[e.of] = e
    OBVIOUS
  <2>1. e \in [of : Requests, time : 0..MaxTime] /\ e \in store[k] /\ e.time > now - Window
    BY DEF Recent, Typed, TypeOK
  <2>2. judged[e.of] = [at |-> e.time, verdict |-> "admitted"] /\ call[e.of].key = k
    BY <1>1, <2>1 DEF StoreExact
  <2>3. judged[e.of].at <= now
    BY <1>1, <2>1 DEF Judged
  <2>4. e.of \in AdmittedIn(k, now)
    BY <2>1, <2>2, <2>3 DEF AdmittedIn
  <2> QED BY <2>1, <2>2, <2>4
<1>5. f \in Bijection(AdmittedIn(k, now), Recent(k))
  BY <1>2, <1>3, <1>4 DEF Bijection, Injection, Surjection, IsInjective
<1>6. ExistsBijection(AdmittedIn(k, now), Recent(k))
  BY <1>5 DEF ExistsBijection
<1> QED BY <1>6, AdmittedFinite, FS_Bijection

\* Steps that judge nobody leave every window as it is.
LEMMA LimitStutters ==
    ASSUME Typed, LimitInv, UNCHANGED store, UNCHANGED judged, now' \in Nat, now <= now',
           \A r \in Requests : call'[r] = call[r] \/ at[r] = "new",
           \A r \in Requests : at'[r] \in {"new", "limit"} => at[r] \in {"new", "limit"}
    PROVE  LimitInv'
<1>1. \A r \in Requests : judged[r].at \in Nat /\ now \in Nat
  BY DEF Typed, TypeOK
<1>2. \A r \in Requests : judged[r].verdict # "none" => call'[r] = call[r]
  BY DEF LimitInv, Judged
<1>3. \A k, t : AdmittedIn(k, t)' = AdmittedIn(k, t)
  BY <1>2 DEF AdmittedIn
<1>4. ASSUME NEW r \in Requests PROVE Judged(r)'
  BY <1>1 DEF LimitInv, Judged
<1>5. ASSUME NEW k \in Keys PROVE StoreExact(k)'
  <2>1. StoreExact(k)
    BY DEF LimitInv
  <2>2. \A e \in store[k] : e.of \in Requests
    BY DEF Typed, TypeOK
  <2> QED BY <1>1, <1>2, <2>1, <2>2, IngressAssumption DEF StoreExact
<1>6. WithinLimit'
  BY <1>3 DEF LimitInv, WithinLimit
<1>7. RefusedOnlyWhenFull'
  <2> SUFFICES ASSUME NEW r \in Requests, NEW k, NEW t,
                      judged'[r].verdict = "refused", k = call'[r].key, t = judged'[r].at
               PROVE  Cardinality(AdmittedIn(k, t)') >= Limit
    BY DEF RefusedOnlyWhenFull, AdmittedIn
  <2>1. Cardinality(AdmittedIn(k, t)) >= Limit
    BY <1>2 DEF LimitInv, RefusedOnlyWhenFull
  <2> QED BY <1>3, <2>1
<1> QED BY <1>4, <1>5, <1>6, <1>7 DEF LimitInv

\* Everything that was admitted before stays in the windows it is in, and a
\* call admitted now joins the windows that have not ended.
LEMMA LimitCounted ==
    ASSUME Typed, LimitInv, NEW r \in Requests, RateLimit(r)
    PROVE  LimitInv'
<1> DEFINE key == call[r].key
<1>1. /\ call[r] \in Calls /\ key \in Keys /\ UNCHANGED now /\ UNCHANGED call
      /\ at[r] = "limit" /\ now \in Nat
  BY DEF Typed, TypeOK, Called, RateLimit, Keys
<1>2. judged[r].verdict = "none"
  BY <1>1 DEF LimitInv, Judged
<1>3. \A q \in Requests \ {r} : judged'[q] = judged[q] /\ at'[q] = at[q]
  BY DEF RateLimit, Typed, TypeOK, Goto, Finish
<1>4. at'[r] \notin {"new", "limit"}
  BY DEF RateLimit, Typed, TypeOK, Goto, Finish
<1>5. ASSUME NEW q \in Requests PROVE Judged(q)'
  <2>1. Judged(q)
    BY DEF LimitInv
  <2>2. q = r => judged'[q].at = now
    BY DEF RateLimit, Typed, TypeOK
  <2> QED BY <1>1, <1>3, <1>4, <2>1, <2>2 DEF Judged
<1>6. CASE HasRoom(key)
  <2>1. /\ store' = [store EXCEPT ![key] = Recent(key) \cup {Stamp(r)}]
        /\ judged' = [judged EXCEPT ![r] = [at |-> now, verdict |-> "admitted"]]
    BY <1>6 DEF RateLimit
  <2>2. judged'[r] = [at |-> now, verdict |-> "admitted"]
    BY <2>1 DEF Typed, TypeOK
  <2>3. ASSUME NEW k \in Keys PROVE StoreExact(k)'
    <3>1. StoreExact(k) /\ \A e \in store[k] : e.of \in Requests \ {r}
      <4>1. StoreExact(k)
        BY DEF LimitInv
      <4>2. \A e \in store[k] : e.of \in Requests
        BY DEF Typed, TypeOK
      <4>3. \A e \in store[k] : judged[e.of].verdict = "admitted"
        <5> SUFFICES ASSUME NEW e \in store[k] PROVE judged[e.of].verdict = "admitted"
          OBVIOUS
        <5>1. judged[e.of] = [at |-> e.time, verdict |-> "admitted"]
          BY <4>1 DEF StoreExact
        <5> QED BY <5>1
      <4> QED BY <1>2, <4>1, <4>2, <4>3
    <3>2. CASE k # key
      <4>1. store'[k] = store[k]
        BY <2>1, <3>2 DEF Typed, TypeOK
      <4> QED BY <1>1, <1>3, <3>1, <3>2, <4>1 DEF StoreExact
    <3>3. CASE k = key
      <4>1. store'[k] = Recent(k) \cup {[of |-> r, time |-> now]}
        BY <2>1, <3>3 DEF Typed, TypeOK, Stamp
      <4>2. \A e \in store'[k] :
               judged'[e.of] = [at |-> e.time, verdict |-> "admitted"] /\ call'[e.of].key = k
        <5>1. \A e \in Recent(k) : e \in store[k]
          BY DEF Recent
        <5>2. \A e \in Recent(k) :
                 judged'[e.of] = [at |-> e.time, verdict |-> "admitted"] /\ call'[e.of].key = k
          BY <1>1, <1>3, <3>1, <5>1 DEF StoreExact
        <5>3. ASSUME NEW e, e = [of |-> r, time |-> now]
              PROVE  judged'[e.of] = [at |-> e.time, verdict |-> "admitted"] /\ call'[e.of].key = k
          BY <1>1, <2>2, <3>3, <5>3
        <5> QED BY <4>1, <5>2, <5>3
      <4>3. ASSUME NEW q \in Requests, judged'[q].verdict = "admitted", call'[q].key = k,
                   judged'[q].at > now' - Window
            PROVE  [of |-> q, time |-> judged'[q].at] \in store'[k]
        <5>1. CASE q = r
          BY <2>2, <4>1, <5>1
        <5>2. CASE q # r
          <6>1. [of |-> q, time |-> judged[q].at] \in store[k]
            BY <1>1, <1>3, <3>1, <4>3, <5>2 DEF StoreExact
          <6> QED BY <1>1, <1>3, <4>1, <4>3, <5>2, <6>1 DEF Recent
        <5> QED BY <5>1, <5>2
      <4> QED BY <4>2, <4>3 DEF StoreExact
    <3> QED BY <3>2, <3>3
  <2>4. ASSUME NEW k, NEW t \in Nat
        PROVE  /\ AdmittedIn(k, t) \subseteq AdmittedIn(k, t)'
               /\ AdmittedIn(k, t)' \subseteq AdmittedIn(k, t) \cup {r}
               /\ k # key \/ t < now => AdmittedIn(k, t)' = AdmittedIn(k, t)
               /\ t >= now => AdmittedIn(k, t) \subseteq AdmittedIn(k, now)
    <3>1. \A q \in Requests : judged[q].at \in Nat /\ judged[q].at <= now
      BY DEF LimitInv, Judged, Typed, TypeOK
    <3>2. r \notin AdmittedIn(k, t)
      BY <1>2 DEF AdmittedIn
    <3>3. \A q \in Requests \ {r} : q \in AdmittedIn(k, t)' <=> q \in AdmittedIn(k, t)
      BY <1>1, <1>3 DEF AdmittedIn
    <3>4. r \in AdmittedIn(k, t)' => k = key /\ t >= now
      BY <1>1, <2>2 DEF AdmittedIn
    <3>5. t >= now => AdmittedIn(k, t) \subseteq AdmittedIn(k, now)
      BY <1>1, <3>1, IngressAssumption DEF AdmittedIn
    <3>6. AdmittedIn(k, t) \subseteq Requests /\ AdmittedIn(k, t)' \subseteq Requests
      BY DEF AdmittedIn
    <3>7. AdmittedIn(k, t) \subseteq AdmittedIn(k, t)'
      BY <3>2, <3>3, <3>6
    <3>8. AdmittedIn(k, t)' \subseteq AdmittedIn(k, t) \cup {r}
      BY <3>3, <3>6
    <3>9. ASSUME k # key \/ t < now PROVE AdmittedIn(k, t)' \subseteq AdmittedIn(k, t)
      <4>1. r \notin AdmittedIn(k, t)'
        BY <1>1, <3>4, <3>9
      <4> QED BY <3>8, <4>1
    <3> QED BY <3>5, <3>7, <3>8, <3>9
  <2>5. WithinLimit'
    <3> SUFFICES ASSUME NEW k \in Keys, NEW t \in 0..MaxTime
                 PROVE  Cardinality(AdmittedIn(k, t)') <= Limit
      BY DEF WithinLimit
    <3>1. t \in Nat
      BY IngressAssumption
    <3>2. CASE k # key \/ t < now
      <4>1. AdmittedIn(k, t)' = AdmittedIn(k, t)
        BY <2>4, <3>1, <3>2
      <4> QED BY <4>1 DEF LimitInv, WithinLimit
    <3>3. CASE k = key /\ t >= now
      <4>1. Cardinality(AdmittedIn(k, now)) < Limit
        BY <1>1, <1>6, <3>3, RecentCountsAdmitted DEF HasRoom
      <4>2. Cardinality(AdmittedIn(k, now) \cup {r}) <= Limit /\ IsFiniteSet(AdmittedIn(k, now) \cup {r})
        <5>1. PICK S : S = AdmittedIn(k, now)
          OBVIOUS
        <5>2. IsFiniteSet(S) /\ Cardinality(S) \in Nat /\ Cardinality(S) < Limit
          BY <4>1, <5>1, AdmittedFinite
        <5>3. /\ IsFiniteSet(S \cup {r})
              /\ Cardinality(S \cup {r}) = IF r \in S THEN Cardinality(S) ELSE Cardinality(S) + 1
          BY <5>2, FS_AddElement, Zenon
        <5>4. Cardinality(S \cup {r}) \in Nat
          BY <5>3, FS_CardinalityType
        <5> QED BY <5>1, <5>2, <5>3, <5>4, IngressAssumption
      <4>3. AdmittedIn(k, t)' \in SUBSET (AdmittedIn(k, now) \cup {r})
        BY <2>4, <3>1, <3>3
      <4>4. Cardinality(AdmittedIn(k, t)') <= Cardinality(AdmittedIn(k, now) \cup {r})
        BY <4>2, <4>3, FS_Subset
      <4>5. Cardinality(AdmittedIn(k, t)') \in Nat /\ Cardinality(AdmittedIn(k, now) \cup {r}) \in Nat
        BY <4>2, <4>3, FS_Subset, FS_CardinalityType
      <4> QED BY <4>2, <4>4, <4>5, IngressAssumption
    <3> QED BY <1>1, <3>1, <3>2, <3>3
  <2>6. RefusedOnlyWhenFull'
    <3> SUFFICES ASSUME NEW q \in Requests, NEW k, NEW t,
                        judged'[q].verdict = "refused", k = call'[q].key, t = judged'[q].at
                 PROVE  Cardinality(AdmittedIn(k, t)') >= Limit
      BY DEF RefusedOnlyWhenFull, AdmittedIn
    <3>1. q # r /\ judged'[q] = judged[q] /\ call'[q] = call[q]
      BY <1>1, <1>3, <2>2
    <3>2. Cardinality(AdmittedIn(k, t)) >= Limit
      BY <3>1 DEF LimitInv, RefusedOnlyWhenFull
    <3>3. t \in Nat
      BY <3>1 DEF Typed, TypeOK
    <3>4. AdmittedIn(k, t) \in SUBSET AdmittedIn(k, t)'
      BY <2>4, <3>3
    <3>5. /\ Cardinality(AdmittedIn(k, t)) <= Cardinality(AdmittedIn(k, t)')
          /\ Cardinality(AdmittedIn(k, t)') \in Nat
      <4>1. AdmittedIn(k, t)' \in SUBSET Requests
        BY DEF AdmittedIn
      <4>2. IsFiniteSet(AdmittedIn(k, t)')
        BY <4>1, FS_Subset, IngressAssumption
      <4> QED BY <3>4, <4>2, FS_Subset, FS_CardinalityType
    <3> QED BY <3>2, <3>5, AdmittedFinite, IngressAssumption
  <2> QED BY <1>5, <2>3, <2>5, <2>6 DEF LimitInv
<1>7. CASE ~HasRoom(key)
  <2>1. /\ UNCHANGED store
        /\ judged' = [judged EXCEPT ![r] = [at |-> now, verdict |-> "refused"]]
    BY <1>7 DEF RateLimit
  <2>2. judged'[r] = [at |-> now, verdict |-> "refused"]
    BY <2>1 DEF Typed, TypeOK
  <2>3. ASSUME NEW k \in Keys PROVE StoreExact(k)'
    <3>1. StoreExact(k) /\ \A e \in store[k] : e.of \in Requests \ {r}
      <4>1. StoreExact(k)
        BY DEF LimitInv
      <4>2. \A e \in store[k] : e.of \in Requests
        BY DEF Typed, TypeOK
      <4>3. \A e \in store[k] : judged[e.of].verdict = "admitted"
        <5> SUFFICES ASSUME NEW e \in store[k] PROVE judged[e.of].verdict = "admitted"
          OBVIOUS
        <5>1. judged[e.of] = [at |-> e.time, verdict |-> "admitted"]
          BY <4>1 DEF StoreExact
        <5> QED BY <5>1
      <4> QED BY <1>2, <4>1, <4>2, <4>3
    <3>2. \A q \in Requests : judged'[q].verdict = "admitted" => q # r
      BY <2>2
    <3> QED BY <1>1, <1>3, <2>1, <3>1, <3>2 DEF StoreExact
  <2>4. \A k, t : AdmittedIn(k, t)' = AdmittedIn(k, t)
    BY <1>1, <1>2, <1>3, <2>2 DEF AdmittedIn
  <2>5. WithinLimit'
    BY <2>4 DEF LimitInv, WithinLimit
  <2>6. Cardinality(AdmittedIn(key, now)) >= Limit
    BY <1>1, <1>7, RecentCountsAdmitted, AdmittedFinite, IngressAssumption DEF HasRoom
  <2>7. RefusedOnlyWhenFull'
    <3> SUFFICES ASSUME NEW q \in Requests, NEW k, NEW t,
                        judged'[q].verdict = "refused", k = call'[q].key, t = judged'[q].at
                 PROVE  Cardinality(AdmittedIn(k, t)') >= Limit
      BY DEF RefusedOnlyWhenFull, AdmittedIn
    <3>1. CASE q = r
      BY <1>1, <2>2, <2>4, <2>6, <3>1
    <3>2. CASE q # r
      <4>1. judged[q].verdict = "refused" /\ k = call[q].key /\ t = judged[q].at
        BY <1>1, <1>3, <3>2
      <4> QED BY <2>4, <4>1 DEF LimitInv, RefusedOnlyWhenFull
    <3> QED BY <3>1, <3>2
  <2> QED BY <1>5, <2>3, <2>5, <2>7 DEF LimitInv
<1> QED BY <1>6, <1>7

(***************************************************************************)
(* The events                                                              *)
(***************************************************************************)
\* A call is announced when it is forwarded and closed when it is answered.
ToldRight(r) ==
    /\ at[r] \in {"new", "limit", "route"} => EventsOf(r, "request_received") = {}
    /\ at[r] # "done" => EventsOf(r, "response_sent") = {}
    /\ at[r] = "streaming" => call[r].stream
    /\ at[r] = "done" /\ EventsOf(r, "request_received") # {} /\ ~call[r].stream =>
          IF reply[r] = 500 THEN EventsOf(r, "response_sent") = {}
                            ELSE ClosedOnce(r, reply[r])

EventInv == \A r \in Requests : ToldRight(r)

LEMMA EmitAdds ==
    ASSUME Typed, NEW r \in Requests, NEW type, NEW status, Emit(r, type, status)
    PROVE  /\ \A q \in Requests \ {r} : stdout'[q] = stdout[q]
           /\ \A other : other # type => EventsOf(r, other)' = EventsOf(r, other)
           /\ EventsOf(r, type) = {} => EventsOf(r, type)' = {Len(stdout[r]) + 1}
           /\ Len(stdout[r]) + 1 \in DOMAIN stdout'[r]
           /\ stdout'[r][Len(stdout[r]) + 1].status = status
<1> DEFINE n == Len(stdout[r]) + 1
<1>1. stdout \in [Requests -> Seq(Event)] /\ stdout[r] \in Seq(Event)
  BY DEF Typed, TypeOK
<1>2. stdout'[r] = Append(stdout[r], [type |-> type, status |-> status])
  BY <1>1 DEF Emit
<1>3. /\ DOMAIN stdout[r] = 1..Len(stdout[r]) /\ Len(stdout[r]) \in Nat
      /\ DOMAIN stdout'[r] = 1..n
      /\ stdout'[r][n] = [type |-> type, status |-> status]
      /\ \A i \in 1..Len(stdout[r]) : stdout'[r][i] = stdout[r][i]
  BY <1>1, <1>2
<1>4. \A q \in Requests \ {r} : stdout'[q] = stdout[q]
  BY <1>1 DEF Emit
<1>5. ASSUME NEW other PROVE other # type => EventsOf(r, other)' = EventsOf(r, other)
  BY <1>3 DEF EventsOf
<1>6. EventsOf(r, type) = {} => EventsOf(r, type)' = {n}
  BY <1>3 DEF EventsOf
<1> QED BY <1>3, <1>4, <1>5, <1>6

LEMMA EmitOthers ==
    ASSUME EventInv, NEW r \in Requests,
           \A q \in Requests \ {r} :
               /\ stdout'[q] = stdout[q] /\ at'[q] = at[q]
               /\ reply'[q] = reply[q] /\ call'[q] = call[q],
           ToldRight(r)'
    PROVE  EventInv'
<1>1. ASSUME NEW q \in Requests \ {r} PROVE ToldRight(q)'
  <2>1. ToldRight(q)
    BY DEF EventInv
  <2> QED BY <2>1 DEF ToldRight, EventsOf, ClosedOnce
<1> QED BY <1>1 DEF EventInv

LEMMA BystanderTold ==
    ASSUME EventInv, UNCHANGED <<call, at, reply, stdout>>
    PROVE  EventInv'
<1>1. ASSUME NEW q \in Requests PROVE ToldRight(q)'
  <2>1. ToldRight(q)
    BY DEF EventInv
  <2> QED BY <2>1 DEF ToldRight, EventsOf, ClosedOnce
<1> QED BY <1>1 DEF EventInv

\* Of the others a step of the gateway on r tells nothing.
LEMMA GatewayOthers ==
    ASSUME Typed, NEW r \in Requests,
           (\E c \in Calls : Authenticate(r, c)) \/ Gateway(r)
    PROVE  \A q \in Requests \ {r} :
               /\ stdout'[q] = stdout[q] /\ at'[q] = at[q]
               /\ reply'[q] = reply[q] /\ call'[q] = call[q]
<1>1. /\ stdout \in [Requests -> Seq(Event)] /\ at \in [Requests -> Places]
      /\ reply \in [Requests -> Statuses \cup {0}] /\ call \in [Requests -> Calls \cup {NoCall}]
  BY DEF Typed, TypeOK
<1>2. ASSUME NEW c \in Calls, Authenticate(r, c)
      PROVE  \A q \in Requests \ {r} :
               /\ stdout'[q] = stdout[q] /\ at'[q] = at[q]
               /\ reply'[q] = reply[q] /\ call'[q] = call[q]
  BY <1>1, <1>2 DEF Authenticate, Goto, Finish, Emit
<1>3. CASE RateLimit(r) \/ Forward(r) \/ AnswerAtOnce(r)
  BY <1>1, <1>3 DEF RateLimit, Forward, AnswerAtOnce, Goto, Finish, Emit
<1>4. CASE GiveUp(r) \/ Relay(r) \/ OpenStream(r) \/ Stream(r)
  BY <1>1, <1>4 DEF GiveUp, Relay, OpenStream, Stream, Goto, Close, Finish, Emit
<1> QED BY <1>2, <1>3, <1>4 DEF Gateway

\* Before the gateway forwards it announces nothing, whatever else it prints.
LEMMA EntryTold ==
    ASSUME Typed, EventInv, NEW r \in Requests,
           (\E c \in Calls : Authenticate(r, c)) \/ RateLimit(r) \/ AnswerAtOnce(r)
    PROVE  EventInv'
<1>1. ToldRight(r) /\ at[r] \in {"new", "limit", "route"} /\ at \in [Requests -> Places]
  BY DEF Typed, TypeOK, EventInv, Authenticate, RateLimit, AnswerAtOnce
<1>2. EventsOf(r, "request_received") = {} /\ EventsOf(r, "response_sent") = {}
  BY <1>1 DEF ToldRight
<1>3. \/ UNCHANGED stdout
      \/ \E type \in {"auth_fail", "auth_pass", "rate_limited"} : \E status : Emit(r, type, status)
  BY DEF Authenticate, RateLimit, AnswerAtOnce
<1>4. EventsOf(r, "request_received")' = {} /\ EventsOf(r, "response_sent")' = {}
  <2>1. CASE UNCHANGED stdout
    BY <1>2, <2>1 DEF EventsOf
  <2>2. ASSUME NEW type \in {"auth_fail", "auth_pass", "rate_limited"}, NEW status,
               Emit(r, type, status)
        PROVE  EventsOf(r, "request_received")' = {} /\ EventsOf(r, "response_sent")' = {}
    BY <1>2, <2>2, EmitAdds
  <2> QED BY <1>3, <2>1, <2>2
<1>5. at'[r] # "streaming"
  BY <1>1 DEF Authenticate, RateLimit, AnswerAtOnce, Goto, Finish
<1>6. ToldRight(r)'
  BY <1>4, <1>5 DEF ToldRight
<1> QED BY <1>6, GatewayOthers, EmitOthers DEF Gateway

LEMMA ForwardTold ==
    ASSUME Typed, EventInv, NEW r \in Requests, Forward(r)
    PROVE  EventInv'
<1>1. EventsOf(r, "response_sent") = {}
  BY DEF EventInv, ToldRight, Forward
<1>2. EventsOf(r, "response_sent")' = {}
  BY <1>1, EmitAdds DEF Forward
<1>3. at'[r] = "waiting"
  BY DEF Forward, Goto, Typed, TypeOK
<1>4. ToldRight(r)'
  BY <1>2, <1>3 DEF ToldRight
<1> QED BY <1>4, GatewayOthers, EmitOthers DEF Gateway

\* What closes a call is the only event that does.
LEMMA CloseTold ==
    ASSUME Typed, EventInv, NEW r \in Requests, NEW status \in Statuses \ {500},
           at[r] # "done", Close(r, status)
    PROVE  ToldRight(r)'
<1>1. EventsOf(r, "response_sent") = {}
  BY DEF EventInv, ToldRight
<1>2. ClosedOnce(r, status)'
  BY <1>1, EmitAdds DEF Close, ClosedOnce
<1>3. at'[r] = "done" /\ reply'[r] = status
  BY DEF Close, Finish, Typed, TypeOK
<1> QED BY <1>2, <1>3 DEF ToldRight

LEMMA WaitTold ==
    ASSUME Typed, EventInv, NEW r \in Requests,
           GiveUp(r) \/ Relay(r) \/ OpenStream(r) \/ Stream(r)
    PROVE  EventInv'
<1>1. at[r] \in {"waiting", "streaming"} /\ EventsOf(r, "response_sent") = {} /\ UNCHANGED call
  BY DEF EventInv, ToldRight, GiveUp, Relay, OpenStream, Stream, Answered
<1>2. CASE \E status \in Statuses \ {500} : Close(r, status)
  <2>1. ToldRight(r)'
    BY <1>1, <1>2, CloseTold
  <2> QED BY <2>1, GatewayOthers, EmitOthers DEF Gateway
<1>3. CASE Finish(r, 500) /\ UNCHANGED stdout
  <2>1. at'[r] = "done" /\ reply'[r] = 500
    BY <1>3 DEF Finish, Typed, TypeOK
  <2>2. EventsOf(r, "response_sent")' = {}
    BY <1>1, <1>3 DEF EventsOf
  <2>3. ToldRight(r)'
    BY <2>1, <2>2 DEF ToldRight
  <2> QED BY <2>3, GatewayOthers, EmitOthers DEF Gateway
<1>4. CASE OpenStream(r) /\ UNCHANGED stdout /\ at' = [at EXCEPT ![r] = "streaming"]
  <2>1. at'[r] = "streaming" /\ call'[r].stream
    BY <1>1, <1>4 DEF OpenStream, Typed, TypeOK
  <2>2. EventsOf(r, "response_sent")' = {}
    BY <1>1, <1>4 DEF EventsOf
  <2>3. ToldRight(r)'
    BY <2>1, <2>2 DEF ToldRight
  <2> QED BY <2>3, GatewayOthers, EmitOthers DEF Gateway
<1>5. CASE Stream(r)
  <2>1. at'[r] = "done" /\ call'[r].stream
    BY <1>1, <1>5 DEF Stream, Goto, Typed, TypeOK, EventInv, ToldRight
  <2>2. ToldRight(r)'
    BY <2>1 DEF ToldRight
  <2> QED BY <2>2, GatewayOthers, EmitOthers DEF Gateway
<1>6. CASE GiveUp(r)
  BY <1>2, <1>6 DEF GiveUp, Statuses
<1>7. CASE Relay(r)
  BY <1>2, <1>3, <1>7 DEF Relay, Statuses
<1>8. CASE OpenStream(r)
  BY <1>2, <1>4, <1>8 DEF OpenStream, Statuses
<1> QED BY <1>5, <1>6, <1>7, <1>8

(***************************************************************************)
(* The theorems                                                            *)
(***************************************************************************)
LEMMA InitIngress == Init => IngressInv
BY DEF Init, IngressInv, Shape, CallInv, Owing, Checked, StaysOutside, Audited, NoAnswer

LEMMA IngressStep == IngressInv /\ [Next]_vars => IngressInv'
<1> SUFFICES ASSUME IngressInv, [Next]_vars PROVE IngressInv'
  OBVIOUS
<1>1. ASSUME NEW r \in Requests, NEW c \in Calls, Authenticate(r, c) PROVE IngressInv'
  BY <1>1, AuthenticateKeeps
<1>2. ASSUME NEW r \in Requests, Gateway(r) PROVE IngressInv'
  BY <1>2, RateLimitKeeps, ForwardKeeps, AnswerAtOnceKeeps, WaitKeeps, StreamKeeps DEF Gateway
<1>3. ASSUME NEW r \in Requests, Security(r) PROVE IngressInv'
  BY <1>3, PreCheckKeeps, RoutingKeeps, PostKeeps DEF Security
<1>4. CASE SecurityCrash
  BY <1>4, SecurityCrashKeeps
<1>5. CASE Tick \/ UNCHANGED vars
  BY <1>5, BystanderKeeps DEF Tick, vars, gateway, security
<1> QED BY <1>1, <1>2, <1>3, <1>4, <1>5 DEF Next

LEMMA TypedStep ==
    ASSUME Typed, IngressInv, [Next]_vars
    PROVE  Typed'
<1>1. ASSUME NEW r \in Requests, NEW c \in Calls, Authenticate(r, c) PROVE Typed'
  BY <1>1, AuthenticateTyped
<1>2. ASSUME NEW r \in Requests, Gateway(r) PROVE Typed'
  BY <1>2, RateLimitTyped, ForwardTyped, AnswerTyped DEF Gateway
<1>3. ASSUME NEW r \in Requests, Security(r) PROVE Typed'
  <2>1. sec[r] # "none" => call[r] \in Calls
    BY DEF IngressInv, CallInv, Owing
  <2> QED BY <1>3, <2>1, PreCheckTyped, RoutingTyped, PostTyped DEF Security
<1>4. CASE UNCHANGED vars
  BY <1>4 DEF Typed, TypeOK, Called, vars, gateway, security
<1> QED BY <1>1, <1>2, <1>3, <1>4, SecurityCrashTyped, TickTyped DEF Next

LEMMA LimitStep ==
    ASSUME Typed, LimitInv, [Next]_vars
    PROVE  LimitInv'
<1>1. now \in Nat /\ at \in [Requests -> Places]
  BY IngressAssumption DEF Typed, TypeOK
<1>2. ASSUME NEW r \in Requests, NEW c \in Calls, Authenticate(r, c) PROVE LimitInv'
  <2>1. \A q \in Requests : /\ call'[q] = call[q] \/ at[q] = "new"
                            /\ at'[q] \in {"new", "limit"} => at[q] \in {"new", "limit"}
    BY <1>1, <1>2 DEF Authenticate, Goto, Finish, Typed, TypeOK
  <2> QED BY <1>1, <1>2, <2>1, LimitStutters DEF Authenticate
<1>3. ASSUME NEW r \in Requests,
             Forward(r) \/ AnswerAtOnce(r) \/ GiveUp(r) \/ Relay(r) \/ OpenStream(r) \/ Stream(r)
      PROVE  LimitInv'
  <2>1. \A q \in Requests : at'[q] \in {"new", "limit"} => at[q] \in {"new", "limit"}
    BY <1>1, <1>3 DEF Forward, AnswerAtOnce, GiveUp, Relay, OpenStream, Stream, Goto, Close, Finish
  <2>2. UNCHANGED <<now, call, store, judged>>
    BY <1>3 DEF Forward, AnswerAtOnce, GiveUp, Relay, OpenStream, Stream
  <2> QED BY <1>1, <2>1, <2>2, LimitStutters
<1>4. CASE (\E r \in Requests : Security(r)) \/ SecurityCrash \/ Tick \/ UNCHANGED vars
  <2>1. UNCHANGED <<call, at, store, judged>> /\ now' \in Nat /\ now <= now'
    BY <1>1, <1>4 DEF Security, PreCheck, RouterReturns, RouterRaises, Post, SecurityCrash, Tick,
                      vars, gateway
  <2> QED BY <2>1, LimitStutters
<1> QED BY <1>2, <1>3, <1>4, LimitCounted DEF Next, Gateway

LEMMA EventStep ==
    ASSUME Typed, EventInv, [Next]_vars
    PROVE  EventInv'
<1>1. ASSUME NEW r \in Requests, (\E c \in Calls : Authenticate(r, c)) \/ Gateway(r) PROVE EventInv'
  BY <1>1, EntryTold, ForwardTold, WaitTold DEF Gateway
<1>2. CASE (\E r \in Requests : Security(r)) \/ SecurityCrash \/ Tick \/ UNCHANGED vars
  <2>1. UNCHANGED <<call, at, reply, stdout>>
    BY <1>2 DEF Security, PreCheck, RouterReturns, RouterRaises, Post, SecurityCrash, Tick,
                vars, gateway
  <2> QED BY <2>1, BystanderTold
<1> QED BY <1>1, <1>2 DEF Next

WayIn == Typed /\ IngressInv /\ LimitInv /\ EventInv

LEMMA InitWayIn == Init => WayIn
<1> SUFFICES ASSUME Init PROVE WayIn
  OBVIOUS
<1>1. Typed
  BY IngressAssumption DEF Init, Typed, TypeOK, Called, Places, NoAnswer, NotJudged
<1>2. EventInv
  BY DEF Init, EventInv, ToldRight, EventsOf
<1>3. LimitInv
  <2>1. \A r \in Requests : judged[r] = [at |-> 0, verdict |-> "none"]
    BY DEF Init, NotJudged
  <2>2. \A k, t : AdmittedIn(k, t) = {}
    BY <2>1 DEF AdmittedIn
  <2>3. WithinLimit
    BY <2>2, FS_EmptySet, IngressAssumption DEF WithinLimit
  <2>4. RefusedOnlyWhenFull
    BY <2>1 DEF RefusedOnlyWhenFull
  <2>5. \A r \in Requests : Judged(r)
    BY <2>1 DEF Init, Judged
  <2>6. \A k \in Keys : StoreExact(k)
    BY <2>1 DEF Init, StoreExact
  <2> QED BY <2>3, <2>4, <2>5, <2>6 DEF LimitInv
<1> QED BY <1>1, <1>2, <1>3, InitIngress DEF WayIn

LEMMA IngressInvariant == Spec => []WayIn
<1>1. WayIn /\ [Next]_vars => WayIn'
  BY IngressStep, TypedStep, LimitStep, EventStep DEF WayIn
<1> QED BY <1>1, InitWayIn, PTL DEF Spec

\* The types of the gateway's and the Security Layer's state; among them, that
\* a client gets no status but those the gateway has.
THEOREM IngressTypes == Spec => []TypeOK
<1>1. WayIn => TypeOK
  BY DEF WayIn, Typed
<1> QED BY <1>1, IngressInvariant, PTL

\* Whatever the limit, the window and the number of clients, and however their
\* calls fall: in no window are more calls of a key admitted than the limit.
THEOREM LimitAlwaysHolds == Spec => []WithinLimit
<1>1. WayIn => WithinLimit
  BY DEF WayIn, LimitInv
<1> QED BY <1>1, IngressInvariant, PTL

\* A call answered 429 had the limit's number of admitted calls of its own key
\* in the window before it.
THEOREM RefusalsAlwaysEarned == Spec => []RefusedOnlyWhenFull
<1>1. WayIn => RefusedOnlyWhenFull
  BY DEF WayIn, LimitInv
<1> QED BY <1>1, IngressInvariant, PTL

\* Of a forwarded call that was answered the gateway prints one response_sent,
\* with the status the client got; none if an exception ended it.
THEOREM AlwaysClosedOnce == Spec => []ClosedOnceAsAnswered
<1>1. WayIn => ClosedOnceAsAnswered
  BY DEF WayIn, EventInv, ToldRight, ClosedOnceAsAnswered
<1> QED BY <1>1, IngressInvariant, PTL

\* A client that reads 400, 401, 403 or 429 can rely on it that the router
\* never saw its call and never will, whatever the Security Layer still does;
\* one that reads 200 from a chat call can rely on it that the router did.
THEOREM RefusalsAlwaysStayOutside == Spec => []RefusalsStayOutside
<1>1. WayIn => RefusalsStayOutside
  BY DEF WayIn, IngressInv, CallInv, StaysOutside, RefusalsStayOutside
<1> QED BY <1>1, IngressInvariant, PTL

\* However many calls the gateway gives up while the Security Layer goes on,
\* a call the router was asked about and that was answered is audited, or will
\* be, or its post fell to a fault.
THEOREM RoutedIsAlwaysAudited == Spec => []RoutedIsAudited
<1>1. WayIn => RoutedIsAudited
  BY DEF WayIn, IngressInv, CallInv, Audited, RoutedIsAudited
<1> QED BY <1>1, IngressInvariant, PTL
================================================================================
