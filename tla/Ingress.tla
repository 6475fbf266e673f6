-------------------------------- MODULE Ingress --------------------------------
(***************************************************************************)
(* The way in: the API Gateway (key check, rate limit, chat handler with   *)
(* and without streaming, its events on stdout) and the Security Layer     *)
(* behind it (the checks, the call of the router, the background post of   *)
(* the audit event).  The gateway gives up on a slow Security Layer, which *)
(* goes on regardless.  The router is whatever answers in RouterAnswers.   *)
(* A text is the set of the things the checks look for; the probes, which  *)
(* are exempt from everything, and the log are left out.                   *)
(***************************************************************************)
EXTENDS Integers, Sequences, FiniteSets

CONSTANTS
    Requests,
    Calls,          \* the calls clients make
    Key,            \* GATEWAY_API_KEY
    Limit,          \* RATE_LIMIT_REQUESTS
    Window,         \* RATE_LIMIT_WINDOW_SECONDS
    PiiEnabled,     \* PII_ENABLED
    RouterAnswers,  \* what the router may answer
    MaxTime,        \* bound: the clock
    MaxFaults       \* bound: deaths of the Security Layer, failures of the
                    \* PII engine, posts that are lost

Marks == {"injection", "unsafe", "pii"}
Keys == {c.key : c \in Calls}
Bodies == {"imf", "odd", "empty", "text"}  \* an IMF, other JSON, {}, no JSON

ASSUME IngressAssumption ==
    /\ IsFiniteSet(Requests)
    /\ \A c \in Calls : /\ c.path \in {"chat", "docs"}
                        /\ c.valid \in BOOLEAN /\ c.stream \in BOOLEAN
                        /\ c.text \subseteq Marks
    /\ \A a \in RouterAnswers : a.status \in Nat \ {0} /\ a.body \in Bodies
    \* The router refuses with 400 only what the Security Layer has not cleared,
    \* and never with 403 or 429.
    /\ \A a \in RouterAnswers : a.status \notin {400, 403, 429}
    /\ Limit \in Nat /\ Window \in Nat
    /\ PiiEnabled \in BOOLEAN
    /\ MaxTime \in Nat /\ MaxFaults \in Nat

NoCall == [path |-> "none"]
NoAnswer == [status |-> 0, body |-> "none"]
NotJudged == [at |-> 0, verdict |-> "none"]

VARIABLES
    now,      \* time.time() of the gateway
    call,     \* the call of each request
    at,       \* where the gateway is with it
    reply,    \* the status the client got, 0 before
    store,    \* RateLimitMiddleware._store: the timestamps of each key, with
              \* the request that left each, in no order (none is looked at)
    judged,   \* history: when and how the rate limiter decided
    stdout,   \* the events the gateway printed about each request
    sec,      \* where the Security Layer is with each request
    answer,   \* what it answers
    routed,   \* the texts the router was called with, as a set
    posts,    \* audit posts that are still to run
    trail,    \* audit posts the Audit Store took
    lost,     \* requests whose audit post was lost to a fault
    faults

gateway == <<call, at, reply, store, judged, stdout>>
security == <<sec, answer, routed, posts, trail, lost>>
vars == <<now, gateway, security, faults>>

Fault == faults < MaxFaults /\ faults' = faults + 1

Emit(r, type, status) ==
    stdout' = [stdout EXCEPT ![r] = Append(@, [type |-> type, status |-> status])]

Finish(r, status) ==
    /\ reply' = [reply EXCEPT ![r] = status]
    /\ at' = [at EXCEPT ![r] = "done"]

Goto(r, place) == at' = [at EXCEPT ![r] = place] /\ UNCHANGED reply

(***************************************************************************)
(* The gateway                                                             *)
(***************************************************************************)
Authenticate(r, c) ==
    /\ at[r] = "new"
    /\ call' = [call EXCEPT ![r] = c]
    /\ \/ c.path = "docs" /\ Goto(r, "limit") /\ UNCHANGED stdout
       \/ c.path = "chat" /\ c.key # Key /\ Finish(r, 401) /\ Emit(r, "auth_fail", 401)
       \/ c.path = "chat" /\ c.key = Key /\ Goto(r, "limit") /\ Emit(r, "auth_pass", 0)
    /\ UNCHANGED <<now, store, judged, security, faults>>

\* The timestamps of a key that are still in the window.
Recent(k) == {e \in store[k] : e.time > now - Window}

Stamp(r) == [of |-> r, time |-> now]

\* Mutant: one too many.
HasRoomOffByOne(k) == Cardinality(Recent(k)) <= Limit

HasRoom(k) == Cardinality(Recent(k)) < Limit

\* Mutant: refused calls are recorded as well.
RateLimitCountsRefused(r) ==
    LET k == call[r].key IN
    /\ at[r] = "limit"
    /\ store' = [store EXCEPT ![k] = Recent(k) \cup {Stamp(r)}]
    /\ \/ /\ HasRoom(k)
          /\ Goto(r, "route")
          /\ judged' = [judged EXCEPT ![r] = [at |-> now, verdict |-> "admitted"]]
          /\ UNCHANGED stdout
       \/ /\ ~HasRoom(k)
          /\ Finish(r, 429) /\ Emit(r, "rate_limited", 429)
          /\ judged' = [judged EXCEPT ![r] = [at |-> now, verdict |-> "refused"]]
    /\ UNCHANGED <<now, call, security, faults>>

RateLimit(r) ==
    LET k == call[r].key IN
    /\ at[r] = "limit"
    /\ \/ /\ HasRoom(k)
          /\ store' = [store EXCEPT ![k] = Recent(k) \cup {Stamp(r)}]
          /\ Goto(r, "route")
          /\ judged' = [judged EXCEPT ![r] = [at |-> now, verdict |-> "admitted"]]
          /\ UNCHANGED stdout
       \/ /\ ~HasRoom(k)
          /\ Finish(r, 429) /\ Emit(r, "rate_limited", 429)
          /\ judged' = [judged EXCEPT ![r] = [at |-> now, verdict |-> "refused"]]
          /\ UNCHANGED store
    /\ UNCHANGED <<now, call, security, faults>>

\* The IMF is built and posted to the Security Layer.
Forward(r) ==
    /\ at[r] = "route" /\ call[r].path = "chat" /\ call[r].valid
    /\ Goto(r, "waiting")
    /\ Emit(r, "request_received", 0)
    /\ sec' = [sec EXCEPT ![r] = "received"]
    /\ UNCHANGED <<now, call, store, judged, answer, routed, posts, trail, lost, faults>>

\* The documentation pages, and bodies that are not valid.
AnswerAtOnce(r) ==
    /\ at[r] = "route"
    /\ \/ call[r].path = "docs" /\ Finish(r, 200)
       \/ call[r].path = "chat" /\ ~call[r].valid /\ Finish(r, 400)
    /\ UNCHANGED <<now, call, store, judged, stdout, security, faults>>

Close(r, status) == Finish(r, status) /\ Emit(r, "response_sent", status)

\* Mutant: a Security Layer that is too slow is reported as overload.
GiveUpBusy(r) ==
    /\ at[r] = "waiting"
    /\ Close(r, 429)
    /\ UNCHANGED <<now, call, store, judged, security, faults>>

\* No answer within DOWNSTREAM_TIMEOUT_SECONDS, or no connection.
GiveUp(r) ==
    /\ at[r] = "waiting"
    /\ Close(r, 502)
    /\ UNCHANGED <<now, call, store, judged, security, faults>>

Answered(r) == at[r] = "waiting" /\ sec[r] = "answered"

\* Mutant: the event of a relayed block tells 502 as that of an error does.
RelayMiscounted(r) ==
    /\ Answered(r) /\ ~call[r].stream
    /\ LET a == answer[r] IN
       \/ a.status \in {400, 403, 429} /\ Finish(r, a.status) /\ Emit(r, "response_sent", 502)
       \/ a.status = 200 /\ a.body = "imf" /\ Close(r, 200)
       \/ a.status = 200 /\ a.body # "imf" /\ Finish(r, 500) /\ UNCHANGED stdout
       \/ a.status \notin {200, 400, 403, 429} /\ Close(r, 502)
    /\ UNCHANGED <<now, call, store, judged, security, faults>>

\* forward_to_security: blocks are relayed, every other error becomes 502; an
\* answer that is JSON but no IMF is an exception nothing catches.
Relay(r) ==
    /\ Answered(r) /\ ~call[r].stream
    /\ LET a == answer[r] IN
       \/ a.status \in {400, 403, 429} /\ Close(r, a.status)
       \/ a.status = 200 /\ a.body = "imf" /\ Close(r, 200)
       \/ a.status = 200 /\ a.body # "imf" /\ Finish(r, 500) /\ UNCHANGED stdout
       \/ a.status \notin {200, 400, 403, 429} /\ Close(r, 502)
    /\ UNCHANGED <<now, call, store, judged, security, faults>>

\* Mutant: a stream is refused with the status of the Security Layer.
OpenStreamRelays(r) ==
    /\ Answered(r) /\ call[r].stream
    /\ \/ answer[r].status # 200 /\ Close(r, answer[r].status)
       \/ answer[r].status = 200 /\ Goto(r, "streaming") /\ UNCHANGED stdout
    /\ UNCHANGED <<now, call, store, judged, security, faults>>

\* client.stream: the handler returns a StreamingResponse from inside the
\* async with, which closes the downstream response on the way out.
OpenStream(r) ==
    /\ Answered(r) /\ call[r].stream
    /\ \/ answer[r].status # 200 /\ Close(r, 502)
       \/ /\ answer[r].status = 200
          /\ reply' = [reply EXCEPT ![r] = 200]
          /\ at' = [at EXCEPT ![r] = "streaming"]
          /\ UNCHANGED stdout
    /\ UNCHANGED <<now, call, store, judged, security, faults>>

\* stream_generator meets a response that is closed: StreamClosed.
Stream(r) ==
    /\ at[r] = "streaming"
    /\ Goto(r, "done")
    /\ Emit(r, "response_sent", 502)
    /\ UNCHANGED <<now, call, store, judged, security, faults>>

(***************************************************************************)
(* The Security Layer                                                      *)
(***************************************************************************)
\* The gateway calls in this role.
Roles == {"developer"}
AllowedRoles == {"developer", "analyst", "admin"}
CheckPolicy(roles) == roles \cap AllowedRoles # {}

Masked(text) == IF PiiEnabled THEN text \ {"pii"} ELSE text

\* run_pre_pipeline: the status a text is blocked with, 0 if it passes.
BlockStatus(text) ==
    CASE "injection" \in text \/ "unsafe" \in text -> 400
      [] ~CheckPolicy(Roles)                       -> 403
      [] OTHER                                     -> 0

Reply(r, status, body) ==
    /\ answer' = [answer EXCEPT ![r] = [status |-> status, body |-> body]]
    /\ sec' = [sec EXCEPT ![r] = "answered"]

\* A block is raised as an HTTPException, and the background tasks of a
\* handler that raises are never run.
Block(r) ==
    /\ BlockStatus(call[r].text) # 0
    /\ Reply(r, BlockStatus(call[r].text), "odd")
    /\ UNCHANGED <<routed, posts, faults>>

Pass(r) ==
    /\ BlockStatus(call[r].text) = 0
    /\ sec' = [sec EXCEPT ![r] = "routing"]
    /\ routed' = [routed EXCEPT ![r] = {Masked(call[r].text)}]
    /\ UNCHANGED <<answer, posts, faults>>

\* The PII engine raises: only where it is reached.
MaskFails(r) ==
    /\ PiiEnabled /\ call[r].text \cap {"injection", "unsafe"} = {}
    /\ Fault
    /\ Reply(r, 500, "text")
    /\ UNCHANGED <<routed, posts>>

PreCheck(r) ==
    /\ sec[r] = "received"
    /\ Block(r) \/ Pass(r) \/ MaskFails(r)
    /\ UNCHANGED <<now, gateway, trail, lost>>

\* forward_to_router: the answers that are returned, with the audit post as
\* a background task of the response ...
Relayed(a) ==
    IF a.status < 300 /\ a.body \in {"empty", "text"}
    THEN [status |-> 502, body |-> "odd"]
    ELSE a

Timeout == [status |-> 504, body |-> "odd"]
Refused == [status |-> 502, body |-> "odd"]

\* ... and those that end in an exception nothing catches, and no post.
Raises(a) == a.status >= 300 /\ a.body = "text"

\* Mutant: the post is queued for answers of the router only.
RouterReturnsUnposted(r, a) ==
    /\ sec[r] = "routing" /\ ~Raises(a)
    /\ Reply(r, Relayed(a).status, Relayed(a).body)
    /\ posts' = IF a \in RouterAnswers THEN posts \cup {r} ELSE posts
    /\ UNCHANGED <<now, gateway, routed, trail, lost, faults>>

RouterReturns(r, a) ==
    /\ sec[r] = "routing" /\ ~Raises(a)
    /\ Reply(r, Relayed(a).status, Relayed(a).body)
    /\ posts' = posts \cup {r}
    /\ UNCHANGED <<now, gateway, routed, trail, lost, faults>>

RouterRaises(r) ==
    /\ sec[r] = "routing"
    /\ Reply(r, 500, "text")
    /\ UNCHANGED <<now, gateway, routed, posts, trail, lost, faults>>

\* post_audit_event, once, with the failure logged and forgotten.
Post(r) ==
    /\ r \in posts
    /\ posts' = posts \ {r}
    /\ \/ trail' = trail \cup {r} /\ UNCHANGED <<lost, faults>>
       \/ Fault /\ lost' = lost \cup {r} /\ UNCHANGED trail
    /\ UNCHANGED <<now, gateway, sec, answer, routed>>

\* The process of the Security Layer dies and comes back: handlers and
\* background tasks are gone, their callers get a connection error.
SecurityCrash ==
    LET running == {r \in Requests : sec[r] \in {"received", "routing"}} IN
    /\ running \cup posts # {}
    /\ Fault
    /\ sec' = [r \in Requests |-> IF r \in running THEN "dead" ELSE sec[r]]
    /\ lost' = lost \cup posts \cup running
    /\ posts' = {}
    /\ UNCHANGED <<now, gateway, answer, routed, trail>>

(***************************************************************************)
(* The system                                                              *)
(***************************************************************************)
Tick == now < MaxTime /\ now' = now + 1 /\ UNCHANGED <<gateway, security, faults>>

Init ==
    /\ now = 0
    /\ call = [r \in Requests |-> NoCall]
    /\ at = [r \in Requests |-> "new"]
    /\ reply = [r \in Requests |-> 0]
    /\ store = [k \in Keys |-> {}]
    /\ judged = [r \in Requests |-> NotJudged]
    /\ stdout = [r \in Requests |-> << >>]
    /\ sec = [r \in Requests |-> "none"]
    /\ answer = [r \in Requests |-> NoAnswer]
    /\ routed = [r \in Requests |-> {}]
    /\ posts = {} /\ trail = {} /\ lost = {}
    /\ faults = 0

Gateway(r) ==
    \/ RateLimit(r) \/ Forward(r) \/ AnswerAtOnce(r)
    \/ GiveUp(r) \/ Relay(r) \/ OpenStream(r) \/ Stream(r)

Security(r) ==
    \/ PreCheck(r)
    \/ \E a \in RouterAnswers \cup {Timeout, Refused} : RouterReturns(r, a)
    \/ RouterRaises(r)
    \/ Post(r)

Next ==
    \/ \E r \in Requests, c \in Calls : Authenticate(r, c)
    \/ \E r \in Requests : Gateway(r) \/ Security(r)
    \/ SecurityCrash
    \/ Tick

Spec == Init /\ [][Next]_vars

(***************************************************************************)
(* Properties                                                              *)
(***************************************************************************)
Statuses == {200, 400, 401, 403, 429, 500, 502}
Places == {"new", "limit", "route", "waiting", "streaming", "done"}
EventTypes == {"auth_fail", "auth_pass", "rate_limited", "request_received", "response_sent"}
Event == [type : EventTypes, status : Statuses \cup {0}]

TypeOK ==
    /\ now \in 0..MaxTime
    /\ call \in [Requests -> Calls \cup {NoCall}]
    /\ at \in [Requests -> Places]
    /\ reply \in [Requests -> Statuses \cup {0}]
    /\ store \in [Keys -> SUBSET [of : Requests, time : 0..MaxTime]]
    /\ judged \in [Requests -> [at : 0..MaxTime, verdict : {"none", "admitted", "refused"}]]
    /\ stdout \in [Requests -> Seq(Event)]
    /\ sec \in [Requests -> {"none", "received", "routing", "answered", "dead"}]
    /\ answer \in [Requests -> [status : Nat, body : Bodies \cup {"none"}]]
    /\ routed \in [Requests -> SUBSET SUBSET Marks]
    /\ posts \subseteq Requests /\ trail \subseteq Requests /\ lost \subseteq Requests
    /\ faults \in 0..MaxFaults

\* The calls of a key the rate limiter admitted in the window that ends at t.
AdmittedIn(k, t) ==
    {r \in Requests : /\ judged[r].verdict = "admitted" /\ call[r].key = k
                      /\ judged[r].at > t - Window /\ judged[r].at <= t}

\* In no window, wherever it begins, are more than Limit calls of a key
\* admitted, although the store forgets timestamps while calls are made.
WithinLimit ==
    \A k \in Keys, t \in 0..MaxTime : Cardinality(AdmittedIn(k, t)) <= Limit

\* A call is answered 429 only if Limit calls of its own key were admitted in
\* the window before it: calls refused, for their key or for their number,
\* use up nothing.
RefusedOnlyWhenFull ==
    \A r \in Requests : judged[r].verdict = "refused" =>
        Cardinality(AdmittedIn(call[r].key, judged[r].at)) >= Limit

\* Where in the output about r the events of a type stand.
EventsOf(r, type) == {i \in DOMAIN stdout[r] : stdout[r][i].type = type}

\* r is closed by one response_sent, and that tells the status.
ClosedOnce(r, status) ==
    \E i \in DOMAIN stdout[r] :
        EventsOf(r, "response_sent") = {i} /\ stdout[r][i].status = status

\* Every chat call that was forwarded is closed by exactly one response_sent,
\* with the status the client got; one that ended in an exception by none.
\* Late answers of the Security Layer add nothing.
ClosedOnceAsAnswered ==
    \A r \in Requests :
        at[r] = "done" /\ EventsOf(r, "request_received") # {} /\ ~call[r].stream =>
            IF reply[r] = 500 THEN EventsOf(r, "response_sent") = {}
                              ELSE ClosedOnce(r, reply[r])

\* A client that reads 400, 401, 403 or 429 can rely on it that the router
\* never saw the call, now or later, and one that reads 200 from a chat call
\* that it did.
RefusalsStayOutside ==
    \A r \in Requests :
        /\ reply[r] \in {400, 401, 403, 429} => routed[r] = {} /\ sec[r] \in {"none", "answered"}
        /\ reply[r] = 200 /\ call[r].path = "chat" => routed[r] # {}

\* Once the Security Layer has answered for a call the router was asked
\* about, its audit post is in the trail or still to run, whether or not the
\* gateway waited for the answer, unless the handler raised or a fault took it.
RoutedIsAudited ==
    \A r \in Requests :
        sec[r] = "answered" /\ routed[r] # {} /\ answer[r].status # 500 =>
            r \in posts \cup trail \cup lost

(***************************************************************************)
(* What the documents of the repository say and the code does not do       *)
(***************************************************************************)
\* chat.py: the downstream response "stay[s] open while stream_generator is
\* consuming bytes": a stream the Security Layer answered with 200 is closed
\* by an event with status 200.
StreamsComplete ==
    \A r \in Requests :
        at[r] = "done" /\ call[r].path = "chat" /\ call[r].stream /\ reply[r] = 200 =>
            ClosedOnce(r, 200)
================================================================================
