------------------------------ MODULE ModelPortal ------------------------------
(***************************************************************************)
(* The admin portal in front of the Model Registry: the handler of         *)
(* PATCH /portal/models/{name}/status forwards the change over async_proxy *)
(* and waits for at most five seconds.  Several calls may be under way     *)
(* while the registry takes one after the other, and a call the portal     *)
(* gave up is not taken back.  Registrations, and what other clients ask   *)
(* of the registry, do not pass the portal.  Reads, metrics and wording    *)
(* are left out.                                                           *)
(***************************************************************************)
EXTENDS ModelRegistry

VARIABLES
    asked,   \* the change each call of the portal asks for
    wire,    \* the calls that were sent and that the registry has not taken up
    shown,   \* the status the portal answered each call with, 0 before
    earlier  \* history: the calls that were answered before a call was made

portal == <<asked, wire, shown, earlier>>
portalVars == <<vars, portal>>

Waiting(r) == asked[r] # NoBody /\ shown[r] = 0

\* A change is refused by ModelStatusPatch, or sent to the registry.
Ask(r, b) ==
    /\ b.kind = "patch"
    /\ asked[r] = NoBody /\ body[r] = NoBody
    /\ asked' = [asked EXCEPT ![r] = b]
    /\ earlier' = [earlier EXCEPT ![r] = {q \in Requests : shown[q] # 0}]
    /\ \/ shown' = [shown EXCEPT ![r] = 422] /\ UNCHANGED wire
       \/ wire' = wire \cup {r} /\ UNCHANGED shown
    /\ UNCHANGED vars

\* The registry takes a call up, whether the portal still waits or not.
TakesUp(r) ==
    /\ r \in wire
    /\ Patch(r, asked[r])
    /\ wire' = wire \ {r}
    /\ UNCHANGED <<asked, shown, earlier>>

Shows(r, status) ==
    /\ Waiting(r)
    /\ shown' = [shown EXCEPT ![r] = status]
    /\ UNCHANGED <<vars, asked, earlier>>

\* The answer of the registry is passed on.
PassesOn(r) == reply[r] \notin {0, Lost} /\ Shows(r, reply[r]) /\ UNCHANGED wire

\* httpx.ConnectError: nobody listens.
Refused(r) == ~up /\ r \in wire /\ Shows(r, 502) /\ wire' = wire \ {r}

\* Mutant: the change asked for is shown as made.
GivesUpShowingChange(r) == Shows(r, 200) /\ UNCHANGED wire

\* httpx.TimeoutException: the call stays where it is.
GivesUp(r) == Shows(r, 502) /\ UNCHANGED wire

\* The connection broke: any other error of httpx is not caught.
Broken(r) ==
    /\ r \notin wire /\ job # r /\ reply[r] \in {0, Lost}
    /\ Shows(r, 500)
    /\ UNCHANGED wire

\* What other clients ask for.
Direct(r, b) == asked[r] = NoBody /\ (Create(r, b) \/ Patch(r, b)) /\ UNCHANGED portal

\* The connections of a registry that dies are closed with it.
RegistryDies == Crash /\ wire' = {} /\ UNCHANGED <<asked, shown, earlier>>

RegistrySteps ==
    /\ WriteTmp \/ Replace \/ Reply \/ PersistFails \/ Load \/ Discard \/ LoadFails
    /\ UNCHANGED portal

PortalInit ==
    /\ Init
    /\ asked = [r \in Requests |-> NoBody]
    /\ wire = {}
    /\ shown = [r \in Requests |-> 0]
    /\ earlier = [r \in Requests |-> {}]

PortalNext ==
    \/ \E r \in Requests :
          \/ \E b \in Body : Ask(r, b) \/ Direct(r, b)
          \/ TakesUp(r)
          \/ PassesOn(r) \/ Refused(r) \/ GivesUp(r) \/ Broken(r)
    \/ RegistrySteps \/ RegistryDies

PortalSpec == PortalInit /\ [][PortalNext]_portalVars

(***************************************************************************)
(* Properties                                                              *)
(***************************************************************************)
MadeBy(r, record) == record # Absent /\ record.last = r

\* A change that was asked for after another one of the same model had been
\* shown as made, and was itself shown as made, stays: neither an error, a
\* crash nor a call that was late brings the earlier change back.  (A change
\* that ended with 502 or 500 may still be made at any time.)
LaterChangeStays ==
    ~unread => \A r, q \in Requests :
        /\ shown[r] = 200 /\ shown[q] = 200
        /\ r \in earlier[q] /\ asked[r].name = asked[q].name
        => ~ MadeBy(r, Durable[asked[q].name])
================================================================================
