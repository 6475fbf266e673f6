------------------------------- MODULE AuditLog -------------------------------
(***************************************************************************)
(* What the Audit Store promises: a log that only grows, to which the      *)
(* events of a write are added all together or not at all, under ids that  *)
(* are unique, and which holds every write that was acknowledged.          *)
(***************************************************************************)
EXTENDS Integers, Sequences, FiniteSets

CONSTANTS
    Requests,  \* the write requests
    AuditIds   \* ids of audit events

VARIABLES
    ids,   \* the audit_ids of the events of each request
    log,   \* the events in the log: request and position
    acked  \* the requests answered 201

vars == <<ids, log, acked>>

\* Event i of request r is <<r, i>>.
Events(r) == {<<r, i>> : i \in DOMAIN ids[r]}
EventsOf(S) == UNION {Events(r) : r \in S}
IdOf(e) == ids[e[1]][e[2]]
Unique(events) == \A e, f \in events : IdOf(e) = IdOf(f) => e = f

Init ==
    /\ ids \in [Requests -> Seq(AuditIds)]
    /\ log = {}
    /\ acked = {}

\* The events of the requests S are added, of which those in A are
\* acknowledged.
Add(S, A) ==
    /\ A \subseteq S
    /\ EventsOf(S) \cap log = {}
    /\ Unique(log \cup EventsOf(S))
    /\ log' = log \cup EventsOf(S)
    /\ acked' = acked \cup A
    /\ UNCHANGED ids

Next == \E S, A \in SUBSET Requests : Add(S, A)

Spec == Init /\ [][Next]_vars
================================================================================
