----------------------------- MODULE Correlation -----------------------------
(***************************************************************************)
(* What the correlation table promises (spec 4.2), without streams,        *)
(* goroutines or channels.  A call registers an entry that expires at      *)
(* now + ttl and then ends exactly once: with a response that arrived for  *)
(* it, with a timeout once its deadline has passed, or with a send or      *)
(* stream failure.  An entry leaves the table when its response arrives,   *)
(* or when a sweep finds it expired by more than the reaper's margin.      *)
(* Module Client implements this specification.                            *)
(***************************************************************************)
EXTENDS Naturals

CONSTANTS
    Reqs,        \* request ids
    MaxTTL,      \* largest TTL of a call
    ReapBuffer,  \* the sweep's safety margin
    MaxTime      \* bound of the clock

\* The ways a call ends.
Outcome == {"response", "timeout", "unavailable", "sendFailed"}

VARIABLES
    now,       \* the clock
    status,    \* status[r]: "idle", "pending" or "done"
    outcome,   \* outcome[r]: how the call ended ("none" before)
    deadline,  \* deadline[r]: the call's start plus its TTL
    table,     \* the requests with an entry in the table
    arrived    \* arrived[r]: a response to r has come in

vars == <<now, status, outcome, deadline, table, arrived>>

Init ==
    /\ now = 0
    /\ status = [r \in Reqs |-> "idle"]
    /\ outcome = [r \in Reqs |-> "none"]
    /\ deadline = [r \in Reqs |-> 0]
    /\ table = {}
    /\ arrived = [r \in Reqs |-> FALSE]

\* register: an entry expiring at now + t.
Call(r, t) ==
    /\ status[r] = "idle"
    /\ status' = [status EXCEPT ![r] = "pending"]
    /\ deadline' = [deadline EXCEPT ![r] = now + t]
    /\ table' = table \cup {r}
    /\ UNCHANGED <<now, outcome, arrived>>

\* A response to a call that was made comes in (any number of times).
Arrive(r) ==
    /\ status[r] # "idle"
    /\ ~arrived[r]
    /\ arrived' = [arrived EXCEPT ![r] = TRUE]
    /\ UNCHANGED <<now, status, outcome, deadline, table>>

\* The call ends once.  A response is handed over only if one arrived; a
\* timeout only once the deadline has passed.
Return(r, o) ==
    /\ status[r] = "pending"
    /\ o = "response" => arrived[r]
    /\ o = "timeout" => now >= deadline[r]
    /\ status' = [status EXCEPT ![r] = "done"]
    /\ outcome' = [outcome EXCEPT ![r] = o]
    /\ UNCHANGED <<now, deadline, table, arrived>>

\* resolve and the sweep: entries whose response arrived, or that expired
\* more than the margin ago, leave the table (several in one sweep).
Remove(S) ==
    /\ S # {}
    /\ S \subseteq {k \in table : arrived[k] \/ now > deadline[k] + ReapBuffer}
    /\ table' = table \ S
    /\ UNCHANGED <<now, status, outcome, deadline, arrived>>

Tick ==
    /\ now < MaxTime
    /\ now' = now + 1
    /\ UNCHANGED <<status, outcome, deadline, table, arrived>>

Next ==
    \/ \E r \in Reqs, t \in 1..MaxTTL : Call(r, t)
    \/ \E r \in Reqs : Arrive(r) \/ \E o \in Outcome : Return(r, o)
    \/ \E S \in SUBSET table : Remove(S)
    \/ Tick

Spec == Init /\ [][Next]_vars
=============================================================================
