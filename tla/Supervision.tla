----------------------------- MODULE Supervision -----------------------------
(***************************************************************************)
(* What the connection supervisor promises (spec 4.1), without dialling,  *)
(* streams, sleeps or goroutines.  The link to the broker is down, up,    *)
(* given up, or given up and surfaced to the owning process.  A failed    *)
(* attempt adds one to the streak of consecutive failures; a successful   *)
(* connection starts a fresh streak and the component reports healthy     *)
(* exactly while it is up; a lost link is retried.  After MaxAttempts     *)
(* failures without a success in between the supervisor gives up, and    *)
(* the fatal error then reaches the process.  Module Lifecycle            *)
(* implements this specification.                                          *)
(***************************************************************************)
EXTENDS Naturals

CONSTANT MaxAttempts

VARIABLES
    link,    \* "down", "up", "gaveUp" or "surfaced"
    streak   \* consecutive failed attempts since the last success

vars == <<link, streak>>

Init ==
    /\ link = "down"
    /\ streak = 0

\* An attempt fails while the budget lasts.
Fail ==
    /\ link = "down" /\ streak < MaxAttempts
    /\ streak' = streak + 1
    /\ UNCHANGED link

\* An attempt succeeds while the budget lasts: the streak starts afresh.
Connect ==
    /\ link = "down" /\ streak < MaxAttempts
    /\ link' = "up"
    /\ streak' = 0

\* The link is lost; it is retried with the whole budget.
Drop ==
    /\ link = "up"
    /\ link' = "down"
    /\ UNCHANGED streak

\* The budget is spent: no further attempt is made.
GiveUp ==
    /\ link = "down" /\ streak = MaxAttempts
    /\ link' = "gaveUp"
    /\ UNCHANGED streak

\* The fatal error reaches the owning process.
Surface ==
    /\ link = "gaveUp"
    /\ link' = "surfaced"
    /\ UNCHANGED streak

Next == Fail \/ Connect \/ Drop \/ GiveUp \/ Surface

Spec == Init /\ [][Next]_vars

=============================================================================
