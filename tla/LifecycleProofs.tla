--------------------------- MODULE LifecycleProofs ---------------------------
(***************************************************************************)
(* Proofs about the supervisor and worker pool of module Lifecycle.        *)
(***************************************************************************)
EXTENDS Lifecycle, FiniteSetTheorems, TLAPS

USE LifecycleAssumption

(***************************************************************************)
(* The attempt counter and the failure history agree whenever the Start    *)
(* goroutine is outside a registered run: Registered clears the history    *)
(* but not the counter, and StreamLost clears the counter.  A run starts   *)
(* only below the budget, so the counter never passes it.  The health     *)
(* flag is set exactly while a registered stream is read.                  *)
(***************************************************************************)
BudgetInv ==
    /\ spc \in {"dial", "register"} => attempt < MaxAttempts
    /\ spc # "recv" => attempt = fails
    /\ spc = "recv" => fails = 0
    /\ spc \in {"fatal", "closed"} => attempt = MaxAttempts
    /\ pending <= received
    /\ healthy <=> spc = "recv"

LInv == TypeOK /\ BudgetInv

LEMMA InitLInv == Init => LInv
  <1> SUFFICES ASSUME Init PROVE LInv
    OBVIOUS
  <1>1. NumWorkers \in Nat
    BY FS_CardinalityType DEF NumWorkers
  <1>2. wpc \in [Workers -> {"select", "busy", "gotErr", "gotNil", "done"}]
    BY DEF Init
  <1>3. TypeOK
    <2>1. spc \in SupState /\ healthy \in BOOLEAN /\ startErr \in {"unset", "err", "nil"}
      BY DEF Init, SupState
    <2>2. /\ attempt \in 0..MaxAttempts /\ fails \in 0..MaxAttempts + 1
          /\ conns \in 0..MaxConn /\ received \in 0..MaxReqs
          /\ pending \in 0..MaxReqs
      BY DEF Init
    <2>3. wg \in Int
      BY <1>1 DEF Init
    <2>4. QED
      BY <1>2, <2>1, <2>2, <2>3 DEF TypeOK
  <1>4. BudgetInv
    BY DEF Init, BudgetInv
  <1>5. QED
    BY <1>3, <1>4 DEF LInv

LEMMA NextLInv == LInv /\ [Next]_vars => LInv'
  <1> SUFFICES ASSUME LInv, [Next]_vars PROVE LInv'
    OBVIOUS
  <1> USE DEF LInv, TypeOK, BudgetInv, SupState
  <1>1. CASE DialFail
    BY <1>1 DEF DialFail, CountFail, kitVars
  <1>2. CASE Subscribed
    BY <1>2 DEF Subscribed, kitVars
  <1>3. CASE RegisterFail
    <2>1. attempt < MaxAttempts /\ fails = attempt
      BY <1>3 DEF RegisterFail
    <2>2. attempt' = attempt + 1 /\ fails' = fails + 1
      BY <1>3, <2>1 DEF RegisterFail, CountFail
    <2>3. spc' = "sleep" /\ healthy' = FALSE
          /\ UNCHANGED <<conns, received, pending, wpc, wg, startErr>>
      BY <1>3 DEF RegisterFail, kitVars
    <2>4. healthy' \in BOOLEAN
      BY <2>3, Zenon
    <2>5. TypeOK'
      BY <2>1, <2>2, <2>3, <2>4
    <2>6. BudgetInv'
      BY <2>1, <2>2, <2>3
    <2>7. QED
      BY <2>5, <2>6
  <1>4. CASE Registered
    BY <1>4 DEF Registered, kitVars
  <1>5. CASE RecvRequest
    BY <1>5 DEF RecvRequest, supVars, kitVars
  <1>6. CASE StreamLost
    <2>1. fails = 0 /\ attempt' = 0 /\ spc' = "sleep" /\ healthy' = FALSE
          /\ UNCHANGED <<fails, conns, received, pending, wpc, wg, startErr>>
      BY <1>6 DEF StreamLost, kitVars
    <2>2. healthy' \in BOOLEAN
      BY <2>1, Zenon
    <2>3. TypeOK'
      BY <2>1, <2>2
    <2>4. BudgetInv'
      BY <2>1
    <2>5. QED
      BY <2>3, <2>4
  <1>7. CASE Wake
    BY <1>7, SMTT(30) DEF Wake, kitVars
  <1>8. ASSUME NEW w \in Workers, TakeReq(w) PROVE LInv'
    BY <1>8 DEF TakeReq, supVars
  <1>9. ASSUME NEW w \in Workers, FinishReq(w) PROVE LInv'
    BY <1>9 DEF FinishReq, supVars
  <1>10. ASSUME NEW w \in Workers, TakeErr(w) PROVE LInv'
    BY <1>10 DEF TakeErr
  <1>11. ASSUME NEW w \in Workers, TakeClosed(w) PROVE LInv'
    BY <1>11 DEF TakeClosed, supVars
  <1>12. ASSUME NEW w \in Workers, WorkerReturn(w) PROVE LInv'
    BY <1>12 DEF WorkerReturn, supVars
  <1>13. CASE UNCHANGED vars
    BY <1>13 DEF vars
  <1>14. QED
    BY <1>1, <1>2, <1>3, <1>4, <1>5, <1>6, <1>7, <1>8, <1>9, <1>10,
       <1>11, <1>12, <1>13 DEF Next

LEMMA LInvSpec == Spec => []LInv
  BY InitLInv, NextLInv, PTL DEF Spec

\* Every reachable state of the supervisor and the pool is well typed: the
\* attempt counter stays within 0..maxAttempts and no recvReq goroutine is
\* taken from recvCh that was never started.
THEOREM LifecycleTypeCorrect == Spec => []TypeOK
  <1>1. LInv => TypeOK
    BY DEF LInv
  <1>2. QED
    BY <1>1, LInvSpec, PTL

\* For every maxAttempts, Start surfaces the fatal error after exactly
\* maxAttempts consecutive failed runs, the reset after a registered run
\* included.
THEOREM BudgetExact == Spec => []FatalAfterBudget
  <1>1. LInv => FatalAfterBudget
    BY DEF LInv, BudgetInv, FatalAfterBudget
  <1>2. QED
    BY <1>1, LInvSpec, PTL

\* Spec 4.1: Start's attempt counter is reset only after a successful
\* connection.  Only the return 0 of a registered run's receive loop
\* lowers it, and c.healthy is true until that run's deferred
\* healthy.Store(false), for every maxAttempts.
THEOREM ResetOnlyAfterConnection == Spec => AttemptResetOnlyAfterConnection
  \* No step but StreamLost lowers the counter: a failed run adds one and
  \* every other step leaves it alone.
  <1>1. ASSUME LInv, [Next]_vars, ~StreamLost
        PROVE  attempt' \in Int /\ attempt' >= attempt
    <2> USE DEF LInv, TypeOK
    <2>1. CASE DialFail \/ RegisterFail
      BY <1>1, <2>1 DEF DialFail, RegisterFail
    <2>2. CASE Subscribed \/ Registered \/ RecvRequest \/ Wake
      BY <1>1, <2>2 DEF Subscribed, Registered, RecvRequest, Wake, supVars
    <2>3. ASSUME NEW w \in Workers,
                 \/ TakeReq(w) \/ FinishReq(w) \/ TakeErr(w)
                 \/ TakeClosed(w) \/ WorkerReturn(w)
          PROVE  attempt' = attempt
      BY <1>1, <2>3 DEF TakeReq, FinishReq, TakeErr, TakeClosed, WorkerReturn,
                  supVars
    <2>4. QED
      BY <1>1, <2>1, <2>2, <2>3 DEF Next, vars
  \* StreamLost ends a registered run, during which c.healthy is set.
  <1>2. ASSUME LInv, StreamLost PROVE healthy /\ ~healthy'
    BY <1>2 DEF LInv, BudgetInv, StreamLost
  <1>3. LInv /\ [Next]_vars => [attempt' < attempt => healthy /\ ~healthy']_vars
    <2> SUFFICES ASSUME LInv, [Next]_vars, attempt' < attempt
                 PROVE  healthy /\ ~healthy'
      OBVIOUS
    <2>1. CASE StreamLost
      BY <1>2, <2>1
    <2>2. CASE ~StreamLost
      <3>1. attempt' \in Int /\ attempt' >= attempt
        BY <1>1, <2>2
      <3>2. attempt \in Int
        BY DEF LInv, TypeOK
      <3>3. QED
        BY <3>1, <3>2
    <2>3. QED
      BY <2>1, <2>2
  <1>4. QED
    BY <1>3, LInvSpec, PTL DEF AttemptResetOnlyAfterConnection, Spec

-----------------------------------------------------------------------------
(***************************************************************************)
(* Refinement of the supervision contract (module Supervision).  The link *)
(* is read off c.healthy and the place of the Start goroutine, the streak *)
(* off the attempt counter; BudgetInv supplies the guards the contract    *)
(* puts on Fail, Connect and GiveUp, and that c.healthy is set exactly in *)
(* the receive loop.                                                       *)
(***************************************************************************)

LEMMA InitRefinesSup == Init => Sup!Init
  BY DEF Init, Sup!Init, SupLink

\* Each step of the supervisor is a step of the contract or leaves the
\* link and the streak as they were.
LEMMA NextRefinesSup == LInv /\ [Next]_vars => [Sup!Next]_Sup!vars
  <1> SUFFICES ASSUME LInv, [Next]_vars PROVE [Sup!Next]_Sup!vars
    OBVIOUS
  <1> USE DEF LInv, TypeOK, BudgetInv
  \* A failed dial or handshake is a failed attempt.
  <1>1. CASE DialFail \/ RegisterFail
    <2>1. /\ spc \in {"dial", "register"} /\ spc' = "sleep"
          /\ attempt' = attempt + 1 /\ ~healthy'
      BY <1>1 DEF DialFail, RegisterFail
    <2>2. ~healthy /\ attempt < MaxAttempts
      BY <2>1
    <2>3. SupLink = "down" /\ SupLink' = "down"
      BY <2>1, <2>2 DEF SupLink
    <2>4. Sup!Fail
      BY <2>1, <2>2, <2>3 DEF Sup!Fail
    <2>5. QED
      BY <2>4 DEF Sup!Next
  \* The first Recv returns: the link is up and the streak starts afresh.
  <1>2. CASE Registered
    <2>1. Sup!Connect
      BY <1>2 DEF Registered, Sup!Connect, SupLink
    <2>2. QED
      BY <2>1 DEF Sup!Next
  \* The receive loop ends: c.healthy is cleared and the counter reset.
  <1>3. CASE StreamLost
    <2>1. Sup!Drop
      BY <1>3 DEF StreamLost, Sup!Drop, SupLink
    <2>2. QED
      BY <2>1 DEF Sup!Next
  \* The loop condition fails once the budget is spent: Start gives up;
  \* otherwise the next run begins and the contract sees no change.
  <1>4. CASE Wake
    <2>1. CASE attempt < MaxAttempts
      BY <1>4, <2>1 DEF Wake, Sup!vars, SupLink
    <2>2. CASE ~(attempt < MaxAttempts)
      <3>1. Sup!GiveUp
        BY <1>4, <2>2 DEF Wake, Sup!GiveUp, SupLink
      <3>2. QED
        BY <3>1 DEF Sup!Next
    <2>3. QED
      BY <2>1, <2>2
  \* A worker takes the error from errCh: the error is surfaced.
  <1>5. ASSUME NEW w \in Workers, TakeErr(w) PROVE Sup!Surface
    BY <1>5 DEF TakeErr, Sup!Surface, SupLink
  \* Subscribing, reading a request and the rest of the pool's work leave
  \* c.healthy, the place that matters and the counter alone.
  <1>6. CASE Subscribed \/ RecvRequest
    <2>1. /\ spc' \in {spc, "register"} /\ spc # "fatal" /\ spc # "closed"
          /\ healthy' = healthy /\ attempt' = attempt
      BY <1>6 DEF Subscribed, RecvRequest, supVars
    <2>2. QED
      BY <2>1 DEF Sup!vars, SupLink
  <1>7. ASSUME NEW w \in Workers,
               TakeReq(w) \/ FinishReq(w) \/ TakeClosed(w) \/ WorkerReturn(w)
        PROVE  UNCHANGED Sup!vars
    <2>1. spc' = spc /\ healthy' = healthy /\ attempt' = attempt
      BY <1>7 DEF TakeReq, FinishReq, TakeClosed, WorkerReturn, supVars
    <2>2. QED
      BY <2>1 DEF Sup!vars, SupLink
  <1>8. CASE UNCHANGED vars
    BY <1>8 DEF vars, Sup!vars, SupLink
  <1>9. QED
    BY <1>1, <1>2, <1>3, <1>4, <1>5, <1>6, <1>7, <1>8 DEF Next, Sup!Next

\* Spec 4.1, for every maxAttempts and number of workers: Start and run
\* implement the supervision contract.  A failed run adds one to the
\* streak, a registration sets c.healthy and starts a fresh streak, a lost
\* stream clears c.healthy in the same step and is retried with the whole
\* budget, and the fatal error is sent, and reaches a worker, only after
\* maxAttempts failures with no registration in between.
THEOREM SupervisionRefined == Spec => ImplementsSupervision
  <1>1. Spec => []LInv /\ [][Next]_vars
    BY LInvSpec, PTL DEF Spec
  <1>2. QED
    BY <1>1, InitRefinesSup, NextRefinesSup, PTL
       DEF Spec, ImplementsSupervision, Sup!Spec

=============================================================================
