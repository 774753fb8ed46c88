------------------------------ MODULE Lifecycle ------------------------------
(***************************************************************************)
(* The connection supervisor of grpc.Client (Start and run in              *)
(* src/grpc/client.go) together with the worker pool of kit.start          *)
(* (src/kit/kit.go), which it feeds through two unbuffered channels:       *)
(* recvCh carries inbound requests (one go c.recvReq goroutine each) and   *)
(* errCh the fatal error, sent once after MaxAttempts consecutive failed   *)
(* runs and then closed.  kit.start waits on a sync.WaitGroup for the      *)
(* workers and returns the err variable they share.                        *)
(***************************************************************************)
EXTENDS Naturals, Integers, FiniteSets

CONSTANTS
    Workers,      \* the worker goroutines (numWorkers of them)
    MaxAttempts,  \* maxAttempts passed to Start (5 in kit.go)
    MaxConn,      \* bound on successful subscriptions
    MaxReqs       \* bound on inbound REQUEST envelopes

ASSUME LifecycleAssumption ==
    /\ IsFiniteSet(Workers) /\ Workers # {}
    /\ MaxAttempts \in Nat \ {0}
    /\ MaxConn \in Nat
    /\ MaxReqs \in Nat

\* Where the goroutine running Start is.
SupState == {"dial", "register", "recv", "sleep", "fatal", "closed"}

VARIABLES
    spc,       \* the Start goroutine's place
    attempt,   \* Start's attempt counter
    fails,     \* history: runs that failed since the last registration
    healthy,   \* c.healthy
    conns,     \* subscriptions made so far (each replaces c.brk)
    received,  \* REQUEST envelopes read by the receive loop
    pending,   \* go c.recvReq goroutines blocked on recvCh <- req
    wpc,       \* wpc[w]: "select", "busy" (in svc.recvReq), received, "done"
    wg,        \* the WaitGroup counter of kit.start
    startErr   \* the err variable of kit.start: "unset", "err" or "nil"

vars == <<spc, attempt, fails, healthy, conns, received, pending, wpc, wg,
          startErr>>

supVars  == <<spc, attempt, fails, healthy, conns>>
kitVars  == <<wpc, wg, startErr>>

NumWorkers == Cardinality(Workers)

TypeOK ==
    /\ spc \in SupState
    /\ attempt \in 0..MaxAttempts
    /\ fails \in 0..MaxAttempts + 1
    /\ healthy \in BOOLEAN
    /\ conns \in 0..MaxConn
    /\ received \in 0..MaxReqs
    /\ pending \in 0..MaxReqs
    /\ wpc \in [Workers -> {"select", "busy", "gotErr", "gotNil", "done"}]
    /\ wg \in Int
    /\ startErr \in {"unset", "err", "nil"}

\* kit.start: go Start(...); wg.Add(numWorkers); then, per worker,
\* wg.Add(1) and go worker.  The Start goroutine begins its first run.
Init ==
    /\ spc = "dial"
    /\ attempt = 0
    /\ fails = 0
    /\ healthy = FALSE
    /\ conns = 0
    /\ received = 0
    /\ pending = 0
    /\ wpc = [w \in Workers |-> "select"]
    /\ wg = NumWorkers + NumWorkers
    /\ startErr = "unset"

\* The history counter of failed runs, kept finite one above the budget.
CountFail(n) == IF n > MaxAttempts THEN n ELSE n + 1

-----------------------------------------------------------------------------
(* The Start goroutine: for attempt < maxAttempts { run; sleep }.          *)

\* Mutant: a failed dial returns retry, not retry + 1.
DialFailNoCount ==
    /\ spc = "dial"
    /\ spc' = "sleep"
    /\ fails' = CountFail(fails)
    /\ UNCHANGED <<attempt, healthy, conns, received, pending, kitVars>>

\* run: loading the CA, Dial or Subscribe fails: return retry + 1.
DialFail ==
    /\ spc = "dial"
    /\ spc' = "sleep"
    /\ attempt' = attempt + 1
    /\ fails' = CountFail(fails)
    /\ UNCHANGED <<healthy, conns, received, pending, kitVars>>

\* run: Subscribe succeeds and c.brk is replaced by the new stream.
Subscribed ==
    /\ spc = "dial"
    /\ conns < MaxConn
    /\ spc' = "register"
    /\ conns' = conns + 1
    /\ UNCHANGED <<attempt, fails, healthy, received, pending, kitVars>>

\* Mutant: a failed handshake returns 0, as the receive loop does.
RegisterFailReset ==
    /\ spc = "register"
    /\ spc' = "sleep"
    /\ attempt' = 0
    /\ fails' = CountFail(fails)
    /\ healthy' = FALSE
    /\ UNCHANGED <<conns, received, pending, kitVars>>

\* run: sending the REGISTER event or the first Recv fails: return
\* retry + 1 (the deferred healthy.Store(false) and conn.Close run).
RegisterFail ==
    /\ spc = "register"
    /\ spc' = "sleep"
    /\ attempt' = attempt + 1
    /\ fails' = CountFail(fails)
    /\ healthy' = FALSE
    /\ UNCHANGED <<conns, received, pending, kitVars>>

\* run: the first Recv returns (any event is taken as the broker's answer);
\* healthy.Store(true) and the receive loop begins.
Registered ==
    /\ spc = "register"
    /\ spc' = "recv"
    /\ healthy' = TRUE
    /\ fails' = 0
    /\ UNCHANGED <<attempt, conns, received, pending, kitVars>>

\* The receive loop reads a REQUEST and starts go c.recvReq, which blocks
\* until a worker takes it from recvCh.  (RESPONSEs: module Client.)
RecvRequest ==
    /\ spc = "recv"
    /\ received < MaxReqs
    /\ received' = received + 1
    /\ pending' = pending + 1
    /\ UNCHANGED <<supVars, kitVars>>

\* Mutant: a run that registered returns retry + 1 instead of 0.
StreamLostNoReset ==
    /\ spc = "recv"
    /\ spc' = "sleep"
    /\ attempt' = attempt + 1
    /\ healthy' = FALSE
    /\ UNCHANGED <<fails, conns, received, pending, kitVars>>

\* Recv fails or the stream context is done: return 0 (retry count reset
\* after a successful connection); healthy is cleared by the defer.
StreamLost ==
    /\ spc = "recv"
    /\ spc' = "sleep"
    /\ attempt' = 0
    /\ healthy' = FALSE
    /\ UNCHANGED <<fails, conns, received, pending, kitVars>>

\* After the jittered sleep the loop condition attempt < maxAttempts is
\* tested: run again, or leave the loop to send the error on errCh.
Wake ==
    /\ spc = "sleep"
    /\ spc' = IF attempt < MaxAttempts THEN "dial" ELSE "fatal"
    /\ UNCHANGED <<attempt, fails, healthy, conns, received, pending, kitVars>>

-----------------------------------------------------------------------------
(* The workers of kit.start: select { req := <-Req() | err = <-Err() }.    *)

\* Mutant: a worker that does not wait for a request to be sent.
TakeReqUnguarded(w) ==
    /\ wpc[w] = "select"
    /\ pending' = pending - 1
    /\ wpc' = [wpc EXCEPT ![w] = "busy"]
    /\ UNCHANGED <<supVars, received, wg, startErr>>

\* A worker takes a request from recvCh and runs svc.recvReq.
TakeReq(w) ==
    /\ wpc[w] = "select"
    /\ pending > 0
    /\ pending' = pending - 1
    /\ wpc' = [wpc EXCEPT ![w] = "busy"]
    /\ UNCHANGED <<supVars, received, wg, startErr>>

\* svc.recvReq returns (handler run, response or error sent).
FinishReq(w) ==
    /\ wpc[w] = "busy"
    /\ wpc' = [wpc EXCEPT ![w] = "select"]
    /\ UNCHANGED <<supVars, received, pending, wg, startErr>>

\* A worker receives the fatal error: c.errCh <- err meets <-Err(); Start
\* then closes errCh.
TakeErr(w) ==
    /\ wpc[w] = "select"
    /\ spc = "fatal"
    /\ spc' = "closed"
    /\ wpc' = [wpc EXCEPT ![w] = "gotErr"]
    /\ UNCHANGED <<attempt, fails, healthy, conns, received, pending, wg,
                   startErr>>

\* A worker receives from the closed errCh: the zero value nil.
TakeClosed(w) ==
    /\ wpc[w] = "select"
    /\ spc = "closed"
    /\ wpc' = [wpc EXCEPT ![w] = "gotNil"]
    /\ UNCHANGED <<supVars, received, pending, wg, startErr>>

\* The worker assigns what it received to the err shared by all workers
\* (unsynchronised writes: whichever comes last stays), logs, and returns
\* through its deferred wg.Done.
WorkerReturn(w) ==
    /\ wpc[w] \in {"gotErr", "gotNil"}
    /\ startErr' = IF wpc[w] = "gotErr" THEN "err" ELSE "nil"
    /\ wpc' = [wpc EXCEPT ![w] = "done"]
    /\ wg' = wg - 1
    /\ UNCHANGED <<supVars, received, pending>>

-----------------------------------------------------------------------------
Next ==
    \/ DialFail \/ Subscribed \/ RegisterFail \/ Registered
    \/ RecvRequest \/ StreamLost \/ Wake
    \/ \E w \in Workers :
          \/ TakeReq(w) \/ FinishReq(w)
          \/ TakeErr(w) \/ TakeClosed(w) \/ WorkerReturn(w)

\* What the code's scheduling guarantees: every goroutine that can run is
\* eventually scheduled; Dial and Subscribe (not waiting for readiness)
\* return, failing or succeeding as the network decides.
CodeFairness ==
    /\ WF_vars(DialFail \/ Subscribed)
    /\ WF_vars(Wake)
    /\ \A w \in Workers :
          /\ WF_vars(FinishReq(w)) /\ WF_vars(WorkerReturn(w))
          /\ WF_vars(TakeReq(w) \/ TakeErr(w) \/ TakeClosed(w))

Spec == Init /\ [][Next]_vars

\* The code's own fairness.  Nothing is assumed of the broker: run() reads
\* its answer to REGISTER with no deadline, so RegisterFail and Registered
\* get no fairness.
CodeFairSpec == Spec /\ CodeFairness

-----------------------------------------------------------------------------
(* Properties.                                                             *)

\* Spec 4.1: the fatal error is surfaced after exactly maxAttempts
\* consecutive failed runs without a registration in between, never
\* earlier (a stream lost after a registration resets the count) and
\* never later.
FatalAfterBudget ==
    spc \in {"fatal", "closed"} => fails = MaxAttempts

\* Spec 4.1: the attempt counter is reset only after a successful
\* connection.  Start's counter never goes down except when a run that had
\* registered (c.healthy set after the first Recv) ends, and that run's
\* deferred healthy.Store(false) clears the health flag in the same step.
AttemptResetOnlyAfterConnection ==
    [][attempt' < attempt => healthy /\ ~healthy']_vars

\* Start's reconnect loop never spins for ever, whatever the broker does:
\* after a run ends, the component eventually sends REGISTER on a fresh
\* stream or the fatal error reaches a worker.  Whether the broker then
\* answers is not assumed (HandshakeEnds shows it need not).
RetryLoopEnds ==
    (spc = "sleep") ~> (spc \in {"register", "closed"})

\* Spec 4.1 (handshake): a REGISTER that gets no timely answer counts as a
\* connection failure and is retried.  run() waits for the answer in
\* c.brk.Recv() on a stream opened with context.Background(), with no
\* deadline, so the component's own timing never ends the handshake.
HandshakeEnds ==
    (spc = "register") ~> (spc # "register")

\* Once every worker has returned, wg.Wait in kit.start returns, so start()
\* can hand the error to Start() and os.Exit(1).  kit.start adds
\* numWorkers and then 1 per worker, but each worker is done only once.
WaitGroupDrains ==
    (\A w \in Workers : wpc[w] = "done") => wg = 0

\* start() returns the broker's error once every worker has returned.  All
\* workers write the shared err, and those that read the closed errCh
\* write nil.
StartErrKept ==
    (\A w \in Workers : wpc[w] = "done") => startErr = "err"

-----------------------------------------------------------------------------
(* Refinement of the supervision contract of spec 4.1 (module Supervision). *)

\* The link as the supervision contract sees it: the link is up when
\* ServeHTTP answers 200, that is while c.healthy is set; the error waiting
\* on errCh is the supervisor having given up, and its receipt by a worker
\* is the error surfaced.
SupLink ==
    IF healthy THEN "up"
    ELSE IF spc = "fatal" THEN "gaveUp"
    ELSE IF spc = "closed" THEN "surfaced"
    ELSE "down"

Sup == INSTANCE Supervision WITH
           link   <- SupLink,
           streak <- IF healthy THEN 0 ELSE attempt

\* Spec 4.1: Start and run implement the supervision contract.  A failed
\* run adds one to the streak, a registration starts a fresh one and sets
\* c.healthy, a lost stream clears c.healthy at once and is retried with
\* the whole budget, and the fatal error is sent on errCh, and taken by a
\* worker, only after maxAttempts failures with no registration between.
ImplementsSupervision == Sup!Spec

=============================================================================
