------------------------------- MODULE Client -------------------------------
(***************************************************************************)
(* The request/response correlation engine of grpc.Client                  *)
(* (src/grpc/client.go): SendReq/SendReqChan register a waiter in reqMap   *)
(* and send the request under sendMutex; the receive loop spawns one       *)
(* recvResp goroutine per RESPONSE, which looks the waiter up, deletes it  *)
(* and hands the response over the unbuffered respCh; the caller waits in  *)
(* a three-way select (response, its context, the broker stream); the     *)
(* reaper sweeps expired entries every tick.  The stream may fail and be  *)
(* re-established by the supervisor (Start/run), which replaces c.brk.     *)
(*                                                                         *)
(* Time is a discrete clock.  A request id is a model value (ids are       *)
(* unique per process: core.GenerateId).                                   *)
(***************************************************************************)
EXTENDS Naturals, Integers, FiniteSets

CONSTANTS
    Reqs,        \* request ids that callers send
    MaxTTL,      \* largest TTL a request is created with
    ReapBuffer,  \* the reaper's safety margin (30s in the code)
    MaxTime,     \* bound of the clock
    MaxResp,     \* bound on RESPONSE envelopes per request (duplicates)
    MaxConn      \* bound on stream (re)connections

ASSUME ClientAssumption ==
    /\ IsFiniteSet(Reqs)
    /\ MaxTTL \in Nat \ {0}
    /\ ReapBuffer \in Nat
    /\ MaxTime \in Nat
    /\ MaxResp \in Nat
    /\ MaxConn \in Nat \ {0}

\* States of one SendReq call, from SendReqChan to the return of SendReq.
CallerState == {"idle", "registered", "sent", "waiting",
                "resolved", "timeout", "unavailable", "sendFailed"}
Returned    == {"resolved", "timeout", "unavailable", "sendFailed"}
InFlight    == {"registered", "sent", "waiting"}

VARIABLES
    now,         \* the clock
    caller,      \* caller[r]: where the SendReq call for r is
    start,       \* start[r]: the start time passed to SendReq
    ttl,         \* ttl[r]: the TTL the request was created with
    reqMap,      \* the keys of c.reqMap
    expiration,  \* expiration[r]: ActiveReq.expiration of r's entry
    sentOn,      \* sentOn[r]: the stream r was written to (0: not sent)
    watch,       \* watch[r]: the stream whose context the select waits on
    responded,   \* responded[r]: RESPONSEs for r read by the receive loop
    lookups,     \* lookups[r]: recvResp goroutines not yet past the lookup
    blocked,     \* blocked[r]: recvResp goroutines blocked on respCh <- resp
    conn,        \* the stream c.brk currently refers to
    up           \* that stream is open

vars == <<now, caller, start, ttl, reqMap, expiration, sentOn,
          watch, responded, lookups, blocked, conn, up>>

callerVars == <<caller, start, ttl, sentOn, watch>>
respVars   == <<responded, lookups, blocked>>

-----------------------------------------------------------------------------
\* The context of stream e is done: it was closed, or replaced.
Closed(e) == e # conn \/ ~up

\* The caller's own context is done (context.WithTimeout of its TTL).
Deadline(r) == start[r] + ttl[r]

\* The TTL left after evt.ReduceTTL(start).
Remaining(r) == ttl[r] - (now - start[r])

TypeOK ==
    /\ now \in 0..MaxTime
    /\ caller \in [Reqs -> CallerState]
    /\ start \in [Reqs -> 0..MaxTime]
    /\ ttl \in [Reqs -> 0..MaxTTL]
    /\ reqMap \subseteq Reqs
    /\ expiration \in [Reqs -> Nat]
    /\ sentOn \in [Reqs -> 0..MaxConn]
    /\ watch \in [Reqs -> 0..MaxConn]
    /\ responded \in [Reqs -> Nat]
    /\ lookups \in [Reqs -> Nat]
    /\ blocked \in [Reqs -> Nat]
    /\ conn \in 1..MaxConn
    /\ up \in BOOLEAN

\* The handler runs after the first successful registration (c.brk set).
Init ==
    /\ now = 0
    /\ caller = [r \in Reqs |-> "idle"]
    /\ start = [r \in Reqs |-> 0]
    /\ ttl = [r \in Reqs |-> 0]
    /\ reqMap = {}
    /\ expiration = [r \in Reqs |-> 0]
    /\ sentOn = [r \in Reqs |-> 0]
    /\ watch = [r \in Reqs |-> 0]
    /\ responded = [r \in Reqs |-> 0]
    /\ lookups = [r \in Reqs |-> 0]
    /\ blocked = [r \in Reqs |-> 0]
    /\ conn = 1
    /\ up = TRUE

-----------------------------------------------------------------------------
(* Caller side: SendReq -> SendReqChan -> send -> select.                  *)

\* Mutant: the entry's expiration is time.Now(), the .Add(req.TTL()) lost.
RegisterNoTTL(r, t) ==
    /\ caller[r] = "idle"
    /\ now + t + ReapBuffer < MaxTime
    /\ caller' = [caller EXCEPT ![r] = "registered"]
    /\ start' = [start EXCEPT ![r] = now]
    /\ ttl' = [ttl EXCEPT ![r] = t]
    /\ reqMap' = reqMap \cup {r}
    /\ expiration' = [expiration EXCEPT ![r] = now]
    /\ UNCHANGED <<now, sentOn, watch, respVars, conn, up>>

\* SendReqChan: the entry {respCh, now + TTL} is put in reqMap under the
\* lock.  A request is created only while the clock has room to reach its
\* expiration plus the reaper's margin.
Register(r, t) ==
    /\ caller[r] = "idle"
    /\ now + t + ReapBuffer < MaxTime
    /\ caller' = [caller EXCEPT ![r] = "registered"]
    /\ start' = [start EXCEPT ![r] = now]
    /\ ttl' = [ttl EXCEPT ![r] = t]
    /\ reqMap' = reqMap \cup {r}
    /\ expiration' = [expiration EXCEPT ![r] = now + t]
    /\ UNCHANGED <<now, sentOn, watch, respVars, conn, up>>

\* send: ReduceTTL(start) left a negative TTL, ErrTimeout; SendReqChan
\* returns the error and leaves the entry in reqMap.
SendTimeout(r) ==
    /\ caller[r] = "registered"
    /\ Remaining(r) < 0
    /\ caller' = [caller EXCEPT ![r] = "sendFailed"]
    /\ UNCHANGED <<now, start, ttl, reqMap, expiration, sentOn,
                   watch, respVars, conn, up>>

\* send: c.brk.Send fails on a closed stream; the entry stays in reqMap.
SendStreamErr(r) ==
    /\ caller[r] = "registered"
    /\ Remaining(r) >= 0
    /\ ~up
    /\ caller' = [caller EXCEPT ![r] = "sendFailed"]
    /\ UNCHANGED <<now, start, ttl, reqMap, expiration, sentOn,
                   watch, respVars, conn, up>>

\* send: c.brk.Send returns nil.  On a stream that has already failed the
\* write may still be buffered and lost.
SendOk(r) ==
    /\ caller[r] = "registered"
    /\ Remaining(r) >= 0
    /\ caller' = [caller EXCEPT ![r] = "sent"]
    /\ sentOn' = [sentOn EXCEPT ![r] = conn]
    /\ UNCHANGED <<now, start, ttl, reqMap, expiration, watch, respVars,
                   conn, up>>

\* SendReq enters its select; c.brk.Context() is read here, not at send.
EnterSelect(r) ==
    /\ caller[r] = "sent"
    /\ caller' = [caller EXCEPT ![r] = "waiting"]
    /\ watch' = [watch EXCEPT ![r] = conn]
    /\ UNCHANGED <<now, start, ttl, reqMap, expiration, sentOn,
                   respVars, conn, up>>

\* Mutant: a receive that does not wait for a sender.
DeliverUnguarded(r) ==
    /\ caller[r] = "waiting"
    /\ caller' = [caller EXCEPT ![r] = "resolved"]
    /\ blocked' = [blocked EXCEPT ![r] = @ - 1]
    /\ UNCHANGED <<now, start, ttl, reqMap, expiration, sentOn,
                   watch, responded, lookups, conn, up>>

\* case resp := <-respCh: rendezvous with a blocked recvResp goroutine.
Deliver(r) ==
    /\ caller[r] = "waiting"
    /\ blocked[r] > 0
    /\ caller' = [caller EXCEPT ![r] = "resolved"]
    /\ blocked' = [blocked EXCEPT ![r] = @ - 1]
    /\ UNCHANGED <<now, start, ttl, reqMap, expiration, sentOn,
                   watch, responded, lookups, conn, up>>

\* Mutant: the select has no ctx.Done() case.
CtxDoneMissing(r) ==
    /\ FALSE
    /\ UNCHANGED vars

\* case <-ctx.Done(): ErrTimeout.
CtxDone(r) ==
    /\ caller[r] = "waiting"
    /\ now >= Deadline(r)
    /\ caller' = [caller EXCEPT ![r] = "timeout"]
    /\ UNCHANGED <<now, start, ttl, reqMap, expiration, sentOn,
                   watch, respVars, conn, up>>

\* case <-c.brk.Context().Done(): ErrBrokerUnavailable.
BrkDone(r) ==
    /\ caller[r] = "waiting"
    /\ Closed(watch[r])
    /\ caller' = [caller EXCEPT ![r] = "unavailable"]
    /\ UNCHANGED <<now, start, ttl, reqMap, expiration, sentOn,
                   watch, respVars, conn, up>>

-----------------------------------------------------------------------------
(* Receive side: the loop in run() and the recvResp goroutines.            *)

\* The receive loop reads a RESPONSE to r from the open stream r was sent
\* on and starts go c.recvResp.  The remote side answers only while the
\* TTL it received is not negative; the broker may deliver duplicates.
Respond(r) ==
    /\ up
    /\ sentOn[r] = conn
    /\ now <= Deadline(r)
    /\ responded[r] < MaxResp
    /\ responded' = [responded EXCEPT ![r] = @ + 1]
    /\ lookups' = [lookups EXCEPT ![r] = @ + 1]
    /\ UNCHANGED <<now, callerVars, reqMap, expiration, blocked, conn, up>>

\* Mutant: recvResp reads the entry without deleting it.
LookupNoDelete(r) ==
    /\ lookups[r] > 0
    /\ lookups' = [lookups EXCEPT ![r] = @ - 1]
    /\ blocked' = IF r \in reqMap THEN [blocked EXCEPT ![r] = @ + 1]
                                  ELSE blocked
    /\ UNCHANGED <<now, callerVars, reqMap, expiration, responded, conn, up>>

\* recvResp: under reqMapMutex, read and delete reqMap[ParentId]; if there
\* was an entry, block on the unbuffered respCh, else log and return.
Lookup(r) ==
    /\ lookups[r] > 0
    /\ lookups' = [lookups EXCEPT ![r] = @ - 1]
    /\ reqMap' = reqMap \ {r}
    /\ blocked' = IF r \in reqMap THEN [blocked EXCEPT ![r] = @ + 1]
                                  ELSE blocked
    /\ UNCHANGED <<now, callerVars, expiration, responded, conn, up>>

-----------------------------------------------------------------------------
(* The reaper goroutine (startReqMapReaper).                               *)

\* A tick of the ticker: every entry with now - 30s after its expiration is
\* deleted.  The scan holds the read lock, so writers run only in the gaps
\* around each delete; there they insert fresh (unexpired) entries or
\* delete by resolution, which commutes with the sweep's own deletes.  The
\* sweep is therefore one step.
\* Mutant: the cutoff is computed once, before the ticker loop.
ExpiredAtStart(k) == 0 - ReapBuffer > expiration[k]

\* Mutant: the sweep's margin is left out of the cutoff.
ExpiredNoBuffer(k) == now > expiration[k]

Expired(k) == now - ReapBuffer > expiration[k]

Reap ==
    /\ reqMap' = {k \in reqMap : ~Expired(k)}
    /\ UNCHANGED <<now, callerVars, expiration, respVars, conn, up>>

-----------------------------------------------------------------------------
(* The stream, as the supervisor sees it (Start/run).                      *)

\* brk.Recv fails: run returns, its deferred conn.Close cancels the stream.
StreamFail ==
    /\ up
    /\ up' = FALSE
    /\ UNCHANGED <<now, callerVars, reqMap, expiration, respVars, conn>>

\* A later run() dials, subscribes and sets c.brk to the new stream.
Reconnect ==
    /\ ~up
    /\ conn < MaxConn
    /\ conn' = conn + 1
    /\ up' = TRUE
    /\ UNCHANGED <<now, callerVars, reqMap, expiration, respVars>>

\* Time passes.
Tick ==
    /\ now < MaxTime
    /\ now' = now + 1
    /\ UNCHANGED <<callerVars, reqMap, expiration, respVars, conn, up>>

-----------------------------------------------------------------------------
Next ==
    \/ \E r \in Reqs, t \in 1..MaxTTL : Register(r, t)
    \/ \E r \in Reqs :
          \/ SendTimeout(r) \/ SendStreamErr(r) \/ SendOk(r)
          \/ EnterSelect(r) \/ Deliver(r) \/ CtxDone(r) \/ BrkDone(r)
          \/ Respond(r) \/ Lookup(r)
    \/ Reap
    \/ StreamFail \/ Reconnect
    \/ Tick

\* Goroutines that can run are eventually scheduled; the clock and the
\* ticker advance.  Nothing forces the stream to fail or the remote side
\* to answer.
Fairness ==
    /\ WF_vars(Tick)
    /\ WF_vars(Reap)
    /\ \A r \in Reqs :
          /\ WF_vars(SendTimeout(r) \/ SendStreamErr(r) \/ SendOk(r))
          /\ WF_vars(EnterSelect(r))
          /\ WF_vars(Lookup(r))
          /\ WF_vars(Deliver(r) \/ CtxDone(r) \/ BrkDone(r))

Spec == Init /\ [][Next]_vars

FairSpec == Spec /\ Fairness

-----------------------------------------------------------------------------
(* Properties.                                                             *)

\* Resolution is idempotent: however many RESPONSEs with the same parentId
\* the concurrent recvResp goroutines process, at most one of them hands a
\* response to the caller (recvResp's lookup-and-delete under the lock).
AtMostOnceDelivery ==
    \A r \in Reqs :
        blocked[r] + (IF caller[r] = "resolved" THEN 1 ELSE 0) <= 1

\* The reaper never robs a live caller: a caller still waiting whose entry
\* is gone and who has no response on the way has already passed its own
\* deadline, so its context case is ready (reaper cutoff vs. expiration).
NoStrandedWaiter ==
    \A r \in Reqs :
        (caller[r] \in {"sent", "waiting"} /\ r \notin reqMap /\ blocked[r] = 0)
            => now >= Deadline(r)

\* No entry of the correlation table lives for ever: each one is removed,
\* by its response or by the reaper, including those left by a failed send.
EntriesEventuallyReaped ==
    \A r \in Reqs : (r \in reqMap) ~> (r \notin reqMap)

\* SendReq always returns: the three-way select ends by a response, the
\* caller's deadline or the loss of the stream.
CallerReturns ==
    \A r \in Reqs : (caller[r] \in InFlight) ~> (caller[r] \in Returned)

\* Spec 4.2: a late response is "discarded harmlessly".  recvResp blocks on
\* the unbuffered respCh, so a response whose caller has returned leaves a
\* goroutine blocked for ever.
NoLeakedDelivery ==
    \A r \in Reqs : blocked[r] > 0 => caller[r] \in {"sent", "waiting"}

\* Spec 5: the caller stops waiting when the stream its request went out on
\* reports closure.  SendReq reads c.brk after send, so a reconnection in
\* between makes it wait on the new stream instead.
WaitSeesStreamLoss ==
    \A r \in Reqs :
        (caller[r] = "waiting" /\ Closed(sentOn[r])) => Closed(watch[r])

\* The correlation table as spec 4.2 describes it: a call is idle, pending
\* until SendReq returns, then done with the way it returned; its deadline
\* is start + TTL; the table is reqMap; a response has arrived once the
\* receive loop read one.
CallStatus(r) ==
    IF caller[r] = "idle" THEN "idle"
    ELSE IF caller[r] \in Returned THEN "done" ELSE "pending"

CallOutcome(r) ==
    CASE caller[r] = "resolved"    -> "response"
      [] caller[r] = "timeout"     -> "timeout"
      [] caller[r] = "unavailable" -> "unavailable"
      [] caller[r] = "sendFailed"  -> "sendFailed"
      [] OTHER                     -> "none"

Corr == INSTANCE Correlation WITH
            status   <- [r \in Reqs |-> CallStatus(r)],
            outcome  <- [r \in Reqs |-> CallOutcome(r)],
            deadline <- [r \in Reqs |-> Deadline(r)],
            table    <- reqMap,
            arrived  <- [r \in Reqs |-> responded[r] > 0]

\* Client implements the correlation table of spec 4.2: every SendReq
\* returns once, with a response only after one was read for it and with
\* ErrTimeout only past its deadline, and recvResp and the reaper remove
\* an entry only once its response came in or it expired more than the
\* reaper's margin ago, across duplicates, reconnections and the sweep.
ImplementsCorrelation == Corr!Spec

=============================================================================
