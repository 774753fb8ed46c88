---------------------------- MODULE ClientProofs ----------------------------
(***************************************************************************)
(* Proofs about the correlation engine of module Client, for every value  *)
(* of its constants.                                                       *)
(***************************************************************************)
EXTENDS Client, TLAPS

USE ClientAssumption

-----------------------------------------------------------------------------
(* Type correctness.                                                       *)

LEMMA InitTypeOK == Init => TypeOK
  BY DEF Init, TypeOK, CallerState

LEMMA NextTypeOK == TypeOK /\ [Next]_vars => TypeOK'
  <1> SUFFICES ASSUME TypeOK, [Next]_vars PROVE TypeOK'
    OBVIOUS
  <1>1. ASSUME NEW r \in Reqs, NEW t \in 1..MaxTTL, Register(r, t)
        PROVE  TypeOK'
    BY <1>1 DEF Register, TypeOK, CallerState, respVars
  <1>2. ASSUME NEW r \in Reqs, SendTimeout(r) PROVE TypeOK'
    BY <1>2 DEF SendTimeout, TypeOK, CallerState, respVars
  <1>3. ASSUME NEW r \in Reqs, SendStreamErr(r) PROVE TypeOK'
    BY <1>3 DEF SendStreamErr, TypeOK, CallerState, respVars
  <1>4. ASSUME NEW r \in Reqs, SendOk(r) PROVE TypeOK'
    BY <1>4 DEF SendOk, TypeOK, CallerState, respVars
  <1>5. ASSUME NEW r \in Reqs, EnterSelect(r) PROVE TypeOK'
    BY <1>5 DEF EnterSelect, TypeOK, CallerState, respVars
  <1>6. ASSUME NEW r \in Reqs, Deliver(r) PROVE TypeOK'
    BY <1>6 DEF Deliver, TypeOK, CallerState, respVars
  <1>7. ASSUME NEW r \in Reqs, CtxDone(r) PROVE TypeOK'
    BY <1>7 DEF CtxDone, TypeOK, CallerState, respVars
  <1>8. ASSUME NEW r \in Reqs, BrkDone(r) PROVE TypeOK'
    BY <1>8 DEF BrkDone, TypeOK, CallerState, respVars
  <1>9. ASSUME NEW r \in Reqs, Respond(r) PROVE TypeOK'
    BY <1>9 DEF Respond, TypeOK, callerVars
  <1>10. ASSUME NEW r \in Reqs, Lookup(r) PROVE TypeOK'
    BY <1>10 DEF Lookup, TypeOK, callerVars
  <1>11. CASE Reap
    BY <1>11 DEF Reap, TypeOK, callerVars, respVars
  <1>12. CASE StreamFail
    BY <1>12 DEF StreamFail, TypeOK, callerVars, respVars
  <1>13. CASE Reconnect
    BY <1>13 DEF Reconnect, TypeOK, callerVars, respVars
  <1>14. CASE Tick
    BY <1>14 DEF Tick, TypeOK, callerVars, respVars
  <1>15. CASE UNCHANGED vars
    BY <1>15 DEF vars, TypeOK
  <1>16. QED
    BY <1>1, <1>2, <1>3, <1>4, <1>5, <1>6, <1>7, <1>8, <1>9, <1>10,
       <1>11, <1>12, <1>13, <1>14, <1>15 DEF Next

\* Every reachable state of the correlation engine is well typed: counters
\* of recvResp goroutines never go negative, the clock and the stream
\* counter stay within their bounds.
THEOREM TypeCorrect == Spec => []TypeOK
  BY InitTypeOK, NextTypeOK, PTL DEF Spec

-----------------------------------------------------------------------------
(* Correlation: at most one delivery per request, and no caller stranded  *)
(* by the reaper.  Neither invariant is inductive alone: a Lookup keeps    *)
(* AtMostOnceDelivery only because an entry still in reqMap has no        *)
(* blocked deliverer and an idle caller has no entry; a Reap keeps         *)
(* NoStrandedWaiter only because an entry's expiration is the caller's    *)
(* deadline.                                                               *)

\* The strengthening, per request.
CorrInv(r) ==
    /\ blocked[r] + (IF caller[r] = "resolved" THEN 1 ELSE 0) <= 1
    /\ r \in reqMap => blocked[r] = 0 /\ caller[r] # "resolved"
    /\ caller[r] = "idle" => r \notin reqMap /\ blocked[r] = 0
    /\ caller[r] # "idle" => expiration[r] = Deadline(r)
    /\ (caller[r] \in InFlight /\ r \notin reqMap /\ blocked[r] = 0)
           => now >= Deadline(r)

IInv == TypeOK /\ \A r \in Reqs : CorrInv(r)

LEMMA InitIInv == Init => IInv
  BY InitTypeOK DEF Init, IInv, CorrInv, InFlight

\* A step of request q leaves every other request's invariant alone.
LEMMA NextIInv == IInv /\ [Next]_vars => IInv'
  <1> SUFFICES ASSUME IInv, [Next]_vars, NEW r \in Reqs PROVE CorrInv(r)'
    BY NextTypeOK DEF IInv
  <1> USE DEF IInv, TypeOK, Deadline
  <1>1. ASSUME NEW q \in Reqs, NEW t \in 1..MaxTTL, Register(q, t)
        PROVE  CorrInv(r)'
    BY <1>1 DEF Register, CorrInv, InFlight, respVars
  <1>2. ASSUME NEW q \in Reqs, SendTimeout(q) PROVE CorrInv(r)'
    BY <1>2 DEF SendTimeout, CorrInv, InFlight, respVars
  <1>3. ASSUME NEW q \in Reqs, SendStreamErr(q) PROVE CorrInv(r)'
    BY <1>3 DEF SendStreamErr, CorrInv, InFlight, respVars
  <1>4. ASSUME NEW q \in Reqs, SendOk(q) PROVE CorrInv(r)'
    BY <1>4 DEF SendOk, CorrInv, InFlight, respVars
  <1>5. ASSUME NEW q \in Reqs, EnterSelect(q) PROVE CorrInv(r)'
    BY <1>5 DEF EnterSelect, CorrInv, InFlight, respVars
  <1>6. ASSUME NEW q \in Reqs, Deliver(q) PROVE CorrInv(r)'
    BY <1>6 DEF Deliver, CorrInv, InFlight
  <1>7. ASSUME NEW q \in Reqs, CtxDone(q) PROVE CorrInv(r)'
    BY <1>7 DEF CtxDone, CorrInv, InFlight, respVars
  <1>8. ASSUME NEW q \in Reqs, BrkDone(q) PROVE CorrInv(r)'
    BY <1>8 DEF BrkDone, CorrInv, InFlight, respVars
  <1>9. ASSUME NEW q \in Reqs, Respond(q) PROVE CorrInv(r)'
    BY <1>9 DEF Respond, CorrInv, callerVars
  <1>10. ASSUME NEW q \in Reqs, Lookup(q) PROVE CorrInv(r)'
    BY <1>10 DEF Lookup, CorrInv, InFlight, callerVars
  <1>11. CASE Reap
    \* An entry the sweep deletes is past now - ReapBuffer, hence past the
    \* caller's deadline.
    BY <1>11 DEF Reap, Expired, CorrInv, InFlight, callerVars, respVars
  <1>12. CASE StreamFail
    BY <1>12 DEF StreamFail, CorrInv, callerVars, respVars
  <1>13. CASE Reconnect
    BY <1>13 DEF Reconnect, CorrInv, callerVars, respVars
  <1>14. CASE Tick
    BY <1>14 DEF Tick, CorrInv, InFlight, callerVars, respVars
  <1>15. CASE UNCHANGED vars
    BY <1>15 DEF vars, CorrInv
  <1>16. QED
    BY <1>1, <1>2, <1>3, <1>4, <1>5, <1>6, <1>7, <1>8, <1>9, <1>10,
       <1>11, <1>12, <1>13, <1>14, <1>15 DEF Next

LEMMA IInvSpec == Spec => []IInv
  BY InitIInv, NextIInv, PTL DEF Spec

\* Resolution is idempotent for every number of requests, duplicates and
\* reconnections: at most one recvResp goroutine hands a response to a
\* caller, however the receive loop's goroutines interleave.
THEOREM AtMostOnce == Spec => []AtMostOnceDelivery
  <1>1. IInv => AtMostOnceDelivery
    BY DEF IInv, CorrInv, AtMostOnceDelivery
  <1>2. QED
    BY <1>1, IInvSpec, PTL

\* The reaper's sweep never removes the entry of a caller that is still
\* before its own deadline, whatever the TTLs and the reaper margin.
THEOREM ReaperSafe == Spec => []NoStrandedWaiter
  <1>1. IInv => NoStrandedWaiter
    BY DEF IInv, CorrInv, InFlight, NoStrandedWaiter
  <1>2. QED
    BY <1>1, IInvSpec, PTL

-----------------------------------------------------------------------------
(* Refinement of the correlation table (module Correlation).  Two more    *)
(* facts are needed besides IInv: a recvResp goroutine, before or after   *)
(* its lookup, exists only for a RESPONSE that was read (so the abstract  *)
(* response has arrived when recvResp removes or hands it over), and a    *)
(* request is written to a stream only after SendReqChan registered it.   *)

RefInv(r) ==
    /\ lookups[r] > 0 => responded[r] > 0
    /\ blocked[r] > 0 => responded[r] > 0
    /\ sentOn[r] # 0 => caller[r] # "idle"

RInv == IInv /\ \A r \in Reqs : RefInv(r)

LEMMA InitRInv == Init => RInv
  BY InitIInv DEF Init, RInv, RefInv

LEMMA NextRInv == RInv /\ [Next]_vars => RInv'
  <1> SUFFICES ASSUME RInv, [Next]_vars, NEW r \in Reqs PROVE RefInv(r)'
    BY NextIInv DEF RInv
  <1> USE DEF RInv, IInv, TypeOK
  <1>1. ASSUME NEW q \in Reqs, NEW t \in 1..MaxTTL, Register(q, t)
        PROVE  RefInv(r)'
    BY <1>1 DEF Register, RefInv, respVars
  <1>2. ASSUME NEW q \in Reqs,
               SendTimeout(q) \/ SendStreamErr(q) \/ SendOk(q)
               \/ EnterSelect(q) \/ Deliver(q) \/ CtxDone(q) \/ BrkDone(q)
        PROVE  RefInv(r)'
    BY <1>2 DEF SendTimeout, SendStreamErr, SendOk, EnterSelect, Deliver,
                CtxDone, BrkDone, RefInv, respVars
  <1>3. ASSUME NEW q \in Reqs, Respond(q) \/ Lookup(q) PROVE RefInv(r)'
    BY <1>3 DEF Respond, Lookup, RefInv, callerVars
  <1>4. CASE Reap \/ StreamFail \/ Reconnect \/ Tick \/ UNCHANGED vars
    BY <1>4 DEF Reap, StreamFail, Reconnect, Tick, vars, RefInv,
                callerVars, respVars
  <1>5. QED
    BY <1>1, <1>2, <1>3, <1>4 DEF Next

LEMMA RInvSpec == Spec => []RInv
  BY InitRInv, NextRInv, PTL DEF Spec

LEMMA InitRefines == Init => Corr!Init
  <1> SUFFICES ASSUME Init PROVE Corr!Init
    OBVIOUS
  <1>1. \A r \in Reqs : CallStatus(r) = "idle" /\ CallOutcome(r) = "none"
    BY DEF Init, CallStatus, CallOutcome
  <1>2. \A r \in Reqs : Deadline(r) = 0 /\ ~(responded[r] > 0)
    BY DEF Init, Deadline
  <1>3. [r \in Reqs |-> CallStatus(r)] = [r \in Reqs |-> "idle"]
    BY <1>1
  <1>4. [r \in Reqs |-> CallOutcome(r)] = [r \in Reqs |-> "none"]
    BY <1>1
  <1>5. [r \in Reqs |-> Deadline(r)] = [r \in Reqs |-> 0]
    BY <1>2
  <1>6. [r \in Reqs |-> responded[r] > 0] = [r \in Reqs |-> FALSE]
    <2>1. \A r \in Reqs : (responded[r] > 0) = FALSE
      BY <1>2
    <2>2. QED
      BY <2>1
  <1>7. QED
    BY <1>3, <1>4, <1>5, <1>6, Zenon DEF Init, Corr!Init

\* Each step of Client is a step of Correlation or leaves its state alone.
LEMMA NextRefines == RInv /\ [Next]_vars => [Corr!Next]_Corr!vars
  <1> SUFFICES ASSUME RInv, [Next]_vars PROVE [Corr!Next]_Corr!vars
    OBVIOUS
  <1> USE DEF RInv, IInv, TypeOK
  <1>1. ASSUME NEW q \in Reqs, NEW t \in 1..MaxTTL, Register(q, t)
        PROVE  Corr!Call(q, t)
    BY <1>1 DEF Register, Corr!Call, CallStatus, CallOutcome, Deadline,
                CorrInv, Returned, respVars
  <1>2. ASSUME NEW q \in Reqs, SendTimeout(q) \/ SendStreamErr(q)
        PROVE  Corr!Return(q, "sendFailed")
    BY <1>2 DEF SendTimeout, SendStreamErr, Corr!Return, CallStatus,
                CallOutcome, Deadline, Returned, respVars
  <1>3. ASSUME NEW q \in Reqs, Deliver(q) PROVE Corr!Return(q, "response")
    BY <1>3 DEF Deliver, Corr!Return, CallStatus, CallOutcome, Deadline,
                Returned, RefInv
  <1>4. ASSUME NEW q \in Reqs, CtxDone(q) PROVE Corr!Return(q, "timeout")
    BY <1>4 DEF CtxDone, Corr!Return, CallStatus, CallOutcome, Deadline,
                Returned, respVars
  <1>5. ASSUME NEW q \in Reqs, BrkDone(q) PROVE Corr!Return(q, "unavailable")
    BY <1>5 DEF BrkDone, Corr!Return, CallStatus, CallOutcome, Deadline,
                Returned, respVars
  <1>6. ASSUME NEW q \in Reqs, SendOk(q) \/ EnterSelect(q)
        PROVE  UNCHANGED Corr!vars
    BY <1>6 DEF SendOk, EnterSelect, Corr!vars, CallStatus, CallOutcome,
                Deadline, Returned, respVars
  <1>7. ASSUME NEW q \in Reqs, Respond(q)
        PROVE  Corr!Arrive(q) \/ UNCHANGED Corr!vars
    <2>1. CASE responded[q] = 0
      <3>1. caller[q] # "idle"
        <4>1. RefInv(q) /\ sentOn[q] = conn /\ conn \in 1..MaxConn
          BY <1>7 DEF Respond
        <4>2. QED
          BY <4>1 DEF RefInv
      <3>2. [r \in Reqs |-> responded[r] > 0]'
              = [[r \in Reqs |-> responded[r] > 0] EXCEPT ![q] = TRUE]
        <4>1. responded'[q] > 0 /\ \A r \in Reqs \ {q} : responded'[r] = responded[r]
          BY <1>7 DEF Respond
        <4>2. \A r \in Reqs \ {q} : (responded'[r] > 0) = (responded[r] > 0)
          BY <4>1
        <4>3. (responded'[q] > 0) = TRUE
          BY <4>1
        <4>4. QED
          BY <4>2, <4>3
      <3>3. /\ [r \in Reqs |-> CallStatus(r)]' = [r \in Reqs |-> CallStatus(r)]
            /\ [r \in Reqs |-> CallOutcome(r)]' = [r \in Reqs |-> CallOutcome(r)]
            /\ [r \in Reqs |-> Deadline(r)]' = [r \in Reqs |-> Deadline(r)]
            /\ now' = now /\ reqMap' = reqMap
        BY <1>7, Zenon DEF Respond, CallStatus, CallOutcome, Deadline,
                           callerVars
      <3>4. CallStatus(q) # "idle" /\ ~(responded[q] > 0)
        BY <2>1, <3>1 DEF CallStatus
      <3>5. QED
        BY <3>2, <3>3, <3>4 DEF Corr!Arrive
    <2>2. CASE responded[q] # 0
      BY <1>7, <2>2 DEF Respond, Corr!vars, CallStatus, CallOutcome,
                        Deadline, callerVars
    <2>3. QED
      BY <2>1, <2>2
  <1>8. ASSUME NEW q \in Reqs, Lookup(q)
        PROVE  Corr!Remove({q}) \/ UNCHANGED Corr!vars
    BY <1>8 DEF Lookup, Corr!Remove, Corr!vars, CallStatus, CallOutcome,
                Deadline, RefInv, callerVars
  \* An entry the sweep deletes expired more than the margin ago: its
  \* expiration is the caller's deadline (IInv).
  <1>9. CASE Reap
    <2>1. reqMap \ reqMap' \subseteq
              {k \in reqMap : now > Deadline(k) + ReapBuffer}
      BY <1>9 DEF Reap, Expired, CorrInv
    <2>2. CASE reqMap \ reqMap' = {}
      <3>1. reqMap' = reqMap
        BY <1>9, <2>2 DEF Reap
      <3>2. QED
        BY <1>9, <3>1 DEF Reap, Corr!vars, CallStatus, CallOutcome,
                          Deadline, callerVars, respVars
    <2>3. CASE reqMap \ reqMap' # {}
      <3>1. Corr!Remove(reqMap \ reqMap')
        BY <1>9, <2>1, <2>3 DEF Reap, Corr!Remove, CallStatus, CallOutcome,
                                Deadline, callerVars, respVars
      <3>2. reqMap \ reqMap' \in SUBSET reqMap
        OBVIOUS
      <3>3. QED
        BY <3>1, <3>2 DEF Corr!Next
    <2>4. QED
      BY <2>2, <2>3
  <1>10. CASE StreamFail \/ Reconnect \/ UNCHANGED vars
    BY <1>10 DEF StreamFail, Reconnect, vars, Corr!vars, CallStatus,
                 CallOutcome, Deadline, callerVars, respVars
  <1>11. CASE Tick
    BY <1>11 DEF Tick, Corr!Tick, Corr!Next, callerVars, respVars,
                 CallStatus, CallOutcome, Deadline
  <1>12. QED
    <2>1. ASSUME NEW q \in Reqs, NEW t \in 1..MaxTTL, Register(q, t)
          PROVE  [Corr!Next]_Corr!vars
      BY <1>1, <2>1 DEF Corr!Next
    <2>2. ASSUME NEW q \in Reqs, SendTimeout(q) \/ SendStreamErr(q)
          PROVE  [Corr!Next]_Corr!vars
      BY <1>2, <2>2 DEF Corr!Next, Corr!Outcome
    <2>3. ASSUME NEW q \in Reqs, Deliver(q) \/ CtxDone(q) \/ BrkDone(q)
          PROVE  [Corr!Next]_Corr!vars
      BY <1>3, <1>4, <1>5, <2>3 DEF Corr!Next, Corr!Outcome
    <2>4. ASSUME NEW q \in Reqs, SendOk(q) \/ EnterSelect(q) \/ Respond(q)
          PROVE  [Corr!Next]_Corr!vars
      BY <1>6, <1>7, <2>4 DEF Corr!Next
    <2>5. ASSUME NEW q \in Reqs, Lookup(q)
          PROVE  [Corr!Next]_Corr!vars
      <3>1. {q} \in SUBSET reqMap \/ UNCHANGED Corr!vars
        BY <1>8, <2>5 DEF Corr!Remove
      <3>2. QED
        BY <1>8, <2>5, <3>1 DEF Corr!Next
    <2>6. QED
      BY <2>1, <2>2, <2>3, <2>4, <2>5, <1>9, <1>10, <1>11 DEF Next

\* For every set of requests, TTLs, margin and number of reconnections,
\* grpc.Client implements the correlation table of spec 4.2: each SendReq
\* returns once, with a response only after one was read for it and with
\* ErrTimeout only past its deadline, and an entry leaves reqMap only once
\* its response came in or it expired more than the reaper's margin ago.
THEOREM CorrelationRefined == Spec => ImplementsCorrelation
  <1>1. []RInv /\ [][Next]_vars => [][Corr!Next]_Corr!vars
    BY NextRefines, PTL
  <1>2. QED
    BY InitRefines, RInvSpec, <1>1, PTL DEF Spec, ImplementsCorrelation,
       Corr!Spec

=============================================================================
