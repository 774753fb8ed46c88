---------------------------- MODULE RouterProofs ----------------------------
(***************************************************************************)
(* Proofs about route registration and dispatch (module Router), for      *)
(* every set of rules, bound on routes and set of ids outside the table.  *)
(***************************************************************************)
EXTENDS Router, SequenceTheorems, TLAPS

\* The assumptions the proofs use.  The empty env var name, which only
\* TLC's runs need, is left out: that membership fact defeats the SMT
\* backend's type inference.
LEMMA RouterConsts ==
    /\ SecretRules \subseteq Rules
    /\ MaxRoutes \in Nat /\ MaxTTL \in Nat \ {0}
    /\ MaxDelay \in Nat /\ MaxReqs \in Nat
    /\ BadIds \subseteq Int \ (-1..MaxRoutes - 1)
    /\ Rules \cap {"default", "invalid", "none"} = {}
  BY RouterAssumption, Zenon

USE RouterConsts DEF RouteRec, Wanted, Target, DepType, regVars,
                          DefaultRouteId

-----------------------------------------------------------------------------
(* recvReq's switch, one lemma per branch.                                 *)

\* The default id selects the default handler when there is one.
LEMMA DispatchDefault ==
  ASSUME hasDef \in BOOLEAN
  PROVE  Dispatch(DefaultRouteId) = IF hasDef THEN "default" ELSE "none"
  <1>1. ~(-1 >= 0)
    OBVIOUS
  <1>2. QED
    BY <1>1, Zenon DEF Dispatch

\* An index of svc.routes selects that route's handler.
LEMMA DispatchIndex ==
  ASSUME NEW rid \in Int, rid >= 0, rid < Len(routes)
  PROVE  Dispatch(rid) = routes[rid + 1].rule
  <1>1. rid # -1
    OBVIOUS
  <1>2. QED
    BY <1>1, Zenon DEF Dispatch

\* Any other id selects no handler (NotFound).
LEMMA DispatchOutside ==
  ASSUME NEW rid \in Int, rid # -1, ~(rid >= 0 /\ rid < Len(routes))
  PROVE  Dispatch(rid) = "none"
  BY Zenon DEF Dispatch

\* The handler's delay is taken off the request's TTL and nothing else.
LEMMA TtlUpdate ==
  ASSUME cur \in [rid : Int, want : Wanted, ttl : Int], NEW x \in Int
  PROVE  /\ [cur EXCEPT !.ttl = x].want = cur.want
         /\ [cur EXCEPT !.ttl = x] \in [rid : Int, want : Wanted, ttl : Int]
  <1> DEFINE c2 == [cur EXCEPT !.ttl = x]
  <1>1. c2.want = cur.want
    BY Zenon DEF c2
  <1>2. c2 \in [rid : Int, want : Wanted, ttl : Int]
    BY Zenon DEF c2
  <1>3. QED
    BY <1>1, <1>2 DEF c2

-----------------------------------------------------------------------------
(* The inductive invariant.  RouteRoundTrip is not inductive alone: a     *)
(* Receive dispatches on the live table while the broker chose its id     *)
(* from the REGISTER schema, so the proof needs the schema to be the      *)
(* table once the component runs, and each route's id to be its position  *)
(* in svc.routes (Route takes len(routes) before the append).             *)

\* Route's id is the route's index in svc.routes, counted from 0.
IdsArePositions == \A i \in 1..Len(routes) : routes[i].id = i - 1

\* Once running, the table and the default handler are the ones sent in
\* REGISTER; registration is over.
SchemaIsTable ==
    phase = "running" => schema.routes = routes /\ schema.def = hasDef

\* A worker holds a request only after Start.
BusyRunning == wpc # "idle" => phase = "running"

\* recvReq's err is nil while the handler runs and set before the error
\* response.
ErrAtPlace ==
    /\ wpc = "handler" => err = "none"
    /\ wpc = "errResp" => err # "none"

RtInv ==
    /\ TypeOK
    /\ IdsArePositions /\ SchemaIsTable /\ BusyRunning /\ ErrAtPlace
    /\ RouteRoundTrip /\ ErrorAnswered


-----------------------------------------------------------------------------
(* Lemmas about the route table and the REGISTER schema.                   *)

SchemaType == [routes : Seq(RouteRec), def : BOOLEAN,
               envs : SUBSET EnvNames, deps : [DepNames -> DepType]]

(***************************************************************************)
(* TypeOK in four groups: the control state of setup and of the worker,   *)
(* the registered table, the schema sent to the broker, and the request   *)
(* in hand.  A step changes few groups; the others carry over by frame    *)
(* lemmas, so no proof has to unfold the whole of TypeOK.                 *)
(***************************************************************************)
CtlOK ==
    /\ phase \in {"setup", "running", "exported", "exited"}
    /\ export \in BOOLEAN
    /\ wpc \in {"idle", "handler", "errResp"}
    /\ target \in Target
    /\ err \in {"none", "notFound", "handler"}
    /\ answer \in {"none", "handler", "error", "dropped"}
    /\ handled \in 0..MaxReqs

TableOK ==
    /\ envs \subseteq EnvNames \ {""}
    /\ deps \in [DepNames -> DepType]
    /\ routes \in Seq(RouteRec) /\ Len(routes) <= MaxRoutes
    /\ hasDef \in BOOLEAN

SchemaOK == schema \in SchemaType

CurOK == cur \in [rid : Int, want : Wanted, ttl : Int]

LEMMA TypeOKParts == TypeOK => CtlOK /\ TableOK /\ SchemaOK /\ CurOK
  BY Zenon DEF TypeOK, CtlOK, TableOK, SchemaOK, SchemaType, CurOK

LEMMA TypeOKFromParts ==
  ASSUME CtlOK', TableOK', SchemaOK', CurOK' PROVE TypeOK'
  BY Zenon DEF TypeOK, CtlOK, TableOK, SchemaOK, SchemaType, CurOK

LEMMA TableFrame ==
  ASSUME TableOK, UNCHANGED <<envs, deps, routes, hasDef>> PROVE TableOK'
  BY Zenon DEF TableOK

LEMMA SchemaFrame == ASSUME SchemaOK, UNCHANGED schema PROVE SchemaOK'
  BY Zenon DEF SchemaOK

LEMMA CurFrame == ASSUME CurOK, UNCHANGED cur PROVE CurOK'
  BY Zenon DEF CurOK

\* compDef, built from well-typed parts, is a well-typed schema.
LEMMA SchemaIsTyped ==
  ASSUME NEW rs \in Seq(RouteRec), NEW d \in BOOLEAN,
         NEW e \in SUBSET EnvNames, NEW dp \in [DepNames -> DepType]
  PROVE  [routes |-> rs, def |-> d, envs |-> e, deps |-> dp] \in SchemaType
  BY Zenon DEF SchemaType

\* A route of the table is a well-typed record.
LEMMA RouteAt ==
  ASSUME NEW rs \in Seq(RouteRec), NEW i \in 1..Len(rs)
  PROVE  rs[i].id \in Int /\ rs[i].rule \in Rules
  <1>1. rs[i] \in RouteRec
    BY ElementOfSeq, Zenon
  <1>2. QED
    BY <1>1, Zenon

\* Route's append keeps the table typed, grows it by one, and puts the
\* new route, with id Len(routes), last.
LEMMA RouteAppend ==
  ASSUME NEW rs \in Seq(RouteRec), NEW r \in Rules
  PROVE  LET a == Append(rs, [id |-> Len(rs), rule |-> r]) IN
         /\ a \in Seq(RouteRec) /\ Len(a) = Len(rs) + 1
         /\ a[Len(a)].id = Len(rs)
         /\ \A i \in 1..Len(rs) : a[i] = rs[i]
  <1>1. [id |-> Len(rs), rule |-> r] \in RouteRec
    <2>1. Len(rs) \in Int
      BY LenProperties
    <2>2. QED
      BY <2>1, Zenon
  <1>2. QED
    BY <1>1, AppendProperties

LEMMA InitTypeOK == Init => TypeOK
  <1> SUFFICES ASSUME Init PROVE TypeOK
    OBVIOUS
  <1>1. PICK f \in Flags : /\ phase = IF NewExits(f) THEN "exited" ELSE "setup"
                           /\ export = f.export
    BY DEF Init
  <1>2. phase \in {"setup", "running", "exported", "exited"}
        /\ export \in BOOLEAN
    BY <1>1 DEF Flags
  <1>3. schema \in SchemaType
    <2>1. <<>> \in Seq(RouteRec) /\ {} \in SUBSET EnvNames
          /\ [n \in DepNames |-> "none"] \in [DepNames -> DepType]
      BY EmptySeq
    <2>2. QED
      BY <2>1, SchemaIsTyped, Zenon DEF Init
  <1>4. routes \in Seq(RouteRec) /\ Len(routes) <= MaxRoutes
    BY EmptySeq DEF Init
  <1>5. cur \in [rid : Int, want : Wanted, ttl : Int]
    <2>1. -1 \in Int /\ 0 \in Int
      OBVIOUS
    <2>2. QED
      BY <2>1, Zenon DEF Init
  <1>6. deps \in [DepNames -> DepType] /\ envs \subseteq EnvNames \ {""}
        /\ handled \in 0..MaxReqs
    BY DEF Init
  <1>7. QED
    BY <1>2, <1>3, <1>4, <1>5, <1>6, Zenon DEF Init, TypeOK, SchemaType

LEMMA InitRtInv == Init => RtInv
  <1> SUFFICES ASSUME Init PROVE RtInv
    OBVIOUS
  <1>1. QED
    BY InitTypeOK, EmptySeq DEF Init, RtInv, IdsArePositions, SchemaIsTable,
       BusyRunning, ErrAtPlace, RouteRoundTrip, ErrorAnswered

\* Route appends [id |-> Len(routes), rule |-> r]: the new last route's id
\* is its position.
LEMMA RouteRtInv ==
  ASSUME RtInv, NEW r \in Rules, Route(r) PROVE RtInv'
  <1> USE DEF RtInv
  <1>0. CtlOK /\ TableOK /\ SchemaOK /\ CurOK
    BY TypeOKParts
  <1>1. CASE r \in SecretRules
    <2>1. /\ phase = "setup" /\ phase' = "exited"
          /\ UNCHANGED <<export, envs, deps, routes, hasDef, schema, wpc, cur,
                         target, err, answer, handled>>
      BY <1>1 DEF Route
    <2>2. CtlOK'
      BY <1>0, <2>1 DEF CtlOK
    <2>3. TypeOK'
      BY <1>0, <2>1, <2>2, TableFrame, SchemaFrame, CurFrame, TypeOKFromParts
    <2>4. IdsArePositions' /\ SchemaIsTable'
      BY <2>1 DEF IdsArePositions, SchemaIsTable
    <2>9. BusyRunning'
      BY <2>1 DEF BusyRunning
    <2>5. ErrAtPlace'
      BY <2>1 DEF ErrAtPlace
    <2>6. RouteRoundTrip'
      BY <2>1 DEF RouteRoundTrip
    <2>7. ErrorAnswered'
      BY <2>1 DEF ErrorAnswered
    <2>8. QED
      BY <2>3, <2>4, <2>5, <2>6, <2>7, <2>9
  <1>2. CASE r \notin SecretRules
    <2> DEFINE a == Append(routes, [id |-> Len(routes), rule |-> r])
    <2>1. /\ routes' = a /\ phase' = phase /\ phase = "setup"
          /\ Len(routes) < MaxRoutes
          /\ UNCHANGED <<export, envs, deps, hasDef, schema, wpc, cur, target,
                         err, answer, handled>>
      BY <1>2 DEF Route
    <2>0. routes \in Seq(RouteRec)
      BY <1>0 DEF TableOK
    <2>2. /\ a \in Seq(RouteRec) /\ Len(a) = Len(routes) + 1
          /\ a[Len(a)].id = Len(routes)
          /\ \A i \in 1..Len(routes) : a[i] = routes[i]
      BY <2>0, RouteAppend
    <2>3. Len(routes') <= MaxRoutes
      BY <2>0, <2>1, <2>2, LenProperties
    <2>4. TableOK'
      BY <1>0, <2>1, <2>2, <2>3 DEF TableOK
    <2>5. CtlOK'
      BY <1>0, <2>1 DEF CtlOK
    <2>6. TypeOK'
      BY <1>0, <2>1, <2>4, <2>5, SchemaFrame, CurFrame, TypeOKFromParts
    <2>7. IdsArePositions'
      <3> SUFFICES ASSUME NEW i \in 1..Len(a) PROVE a[i].id = i - 1
        BY <2>1 DEF IdsArePositions
      <3>1. CASE i = Len(a)
        BY <2>2, <3>1
      <3>2. CASE i # Len(a)
        <4>1. i \in 1..Len(routes)
          BY <2>0, <2>2, <3>2, LenProperties
        <4>2. QED
          BY <2>2, <4>1 DEF IdsArePositions
      <3>3. QED
        BY <3>1, <3>2
    <2>8. QED
      BY <2>1, <2>6, <2>7 DEF Route, SchemaIsTable, BusyRunning, ErrAtPlace,
                              RouteRoundTrip, ErrorAnswered
  <1>3. QED
    BY <1>1, <1>2

LEMMA DefaultRtInv ==
  ASSUME RtInv, NEW h \in BOOLEAN, Default(h) PROVE RtInv'
  <1>0. CtlOK /\ TableOK /\ SchemaOK /\ CurOK
    BY TypeOKParts DEF RtInv
  <1>1. /\ hasDef' = h /\ phase = "setup"
        /\ UNCHANGED <<phase, export, envs, deps, routes, schema, wpc, cur,
                       target, err, answer, handled>>
    BY DEF Default
  <1>2. TypeOK'
    <2>1. CtlOK'
      BY <1>0, <1>1 DEF CtlOK
    <2>2. TableOK'
      BY <1>0, <1>1 DEF TableOK
    <2>3. QED
      BY <1>0, <1>1, <2>1, <2>2, SchemaFrame, CurFrame, TypeOKFromParts
  <1>3. /\ IdsArePositions' /\ SchemaIsTable' /\ BusyRunning'
        /\ ErrAtPlace' /\ RouteRoundTrip' /\ ErrorAnswered'
    BY <1>1 DEF RtInv, IdsArePositions, SchemaIsTable, BusyRunning,
                ErrAtPlace, RouteRoundTrip, ErrorAnswered
  <1>4. QED
    BY <1>2, <1>3 DEF RtInv

\* EnvVar: an empty name ends the process; any other joins the schema's
\* env vars.
LEMMA EnvVarRtInv ==
  ASSUME RtInv, NEW n \in EnvNames, EnvVar(n) PROVE RtInv'
  <1>0. CtlOK /\ TableOK /\ SchemaOK /\ CurOK
    BY TypeOKParts DEF RtInv
  <1>1. /\ phase = "setup"
        /\ UNCHANGED <<export, deps, routes, hasDef, schema, wpc, cur,
                       target, err, answer, handled>>
    BY DEF EnvVar
  <1>2. CASE n = ""
    <2>1. phase' = "exited" /\ envs' = envs
      BY <1>2 DEF EnvVar
    <2>2. CtlOK'
      BY <1>0, <1>1, <2>1 DEF CtlOK
    <2>3. TypeOK'
      BY <1>0, <1>1, <2>1, <2>2, TableFrame, SchemaFrame, CurFrame,
         TypeOKFromParts
    <2>4. QED
      BY <1>1, <2>1, <2>3 DEF RtInv, IdsArePositions, SchemaIsTable,
         BusyRunning, ErrAtPlace, RouteRoundTrip, ErrorAnswered
  <1>3. CASE n # ""
    <2>1. phase' = phase /\ envs' = envs \cup {n}
      BY <1>3 DEF EnvVar
    <2>2. CtlOK'
      BY <1>0, <1>1, <2>1 DEF CtlOK
    <2>3. TableOK'
      BY <1>0, <1>1, <1>3, <2>1 DEF TableOK
    <2>4. TypeOK'
      BY <1>0, <1>1, <2>2, <2>3, SchemaFrame, CurFrame, TypeOKFromParts
    <2>5. QED
      BY <1>1, <2>1, <2>4 DEF RtInv, IdsArePositions, SchemaIsTable,
         BusyRunning, ErrAtPlace, RouteRoundTrip, ErrorAnswered
  <1>4. QED
    BY <1>2, <1>3

LEMMA DependencyRtInv ==
  ASSUME RtInv, NEW n \in DepNames, NEW typ \in DepType \ {"none"},
         Dependency(n, typ)
  PROVE  RtInv'
  <1>0. CtlOK /\ TableOK /\ SchemaOK /\ CurOK
    BY TypeOKParts DEF RtInv
  <1>1. /\ deps' = [deps EXCEPT ![n] = typ] /\ phase = "setup"
        /\ UNCHANGED <<phase, export, envs, routes, hasDef, schema, wpc, cur,
                       target, err, answer, handled>>
    BY DEF Dependency
  <1>2. deps' \in [DepNames -> DepType]
    <2>1. deps \in [DepNames -> DepType]
      BY <1>0 DEF TableOK
    <2>2. QED
      BY <1>1, <2>1
  <1>3. TypeOK'
    <2>1. CtlOK'
      BY <1>0, <1>1 DEF CtlOK
    <2>2. TableOK'
      BY <1>0, <1>1, <1>2 DEF TableOK
    <2>3. QED
      BY <1>0, <1>1, <2>1, <2>2, SchemaFrame, CurFrame, TypeOKFromParts
  <1>4. QED
    BY <1>1, <1>3 DEF RtInv, IdsArePositions, SchemaIsTable, BusyRunning,
       ErrAtPlace, RouteRoundTrip, ErrorAnswered

\* Start sends compDef, so the schema is the table from here on.
LEMMA StartRtInv == ASSUME RtInv, Start PROVE RtInv'
  <1>0. CtlOK /\ TableOK /\ SchemaOK /\ CurOK
    BY TypeOKParts DEF RtInv
  <1>1. /\ schema' = CompDef /\ phase = "setup"
        /\ phase' \in {"running", "exported", "exited"}
        /\ UNCHANGED <<export, envs, deps, routes, hasDef, wpc, cur, target,
                       err, answer, handled>>
    BY DEF Start
  <1>2. SchemaOK'
    <2>1. /\ routes \in Seq(RouteRec) /\ hasDef \in BOOLEAN
          /\ envs \in SUBSET EnvNames /\ deps \in [DepNames -> DepType]
      BY <1>0 DEF TableOK
    <2>2. QED
      BY <1>1, <2>1, SchemaIsTyped, Zenon DEF CompDef, SchemaOK
  <1>3. CtlOK'
    BY <1>0, <1>1 DEF CtlOK
  <1>4. TypeOK'
    BY <1>0, <1>1, <1>2, <1>3, TableFrame, CurFrame, TypeOKFromParts
  <1>5. QED
    BY <1>1, <1>4 DEF CompDef, RtInv, IdsArePositions, SchemaIsTable,
       BusyRunning, ErrAtPlace, RouteRoundTrip, ErrorAnswered

\* The broker's choice from the schema lands on the route it meant: the
\* id of the i-th route is i - 1, inside recvReq's bound check, and an id
\* outside -1..MaxRoutes-1 is outside the table.
LEMMA DispatchChoice ==
  ASSUME RtInv, phase = "running", NEW m \in BrokerChoice
  PROVE  /\ Dispatch(m.rid) \in Target
         /\ m.want \in Rules => Dispatch(m.rid) = m.want
         /\ m.want = "default" => (Dispatch(m.rid) = "default" <=> schema.def)
         /\ m.want = "invalid" => Dispatch(m.rid) = "none"
         /\ m.rid \in Int /\ m.want \in Wanted
  <1>0. /\ routes \in Seq(RouteRec) /\ Len(routes) <= MaxRoutes
        /\ hasDef \in BOOLEAN
        /\ schema.routes = routes /\ schema.def = hasDef
    BY DEF RtInv, TypeOK, SchemaIsTable
  <1>1. CASE \E i \in 1..Len(schema.routes) :
               m = [rid |-> schema.routes[i].id, want |-> schema.routes[i].rule]
    <2>1. PICK i \in 1..Len(routes) :
                m = [rid |-> routes[i].id, want |-> routes[i].rule]
      BY <1>0, <1>1
    <2>2. routes[i].id = i - 1 /\ routes[i].rule \in Rules
      BY <1>0, RouteAt, Zenon DEF RtInv, IdsArePositions
    <2>3. i - 1 \in Int /\ i - 1 >= 0 /\ i - 1 < Len(routes)
      BY <1>0, LenProperties
    <2>4. Dispatch(i - 1) = routes[i].rule
      BY <2>3, DispatchIndex
    <2>5. QED
      BY <2>1, <2>2, <2>4, RouterConsts
  <1>2. CASE m = [rid |-> DefaultRouteId, want |-> "default"]
    BY <1>0, <1>2, DispatchDefault
  <1>3. CASE \E b \in BadIds : m = [rid |-> b, want |-> "invalid"]
    <2>1. PICK b \in BadIds : m = [rid |-> b, want |-> "invalid"]
      BY <1>3
    <2>2. b \in Int /\ b # -1 /\ ~(b >= 0 /\ b < Len(routes))
      BY <1>0, LenProperties
    <2>3. QED
      BY <2>1, <2>2, DispatchOutside
  <1>4. QED
    BY <1>1, <1>2, <1>3 DEF BrokerChoice

LEMMA ReceiveRtInv == ASSUME RtInv, Receive PROVE RtInv'
  <1>1. PICK m \in BrokerChoice, t \in 1..MaxTTL, w \in 0..MaxDelay :
          /\ cur' = [rid |-> m.rid, want |-> m.want, ttl |-> t - w]
          /\ target' = Dispatch(m.rid)
          /\ err' = IF Dispatch(m.rid) = "none" THEN "notFound" ELSE "none"
          /\ wpc' = IF Dispatch(m.rid) = "none" THEN "errResp" ELSE "handler"
    BY Zenon DEF Receive
  <1>2. /\ phase = "running" /\ handled < MaxReqs
        /\ handled' = handled + 1 /\ answer' = "none"
        /\ UNCHANGED <<phase, export, envs, deps, routes, hasDef, schema>>
    BY DEF Receive
  <1>3. /\ Dispatch(m.rid) \in Target
        /\ m.want \in Rules => Dispatch(m.rid) = m.want
        /\ m.want = "default" => (Dispatch(m.rid) = "default" <=> schema.def)
        /\ m.want = "invalid" => Dispatch(m.rid) = "none"
        /\ m.rid \in Int /\ m.want \in Wanted
    BY <1>2, DispatchChoice
  <1>4. cur' \in [rid : Int, want : Wanted, ttl : Int]
    <2>1. t - w \in Int
      OBVIOUS
    <2>2. QED
      BY <1>1, <1>3, <2>1, Zenon
  <1>0. CtlOK /\ TableOK /\ SchemaOK /\ CurOK
    BY TypeOKParts DEF RtInv
  <1>5. CtlOK'
    BY <1>0, <1>1, <1>2, <1>3 DEF CtlOK
  <1>6. TypeOK'
    BY <1>0, <1>2, <1>4, <1>5, TableFrame, SchemaFrame, TypeOKFromParts
      DEF CurOK
  <1>7. QED
    BY <1>1, <1>2, <1>3, <1>6, RouterConsts DEF RtInv, IdsArePositions,
       SchemaIsTable, BusyRunning, ErrAtPlace, RouteRoundTrip, ErrorAnswered

LEMMA HandlerRtInv == ASSUME RtInv, HandlerReturns PROVE RtInv'
  <1>1. PICK d \in 0..MaxDelay, ok \in BOOLEAN :
          /\ cur' = [cur EXCEPT !.ttl = @ - d]
          /\ IF ok THEN answer' = "handler" /\ wpc' = "idle" /\ UNCHANGED err
                   ELSE err' = "handler" /\ wpc' = "errResp" /\ UNCHANGED answer
    BY DEF HandlerReturns
  <1>2. /\ wpc = "handler"
        /\ UNCHANGED <<phase, export, envs, deps, routes, hasDef, schema,
                       target, handled>>
    BY DEF HandlerReturns
  <1>3. cur'.want = cur.want /\ cur' \in [rid : Int, want : Wanted, ttl : Int]
    <2>0. cur \in [rid : Int, want : Wanted, ttl : Int]
      BY TypeOKParts DEF RtInv, CurOK
    <2>1. cur.ttl \in Int
      BY <2>0, Zenon
    <2>3. cur.ttl - d \in Int
      BY <2>1
    <2>2. QED
      BY <1>1, <2>0, <2>3, TtlUpdate
  <1>4. TypeOK'
    <2>1. CtlOK /\ TableOK /\ SchemaOK
      BY TypeOKParts DEF RtInv
    <2>2. CtlOK'
      BY <1>1, <1>2, <2>1 DEF CtlOK
    <2>3. QED
      BY <1>2, <1>3, <2>1, <2>2, TableFrame, SchemaFrame, TypeOKFromParts
        DEF CurOK
  <1>5. QED
    BY <1>1, <1>2, <1>3, <1>4 DEF RtInv, IdsArePositions, SchemaIsTable,
       BusyRunning, ErrAtPlace, RouteRoundTrip, ErrorAnswered

LEMMA ErrRespRtInv == ASSUME RtInv, ErrResp PROVE RtInv'
  <1>1. /\ wpc = "errResp" /\ wpc' = "idle"
        /\ answer' = IF cur.ttl < 0 THEN "dropped" ELSE "error"
        /\ UNCHANGED <<phase, export, envs, deps, routes, hasDef, schema, cur,
                       target, err, handled>>
    BY DEF ErrResp
  <1>2. TypeOK'
    <2>1. CtlOK /\ TableOK /\ SchemaOK /\ CurOK
      BY TypeOKParts DEF RtInv
    <2>2. CtlOK'
      BY <1>1, <2>1 DEF CtlOK
    <2>3. QED
      BY <1>1, <2>1, <2>2, TableFrame, SchemaFrame, CurFrame, TypeOKFromParts
  <1>3. QED
    BY <1>1, <1>2 DEF RtInv, IdsArePositions, SchemaIsTable, BusyRunning,
       ErrAtPlace, RouteRoundTrip, ErrorAnswered

LEMMA StutterTypeOK ==
  ASSUME TypeOK,
         /\ phase' = phase /\ export' = export /\ envs' = envs
         /\ deps' = deps /\ routes' = routes /\ hasDef' = hasDef
         /\ schema' = schema /\ wpc' = wpc /\ cur' = cur
         /\ target' = target /\ err' = err /\ answer' = answer
         /\ handled' = handled
  PROVE  TypeOK'
  <1>1. CtlOK /\ TableOK /\ SchemaOK /\ CurOK
    BY TypeOKParts
  <1>2. CtlOK'
    BY <1>1 DEF CtlOK
  <1>3. QED
    BY <1>1, <1>2, TableFrame, SchemaFrame, CurFrame, TypeOKFromParts

LEMMA NextRtInv == RtInv /\ [Next]_vars => RtInv'
  <1> SUFFICES ASSUME RtInv, [Next]_vars PROVE RtInv'
    OBVIOUS
  <1>1. CASE \E r \in Rules : Route(r)
    BY <1>1, RouteRtInv
  <1>2. CASE UNCHANGED vars
    <2>1. /\ phase' = phase /\ export' = export /\ envs' = envs
          /\ deps' = deps /\ routes' = routes /\ hasDef' = hasDef
          /\ schema' = schema /\ wpc' = wpc /\ cur' = cur
          /\ target' = target /\ err' = err /\ answer' = answer
          /\ handled' = handled
      BY <1>2 DEF vars
    <2>2. TypeOK'
      BY <2>1, StutterTypeOK DEF RtInv
    <2>3. QED
      BY <2>1, <2>2 DEF RtInv, IdsArePositions, SchemaIsTable, BusyRunning,
                        ErrAtPlace, RouteRoundTrip, ErrorAnswered
  <1>3. QED
    BY <1>1, <1>2, DefaultRtInv, EnvVarRtInv, DependencyRtInv, StartRtInv,
       ReceiveRtInv, HandlerRtInv, ErrRespRtInv
       DEF Next

LEMMA RtInvSpec == Spec => []RtInv
  BY InitRtInv, NextRtInv, PTL DEF Spec

\* Every reachable state of registration and dispatch is well typed, for
\* every set of rules and bound on routes.
THEOREM RouterTypeCorrect == Spec => []TypeOK
  BY RtInvSpec, PTL DEF RtInv

\* kit.Route's ids and kit.recvReq's bound check agree for every table
\* size: a request the broker routed to a rule runs that rule's handler,
\* the default id runs the default handler exactly when one was
\* registered, and an id outside the table runs none.
THEOREM RoundTrip == Spec => []RouteRoundTrip
  BY RtInvSpec, PTL DEF RtInv

\* A request that fails in kit.recvReq (NotFound or a handler error) is
\* always answered with an error response, unless its TTL ran out.
THEOREM FailuresAnswered == Spec => []ErrorAnswered
  BY RtInvSpec, PTL DEF RtInv

=============================================================================
