------------------------------- MODULE Router -------------------------------
(***************************************************************************)
(* Route registration and request dispatch of the kit (src/kit/kit.go):    *)
(* Route and Default build the route table before Start, the REGISTER      *)
(* event carries it to the broker, and kit.recvReq maps each inbound       *)
(* request's RouteId to a handler, runs it under the request's remaining   *)
(* TTL and turns an error into an error response.  One worker is enough   *)
(* here: workers share the route table read-only.                          *)
(***************************************************************************)
EXTENDS Integers, Sequences

CONSTANTS
    Rules,        \* route rules a component may register (model values)
    SecretRules,  \* the rules that use env secrets (Route exits on them)
    MaxRoutes,    \* bound on Route calls
    BadIds,       \* RouteIds outside the table the broker may still send
    MaxTTL,       \* bound on the TTL of an inbound request
    MaxDelay,     \* bound on a queueing or handler delay
    MaxReqs,      \* bound on inbound requests
    EnvNames,     \* names given to EnvVar; "" is among them
    DepNames      \* names given to Component and HTTPAdapter

ASSUME RouterAssumption ==
    /\ SecretRules \subseteq Rules
    /\ MaxRoutes \in Nat /\ MaxTTL \in Nat \ {0}
    /\ MaxDelay \in Nat /\ MaxReqs \in Nat
    /\ BadIds \subseteq Int \ (-1..MaxRoutes - 1)
    /\ "" \in EnvNames
    /\ Rules \cap {"default", "invalid", "none"} = {}

\* api.DefaultRouteId.
DefaultRouteId == -1

\* What the broker meant by a RouteId: a registered rule, the default
\* handler, or nothing valid.
Wanted == Rules \cup {"default", "invalid"}

\* The handler kit.recvReq picks: a route's rule, the default handler, or
\* none (then err is NotFound).
Target == Rules \cup {"default", "none"}

\* The component types of a dependency (none: not declared).
DepType == {"none", "kubefox", "http"}

\* kit.New's command line: -help, -export, whether the four required
\* flags are all given, whether -hash matches the build's hash.
Flags == [help : BOOLEAN, export : BOOLEAN, required : BOOLEAN, hashOk : BOOLEAN]

\* kit.New exits: with usage on -help; on a missing required flag or a
\* hash other than the build's, unless the definition is only exported.
NewExits(f) == f.help \/ (~f.export /\ ~(f.required /\ f.hashOk))

VARIABLES
    phase,    \* "setup", "running" (after Start), "exported" or "exited"
    export,   \* svc.export
    envs,     \* the keys of compDef.EnvVarSchema
    deps,     \* compDef.Dependencies: name -> type
    routes,   \* svc.routes: a sequence of [id, rule]
    hasDef,   \* svc.defHandler # nil
    schema,   \* compDef as sent in REGISTER or printed: [routes, def, envs, deps]
    wpc,      \* the worker: "idle", "handler" or "errResp"
    cur,      \* the request being handled: [rid, want, ttl]
    target,   \* the handler recvReq chose for it
    err,      \* recvReq's err: "none", "notFound" or "handler"
    answer,   \* how the last request ended: "none", "handler", "error", "dropped"
    handled   \* requests received so far

vars == <<phase, export, envs, deps, routes, hasDef, schema, wpc, cur, target,
          err, answer, handled>>

regVars == <<export, envs, deps>>

RouteRec == [id : Int, rule : Rules]

TypeOK ==
    /\ phase \in {"setup", "running", "exported", "exited"}
    /\ export \in BOOLEAN
    /\ envs \subseteq EnvNames \ {""}
    /\ deps \in [DepNames -> DepType]
    /\ routes \in Seq(RouteRec) /\ Len(routes) <= MaxRoutes
    /\ hasDef \in BOOLEAN
    /\ schema \in [routes : Seq(RouteRec), def : BOOLEAN,
                   envs : SUBSET EnvNames, deps : [DepNames -> DepType]]
    /\ wpc \in {"idle", "handler", "errResp"}
    /\ cur \in [rid : Int, want : Wanted, ttl : Int]
    /\ target \in Target
    /\ err \in {"none", "notFound", "handler"}
    /\ answer \in {"none", "handler", "error", "dropped"}
    /\ handled \in 0..MaxReqs

\* The definition compDef holds now.
CompDef == [routes |-> routes, def |-> hasDef, envs |-> envs, deps |-> deps]

\* kit.New: an empty route table, no default handler, no env vars or
\* dependencies; the process has exited if the command line is refused.
Init ==
    /\ \E f \in Flags :
          /\ phase = IF NewExits(f) THEN "exited" ELSE "setup"
          /\ export = f.export
    /\ envs = {}
    /\ deps = [n \in DepNames |-> "none"]
    /\ routes = <<>>
    /\ hasDef = FALSE
    /\ schema = [routes |-> <<>>, def |-> FALSE, envs |-> {},
                  deps |-> [n \in DepNames |-> "none"]]
    /\ wpc = "idle"
    /\ cur = [rid |-> DefaultRouteId, want |-> "invalid", ttl |-> 0]
    /\ target = "none" /\ err = "none" /\ answer = "none"
    /\ handled = 0

-----------------------------------------------------------------------------
(* Registration, before Start.                                             *)

\* Mutant: ids counted from 1.
RouteOneBased(r) ==
    /\ phase = "setup" /\ Len(routes) < MaxRoutes
    /\ IF r \in SecretRules
          THEN phase' = "exited" /\ UNCHANGED routes
          ELSE routes' = Append(routes, [id |-> Len(routes) + 1, rule |-> r])
               /\ UNCHANGED phase
    /\ UNCHANGED <<regVars, hasDef, schema, wpc, cur, target, err, answer,
                   handled>>

\* Route: a rule using env secrets is fatal; otherwise the route gets the
\* next id, its position in svc.routes, and is appended to the table and to
\* compDef.Routes.
Route(r) ==
    /\ phase = "setup" /\ Len(routes) < MaxRoutes
    /\ IF r \in SecretRules
          THEN phase' = "exited" /\ UNCHANGED routes
          ELSE routes' = Append(routes, [id |-> Len(routes), rule |-> r])
               /\ UNCHANGED phase
    /\ UNCHANGED <<regVars, hasDef, schema, wpc, cur, target, err, answer,
                   handled>>

\* Default: set (or clear, with nil) the default handler.
Default(h) ==
    /\ phase = "setup"
    /\ hasDef' = h
    /\ UNCHANGED <<phase, regVars, routes, schema, wpc, cur, target, err,
                   answer, handled>>

\* EnvVar: an empty name is fatal; otherwise the variable's schema is
\* (re)set in compDef.EnvVarSchema.
EnvVar(n) ==
    /\ phase = "setup"
    /\ IF n = "" THEN phase' = "exited" /\ UNCHANGED envs
                 ELSE envs' = envs \cup {n} /\ UNCHANGED phase
    /\ UNCHANGED <<export, deps, routes, hasDef, schema, wpc, cur, target,
                   err, answer, handled>>

\* Component and HTTPAdapter: dependency records the name with its type,
\* replacing an earlier declaration of the same name.
Dependency(n, typ) ==
    /\ phase = "setup"
    /\ deps' = [deps EXCEPT ![n] = typ]
    /\ UNCHANGED <<phase, export, envs, routes, hasDef, schema, wpc, cur,
                   target, err, answer, handled>>

\* What StartHealthSrv returns: nil when the address is "" or "false",
\* nil once it listens (Serve runs in its own goroutine), or the error of
\* net.Listen.
HealthListen == {"disabled", "ok", "fail"}

\* kit.Start: with -export compDef is printed and the process exits 0.
\* Otherwise StartHealthSrv runs first: disabled (address "" or "false"),
\* listening, or failing to listen, which makes start return an error and
\* Start exit 1.  Then the REGISTER event carries compDef; the table is
\* fixed from here on.
Start ==
    /\ phase = "setup"
    /\ schema' = CompDef
    /\ \/ export /\ phase' = "exported"
       \/ ~export /\ \E listen \in HealthListen :
             phase' = IF listen = "fail" THEN "exited" ELSE "running"
    /\ UNCHANGED <<regVars, routes, hasDef, wpc, cur, target, err, answer,
                   handled>>

-----------------------------------------------------------------------------
(* Dispatch, after Start.                                                  *)

\* The RouteIds the broker may send, with what it meant by each: the id of
\* a route it matched in the REGISTER schema, the default sentinel, or an
\* id outside the table.
BrokerChoice ==
    {[rid |-> schema.routes[i].id, want |-> schema.routes[i].rule] :
        i \in 1..Len(schema.routes)}
    \cup {[rid |-> DefaultRouteId, want |-> "default"]}
    \cup {[rid |-> b, want |-> "invalid"] : b \in BadIds}

\* Mutant: the bound check admits the id one past the table, whose index
\* expression panics.
DispatchOffByOne(rid) ==
    CASE rid = DefaultRouteId -> IF hasDef THEN "default" ELSE "none"
      [] rid >= 0 /\ rid <= Len(routes) ->
            IF rid < Len(routes) THEN routes[rid + 1].rule ELSE "panic"
      [] OTHER -> "none"

\* kit.recvReq's switch on RouteId: the default handler (NotFound when
\* there is none), svc.routes[RouteId] when it is an index of the table,
\* NotFound otherwise.
Dispatch(rid) ==
    CASE rid = DefaultRouteId -> IF hasDef THEN "default" ELSE "none"
      [] rid >= 0 /\ rid < Len(routes) -> routes[rid + 1].rule
      [] OTHER -> "none"

\* A worker takes a request from recvCh: ReduceTTL by the time since it was
\* received (t - w), the TTL-bound context, and the handler choice.
Receive ==
    /\ phase = "running" /\ wpc = "idle" /\ handled < MaxReqs
    /\ \E m \in BrokerChoice, t \in 1..MaxTTL, w \in 0..MaxDelay :
          /\ cur' = [rid |-> m.rid, want |-> m.want, ttl |-> t - w]
          /\ target' = Dispatch(m.rid)
          /\ err' = IF Dispatch(m.rid) = "none" THEN "notFound" ELSE "none"
          /\ wpc' = IF Dispatch(m.rid) = "none" THEN "errResp" ELSE "handler"
    /\ handled' = handled + 1
    /\ answer' = "none"
    /\ UNCHANGED <<phase, regVars, routes, hasDef, schema>>

\* Mutant: a handler's error is dropped (no error response).
HandlerReturnsNoErrResp ==
    /\ wpc = "handler"
    /\ \E d \in 0..MaxDelay, ok \in BOOLEAN :
          /\ cur' = [cur EXCEPT !.ttl = @ - d]
          /\ IF ok THEN answer' = "handler" /\ wpc' = "idle" /\ UNCHANGED err
                   ELSE err' = "handler" /\ wpc' = "idle" /\ UNCHANGED answer
    /\ UNCHANGED <<phase, regVars, routes, hasDef, schema, target, handled>>

\* The handler returns after d ticks: nil (it answered, or chose not to),
\* or an error.
HandlerReturns ==
    /\ wpc = "handler"
    /\ \E d \in 0..MaxDelay, ok \in BOOLEAN :
          /\ cur' = [cur EXCEPT !.ttl = @ - d]
          /\ IF ok THEN answer' = "handler" /\ wpc' = "idle" /\ UNCHANGED err
                   ELSE err' = "handler" /\ wpc' = "errResp" /\ UNCHANGED answer
    /\ UNCHANGED <<phase, regVars, routes, hasDef, schema, target, handled>>

\* err != nil: an error event is forwarded as the response; send refuses it
\* when the remaining TTL is negative (the failure is only logged).
ErrResp ==
    /\ wpc = "errResp"
    /\ answer' = IF cur.ttl < 0 THEN "dropped" ELSE "error"
    /\ wpc' = "idle"
    /\ UNCHANGED <<phase, regVars, routes, hasDef, schema, cur, target, err,
                   handled>>

Next ==
    \/ \E r \in Rules : Route(r)
    \/ \E h \in BOOLEAN : Default(h)
    \/ \E n \in EnvNames : EnvVar(n)
    \/ \E n \in DepNames, typ \in DepType \ {"none"} : Dependency(n, typ)
    \/ Start \/ Receive \/ HandlerReturns \/ ErrResp

Spec == Init /\ [][Next]_vars

-----------------------------------------------------------------------------
(* Properties.                                                             *)

\* Spec 5.2, round trip: a request the broker routed to a registered rule
\* runs that rule's handler, the default sentinel runs the default handler
\* exactly when one was registered, and any other id runs no handler.  It
\* rests on Route's ids (len before append) agreeing with recvReq's
\* indexing of svc.routes and its bound check.
RouteRoundTrip ==
    wpc # "idle" =>
        /\ cur.want \in Rules => target = cur.want
        /\ cur.want = "default" => (target = "default" <=> schema.def)
        /\ cur.want = "invalid" => target = "none"

\* Spec 4.3: a request that fails (NotFound or a handler error) is answered
\* with an error response, unless its remaining TTL ran out first.
ErrorAnswered ==
    (wpc = "idle" /\ err # "none" /\ handled > 0) =>
        /\ answer \in {"error", "dropped"}
        /\ answer = "dropped" => cur.ttl < 0
=============================================================================
