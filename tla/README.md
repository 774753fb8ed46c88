# Verification of kubefox components and operator

This directory holds TLA+ models of kubefox:

- the gRPC client to the broker, in `src/grpc/client.go`;
- the component runtime (the "kit"), in `src/kit/kit.go`: its worker pool,
  its route table and its request dispatch;
- the operator's Platform reconciler, in
  `src/components/operator/controller/platform_controller.go`;
- the name, label, join and bit helpers of `src/utils/utils.go`.

The models come with TLC configurations that check them on small instances
and TLAPS proofs of their main invariants for every value of the constants.

## The system and its parts

A component is a process that runs the kit. `kit.start` does three things:

- It starts `Client.Start` in a goroutine. `Client.Start` is the connection
  supervisor.
- It starts `numWorkers` worker goroutines.
- It waits for the workers on a `sync.WaitGroup`.

The supervisor loops while `attempt < maxAttempts`, where `maxAttempts` is 5.
Each pass calls `run`, which does the following:

1. It dials the broker and subscribes.
2. It replaces `c.brk` with the new stream.
3. It sends the REGISTER event and takes the first event received as the
   broker's answer. It then sets `healthy`.
4. It enters a receive loop, which starts a goroutine for each inbound
   envelope:
   - a REQUEST gets `go c.recvReq`, which blocks on the unbuffered `recvCh`
     until a worker takes it;
   - a RESPONSE gets `go c.recvResp`.

How a run ends decides the next attempt number:

- A run that fails before registering returns `retry + 1`.
- A run that registered and then lost its stream returns 0.

After the loop, `Start` sends the last error on `errCh` and closes the
channel.

Each worker selects on two channels:

- On `recvCh` it runs `kit.recvReq`, which routes the request to a handler
  and sends an error response if the handler fails.
- On `errCh` it assigns what it received to `start()`'s `err` and returns.

Handlers make outbound calls with `SendReq`, which works as follows:

1. `SendReqChan` stores an entry in `reqMap` under the request id. The entry
   holds a fresh unbuffered channel and the expiration `now + TTL`.
2. `send` reduces the TTL by the time elapsed since `start`, and aborts if
   the result is negative. Otherwise it writes to `c.brk` under `sendMutex`.
3. `SendReq` selects on three things: the response channel, the caller's
   context, and `c.brk.Context()`.

The other goroutines involved:

- A `recvResp` goroutine looks up and deletes `reqMap[parentId]` under the
  lock, then hands the response to the stored channel.
- The reaper wakes every 30s and deletes the entries whose expiration is more
  than 30s in the past.

### Inventory

| Component | Source | State | Operations | Module |
|---|---|---|---|---|
| Correlation engine | client.go 209-293, 380-405 | `reqMap` (id → channel, expiration), each caller's goroutine, the `recvResp` goroutines | SendReqChan, send, SendReq's select, recvResp, reaper | `Client`, abstract spec `Correlation`, proofs in `ClientProofs` |
| Connection supervisor | client.go 92-199 | `attempt`, `c.brk`, `healthy`, `errCh` | Start, run (dial, subscribe, register, receive), ServeHTTP's health answer | `Lifecycle`, abstract spec `Supervision`, with stream replacement in `Client` |
| Worker pool | kit.go 234-272 | workers, `wg`, shared `err` | worker select, return | `Lifecycle` |
| Router | kit.go 274-343 | route table, default handler | recvReq dispatch, error response | `Router`; one `FinishReq` step in `Lifecycle` |
| Route registration | kit.go 154-224 | `routes`, `defHandler`, env vars, dependencies | Route, Default, EnvVar, dependency | `Router` |
| Kit construction | kit.go 46-111, 226-248 | flags, `export`, `compDef` | kit.New's exits, kit.Start's export and health-server branches | `Router` (flag parsing and logging left out) |
| Platform reconciler | operator/controller/platform_controller.go | `setupMap`, the work queue, Vault, the cluster | Reconcile, reconcile, setupVaultPlatform, setupVaultComponent, updateComponentsStatus | `Reconciler`, proofs in `ReconcilerProofs` |
| Utilities | utils/utils.go | none | CleanName, IsValidName, CleanLabel, Join, bit helpers | `Utils` (flag and env helpers left out) |
| CLI, telemetry, types, deep-copy code | broker main, SendSpans, api/ | none | I/O, generated code | not modelled |

The behaviours that make the code hard to test:

- Duplicate RESPONSEs race in separate goroutines on one entry.
- A late response meets a caller that already returned.
- The reaper's margin meets the caller's own deadline.
- The stream is replaced between `send` and the select.
- Failed runs are counted and the count is reset.
- The pool shuts down after the fatal error.
- A route id is computed at registration and checked again at dispatch.
- The reconciler is interrupted between Vault writes, or the operator
  restarts and loses `setupMap`.
- The Platform changes between the read and the status write.

PROJECT.json lists each of these at its source line.

## Modules

### `Client`: the correlation engine

`Client` models the client as seen by callers. There are two kinds of
constants:

- The requests `Reqs` are model values.
- Time is a discrete clock `now`, advanced by `Tick` up to `MaxTime`. The TTL
  and the reaper margin are `MaxTTL` and `ReapBuffer` ticks.

The state:

- `caller[r]` is the place of the goroutine calling `SendReq` for request r.
- `reqMap` is the set of ids with an entry, and `expiration[r]` is the stored
  expiration.
- `responded[r]` counts the RESPONSEs the broker sent for r. It is bounded by
  `MaxResp`, so duplicates are allowed.
- `lookups[r]` counts the `recvResp` goroutines that have not yet taken the
  lock.
- `blocked[r]` counts the goroutines that found the entry and are sending on
  its channel.
- `conn` is the number of the current stream (`c.brk`), and `up` says whether
  that stream is up.
- `sentOn[r]` is the stream r was written to, and `watch[r]` is the stream
  whose context r's select waits on.

Actions, one per step of the code:

| Action | Code |
|---|---|
| `Register` | SendReqChan's locked insert |
| `SendTimeout`, `SendStreamErr`, `SendOk` | the three outcomes of `send` |
| `EnterSelect` | SendReq reading `c.brk` for its select |
| `Deliver`, `CtxDone`, `BrkDone` | the three select cases |
| `Respond` | the broker's answer arriving, `go recvResp` |
| `Lookup` | recvResp's locked lookup and delete |
| `Reap` | one reaper sweep |
| `StreamFail`, `Reconnect` | loss and replacement of the stream |
| `Tick` | time passing |

`Correlation` is the abstract specification of the table, as spec 4.2
describes it. It has no streams, goroutines or channels: a call goes from
idle to pending to done with one outcome, a response arrives, and an entry
leaves the table when its response arrived or it expired by more than the
margin. `Client` maps onto it (`Corr` in `Client`):

- a call is idle, pending until `SendReq` returns, then done with the way
  it returned;
- the deadline is `start + ttl`;
- the table is `reqMap`;
- a response has arrived once the receive loop read one (`responded > 0`).

`Register` is `Call`, the select cases and the failed sends are `Return`,
the first `Respond` is `Arrive`, a `Lookup` that finds the entry and a sweep
that deletes some are `Remove`, and every other step is a stutter.

`Reap` is one atomic step. The scan holds the read lock, so no insert or
delete can interleave with it. The deletes it makes between dropping and
re-taking the lock commute with a `Lookup` of the same key, because a
deleted key stays deleted. So one step for the whole sweep loses no
behaviours.

### `Lifecycle`: supervisor and worker pool

`Lifecycle` models where each goroutine is:

- `spc` is where `Start` is;
- `attempt` is Start's attempt counter;
- `fails` is a history variable: the number of runs that failed since the
  last registration;
- `healthy` is the health flag, and `conns` counts the subscriptions made;
- `received` and `pending` count the REQUESTs read and those not yet taken
  by a worker;
- `wpc[w]` is where worker w is;
- `wg` is the WaitGroup counter;
- `startErr` is the `err` shared by the workers.

Supervisor actions:

- `DialFail`, `Subscribed`, `RegisterFail` and `Registered` are the exits of
  `run` before its receive loop.
- `RecvRequest` and `StreamLost` are steps of the receive loop.
- `Wake` is the loop test after the sleep.

Worker actions:

- `TakeReq` and `FinishReq` take a request and run `recvReq`.
- `TakeErr` receives the fatal error, which closes `errCh`.
- `TakeClosed` receives the nil from the closed channel.
- `WorkerReturn` is the assignment to `err` and the `wg.Done`.

`Supervision` is the abstract specification of the supervisor, as spec 4.1
states it. It has two variables:

- `link`, which is `"down"`, `"up"`, `"gaveUp"` or `"surfaced"`;
- `streak`, the number of consecutive failed attempts.

Its actions are:

- `Fail` and `Connect`, which are allowed only while `streak < MaxAttempts`;
- `Connect` starts a fresh streak;
- `Drop` loses the link and keeps the streak at 0;
- `GiveUp` is allowed only when `streak = MaxAttempts`;
- `Surface` follows `GiveUp`.

`Lifecycle` maps onto it with `Sup == INSTANCE Supervision`:

- the link is `"up"` exactly while `healthy` holds, which is when
  `ServeHTTP` answers 200;
- it is `"gaveUp"` while the error waits on `errCh` (`spc = "fatal"`);
- it is `"surfaced"` once a worker has taken the error;
- the streak is `attempt` while unhealthy, and 0 while healthy.

### `Router`: route table and dispatch

`Router` models one component's route table and one worker, since workers
share the table read-only. The constants:

- `Rules` are model values, and `SecretRules` are the ones `Route` refuses.
- `BadIds` are RouteIds outside the table that the broker may send.
- Bounds on routes, TTL, delays and requests.
- `EnvNames` and `DepNames`, the names a component may declare; `""` is
  among the env names, the name kit.EnvVar refuses.

The state:

- `routes` is `svc.routes`, a sequence of `[id, rule]`, and `hasDef` says
  whether `defHandler` is set.
- `schema` is the `compDef` sent with REGISTER.
- `wpc` is the worker's place.
- `cur` is the request being handled, with the broker's intent `want` and
  its remaining TTL.
- `target` and `err` are recvReq's handler choice and error.
- `answer` is how the request ended.

The actions:

| Action | Code |
|---|---|
| `Init` | kit.New: its flags decide whether it exits (help, or no export flag and no platform/hash pair) |
| `Route` | kit.Route: exits on a rule with secrets, else the id is `len(routes)` |
| `EnvVar`, `Dependency` | kit.EnvVar (exits on an empty name) and the dependency helpers |
| `Default` | kit.Default |
| `Start` | kit.Start: with `--export` it prints compDef and stops; else the health server may fail to listen (exit), then kit.start sends compDef |
| `Receive` | recvReq up to the switch: ReduceTTL and `Dispatch` |
| `HandlerReturns`, `ErrResp` | the handler's result and the error response |

The broker's choice of RouteId comes from the REGISTER schema, so the run
asks whether the ids the kit hands out at registration select the same
handlers at dispatch.

### `Reconciler`: the Platform controller

`Reconciler` models the controller for one Platform key. The work queue
de-duplicates the key (`queued`). The controller's pass is a program
counter `rpc`, with the component index `ci` and the Vault call index `vi`.
The state:

- `setupPlat` and `setupComp` are `setupMap`, which is in memory.
- Vault state persists across restarts: `ds` (the data stores), `pki` (how
  far the PKI writes got) and `vcomp` (component roles and policies).
- The cluster is abstracted to flags: the Namespace phase, whether the
  Platform exists, a misconfigured debug spec, the root CA ConfigMap, each
  component's `applied` and `ready`, and the stored Available condition
  `cond`.
- `changed` says whether the Platform changed since the pass read it.
- `flaky` says whether API calls may still fail.

There is one action per call of `Reconcile`, `reconcile`,
`setupVaultPlatform` and `setupVaultComponent`:

- `GetNs`, `GetPlat` and `ReconcileStart` are the reads and early returns.
- `CreateDataStore`, `MountExists`, `PKIWrite` and `VaultFail` are the
  Vault calls.
- `CompVault` and `CompSetup` run for each component in the order of
  `CompSeq`.
- `Apps` is ReconcileApps, and `Status` is `updateComponentsStatus` plus
  the status write.

The environment actions:

- `CreatePlatform`, `EditPlatform`, `DeleteNamespace` and `NamespaceGone`
  change the cluster.
- `BecomeReady` and `BecomeUnready` change the pods.
- `CreateCA` creates the root CA ConfigMap.
- `Restart` restarts the operator, and `Calm` ends the failures.

### `Utils`: string and bit helpers

Strings are sequences of one-character strings. The characters are drawn
from character classes:

- a lowercase letter stands for `[a-z0-9]` and an uppercase letter for
  `[A-Z]`;
- `-`, `_`, `.` and `/` are the characters the code treats specially;
- `*` stands for any other character.

The module models `filepath.Base`, `strings.ToLower` and the regexps by
what they do. The suffix regexp is matched by its leftmost-match semantics.
Integers are W-bit, and `1 << pos` wraps to 0 at the width. A run examines
one input per state: a string, a Join call, or a number and a position.

## Runs

| Run | Config | What it shows |
|---|---|---|
| client | `MC_Client.cfg`: 1 request, TTL ≤ 3, margin 1, 9 ticks, 3 responses, 3 streams, `FairSpec` | `AtMostOnceDelivery`: at most one response is ever handed to a caller. `NoStrandedWaiter`: a caller still before its deadline never loses its entry while no delivery is pending for it. `EntriesEventuallyReaped`: every entry is removed, including the one a failed send leaves behind. `CallerReturns`: every `SendReq` returns. `ImplementsCorrelation`: every behaviour is one of `Correlation`. |
| client_late_response_leak | violation | `NoLeakedDelivery` fails: a response after the deadline blocks its `recvResp` goroutine for ever. |
| client_stale_broker_context | violation | `WaitSeesStreamLoss` fails: a caller waits on the new stream and misses the loss of the one its request went out on. |
| lifecycle | `MC_Lifecycle.cfg`: 2 workers, 3 attempts, 2 subscriptions, 3 requests, `CodeFairSpec` | `FatalAfterBudget`: the fatal error comes after exactly maxAttempts consecutive failed runs. `RetryLoopEnds`: whatever the broker does, a run that ended is always followed by a new REGISTER on a fresh stream or by the error reaching a worker. `AttemptResetOnlyAfterConnection` (action property): the attempt counter goes down only when a registered run ends, and the health flag drops in the same step. `ImplementsSupervision`: every behaviour is one of `Supervision` under the mapping above. |
| lifecycle_waitgroup | violation | `WaitGroupDrains` fails: after every worker returns, `wg` is still `numWorkers`, so `kit.start` hangs. |
| lifecycle_err_overwritten | violation | `StartErrKept` fails: the last worker to return can overwrite the error with nil. |
| lifecycle_handshake_hang | violation, `CodeFairSpec` | `HandshakeEnds` fails: with a broker that never answers REGISTER, `run` waits in `Recv` for ever and the supervisor never retries. |
| router | `MC_Router.cfg`: 3 rules (one with secrets), 3 routes, ids −2 and 3 outside the table, TTL ≤ 2, delays ≤ 2, 2 requests, env names `""` and one other, one dependency | `RouteRoundTrip`: a request the broker routed to a rule runs that rule's handler; the default id runs the default handler exactly when one is registered; other ids run none. `ErrorAnswered`: a failed request gets an error response unless its TTL ran out. |
| reconciler | `MC_Reconciler_live.cfg`: 2 components (nats, broker), `FairSpec` | `AvailableMeansSetUp`: Available=True is stored only when every component was applied and set up in Vault, across failures, restarts and edits. `Converges`: once failures stop, a Platform that can be set up becomes Available. |
| reconciler_pki_skip | violation | `AvailableMeansPKI` fails: a restart after the PKI mount is created leads to Available=True with no signed intermediate. |
| utils | `MC_Utils.cfg`: strings of ≤ 4 characters over 7 classes, name limit 3, 4-bit integers | `CleanLabelContract`: CleanLabel equals its comment's description and is idempotent. `BitOpsExact`: the bit helpers act on exactly one bit. `JoinMatchesComment`: with a one-byte separator Join skips empty elements wherever they are. |
| utils_clean_name | violation | `CleanNameValid` fails: CleanName("...") is "-", which IsValidName rejects. |

Why the bounds are enough:

- **Correlation.** The run has one request, three responses (two
  duplicates) and three streams (two reconnections). The requests interact
  only through the clock, the reaper and the stream, and `ClientProofs`
  proves the safety properties and the refinement for any number of them.
  The safety properties and `ImplementsCorrelation` were also checked with
  two requests (4 million states, no error); with the liveness properties
  in the same run that instance takes over fifteen minutes.
- **Reaper margin.** With `MaxTTL = 3 > ReapBuffer + 1` a reaper that ignored
  the TTL could delete an entry before its caller's deadline. The mutant
  `RegisterNoTTL` shows that this case is reached.
- **Lifecycle.** Three attempts with two subscriptions reach two things: the
  budget running out, and a reset after a registration followed by new
  failures.

- **Router.** Three routes with one secret rule give both an exit and a
  table with ids 0 and 1. The ids −2 and 3 sit on both sides of the valid
  range, just past the default id and the table's end. TTLs and delays
  up to 2 make the remaining TTL negative, zero and positive.
- **Reconciler.** Two components give a pass that is interrupted between
  components and a setupMap skip of the first component while the second is
  still to be done. A third component (httpsrv) is in `MC_CompSeq`; a safety
  run with it takes 6.8 million states and found nothing the two-component
  run does not. Vault setup is 7 calls, the way
  setupVaultPlatform makes them: the data stores, then the PKI writes
  from the mount to set-signed.
- **Utils.** Strings of 4 characters with a limit of 3 reach truncation
  and every pair of classes next to each other. `*` stands for the
  characters that neither regexp allows.

`MC_Lifecycle.cfg` sets `CHECK_DEADLOCK FALSE`, and so do the three lifecycle
violation configs. The reason is that the program really stops: once the
subscriptions and requests are used up the model can only stutter, and after
the fatal error `kit.start` is stuck on `wg.Wait` (finding 3).

### Fairness

- Client: weak fairness on the caller's steps (`send`, entering the select,
  and the select as a whole), on `Lookup`, on the reaper, and on `Tick`. These
  are goroutines that the Go scheduler runs once they can run, plus a clock
  that always advances.
- Lifecycle: `CodeFairness` is weak fairness on the supervisor's steps and
  on each worker's steps. The outcome of a dial is left to the network:
  fairness is on "dial fails or succeeds", never on success.
  Nothing is assumed of the broker: it may never answer REGISTER, because
  `run` reads the answer with a plain `Recv`, with no deadline
  (client.go:168). Every Lifecycle run uses `CodeFairSpec`; under it the
  retry loop ends (`RetryLoopEnds`) but a handshake may not
  (`lifecycle_handshake_hang`).
- Reconciler: weak fairness on the controller's worker. controller-runtime
  runs Reconcile whenever the queue holds a key, and requeues it with
  backoff when Reconcile returns an error. There is also weak fairness on an
  applied workload becoming ready, the pods' eventual start, which the
  watches on owned objects turn into a new event. Failures, edits and
  restarts get no fairness; `Converges` is stated from the point where they
  stop (`~flaky`).
- Client: nothing is assumed of the broker. `Respond`, `StreamFail` and `Reconnect`
  get no fairness.

## Proofs

The proofs assume only the constants' assumptions (`ClientAssumption`,
`LifecycleAssumption`, `ReconcilerAssumption`, `RouterAssumption`): a finite set of requests or
workers, natural-number bounds, and a non-empty list of component names.

`ClientProofs` proves the following:

- `TypeCorrect`: `Spec => []TypeOK`.
- `AtMostOnce`: `Spec => []AtMostOnceDelivery`.
- `ReaperSafe`: `Spec => []NoStrandedWaiter`.

The last two rest on the inductive invariant `IInv`, which is `TypeOK` plus
`CorrInv(r)` for each request r. Neither property is inductive alone:

- `Lookup` keeps at-most-once only because an entry still in `reqMap` has no
  blocked deliverer and its caller is not resolved.
- `Reap` keeps the no-stranding property only because `expiration[r]` equals
  the caller's deadline `start + ttl`. A sweep deletes only entries older
  than `now - margin`, hence past that deadline.

TLC checked `IInv` as an invariant of the two-request instance before it
was proved.

- `CorrelationRefined`: `Spec => ImplementsCorrelation`, that is, `Client`
  implements `Correlation` under the mapping above.

The refinement proof has two parts. `InitRefines` shows that the initial
state maps to `Correlation`'s. `NextRefines` shows that each step maps to
a `Correlation` step or a stutter, with one step per action. It needs
`RInv`, which is `IInv` plus three facts per request:

- a `recvResp` goroutine, before or after its lookup, exists only for a
  RESPONSE that was read, so `Deliver` and `Lookup` act on an arrived
  response;
- only a registered request is ever written to a stream, so the first
  `Respond` is an `Arrive` of a call that was made.

A sweep is a `Remove` because `IInv` makes an entry's expiration its
caller's deadline.

`LifecycleProofs` proves the following:

- `LifecycleTypeCorrect`: the attempt counter never leaves `0..maxAttempts`,
  and no worker takes a request that was never started.
- `BudgetExact`: `Spec => []FatalAfterBudget`.
- `ResetOnlyAfterConnection`: `Spec => AttemptResetOnlyAfterConnection`,
  an action property.

All three rest on `BudgetInv`:

- the attempt counter equals the failure history outside a registered run;
- a run starts only below the budget;
- the history is 0 while a stream is registered;
- `healthy` is true exactly while a registered stream is read.

The last conjunct is what the action property needs. Only `StreamLost`
lowers the counter, and it runs from `"recv"`, where `healthy` holds. A
failed dial or handshake adds one, and no other step touches the counter.

- `SupervisionRefined`: `Spec => ImplementsSupervision`, that is,
  `Lifecycle` implements `Supervision` under the mapping above.

`InitRefinesSup` shows that the initial state maps to `Supervision`'s.
`NextRefinesSup` shows that each step maps to a `Supervision` step or a
stutter, and it uses `LInv` for the guards:

- `DialFail` and `RegisterFail` are `Fail`. `BudgetInv` puts `attempt`
  below the budget in `"dial"` and `"register"`, and `healthy` is false
  there.
- `Registered` is `Connect`.
- `StreamLost` is `Drop`. The mapped streak is 0 before the step, because
  `healthy` holds, and 0 after it, because `attempt` is reset.
- `Wake` with the budget spent is `GiveUp`. Otherwise it is a stutter.
- `TakeErr` is `Surface`.
- Every other step leaves `healthy`, `attempt` and the mapped place alone.

The theorem holds for every `maxAttempts` and number of workers. TLC
checks the same property on the `lifecycle` run, where the mutants
`StreamLostNoReset` (the receive loop returns `retry + 1`) and
`RegisterFailReset` both violate it.

`ReconcilerProofs` proves the following, for every list of platform
components:

- `ReconcilerTypeCorrect`: `Spec => []TypeOK`.
- `AvailableSetUp`: `Spec => []AvailableMeansSetUp`.

`AvailableMeansSetUp` is not inductive. The pass writes its copy of the
conditions back in `Status`, and that copy was made components ago. The
inductive invariant `RInv` is `TypeOK` and `SetUpInv`, which has five conjuncts:

- `SetupMapSound`: a component that `setupMap` records has its Vault entries.
  Vault survives an operator restart and `setupMap` does not.
- `CondSound`: the stored condition is True only when everything is set up.
- `WorkSound`: the pass's copy is True only when everything is set up,
  unless the Platform changed since it was read. A changed Platform makes
  the status write fail.
- `DoneSetUp`: in a pass that has not seen a change, every component before
  `ci` is applied and in Vault.
- `CurVault`: once past `setupVaultComponent`, the current component is in
  Vault.

`DeleteNamespace` clears `applied`, and it also marks the Platform changed.
That is why the last three conjuncts are guarded by `~changed`.

`ReconcilerAssumption` says that component names are distinct from the
condition values `"none"`, `"Unknown"` and `"True"`. The model stores the
name of a component that is not ready as the condition's value, standing for
a False condition whose message names that component. The assumption keeps
that value from being read as True. The proof of `setupComponent`'s step
splits on its three outcomes:

- the next component;
- the last one ready;
- an error.

TLC checked `RInv` as an invariant before it was proved. The instance had
the three components NATS, Broker and HTTPSrv, and 6.75 million distinct
states.

`RouterProofs` proves the following, for every set of rules, env names,
dependencies and TTLs:

- `RouterTypeCorrect`: `Spec => []TypeOK`.
- `RoundTrip`: `Spec => []RouteRoundTrip`.
- `FailuresAnswered`: `Spec => []ErrorAnswered`.

`RouteRoundTrip` is not inductive. The broker picks a route id from the
schema that `kit.Start` sent, and `recvReq` indexes the live `routes`
slice, so the property needs the two to agree. The inductive invariant
`RtInv` adds four conjuncts to the properties:

- `IdsArePositions`: the route at position i has id i - 1. `kit.Route`
  gives each route `len(k.routes)` as its id before appending it, and the
  proof of that step is the core of the round trip.
- `SchemaIsTable`: once running, the schema is the route table and the
  default flag. No registration happens after `kit.Start`.
- `BusyRunning`: the worker handles requests only while running.
- `ErrAtPlace`: `err` is clear while the handler runs, and set when the
  error response is due.

`RouterAssumption` says that rule names are distinct from the sentinels
`"default"`, `"invalid"` and `"none"`, which the model uses for what the
broker asks and what `recvReq` runs. Without it, a rule named like a
sentinel would make the property ambiguous, not the code wrong. The
assumption also contains `"" \in EnvNames`, so that `kit.EnvVar`'s fatal
exit on an empty name is among the inputs. This fact makes the SMT backend fail, so the proofs use
`RouterConsts`, which is the assumption without it.

TLC checked `RtInv` as an invariant of the `MC_Router` instance before it
was proved.

### Only model-checked

- The liveness properties `EntriesEventuallyReaped`, `CallerReturns`,
  `RetryLoopEnds` and `Converges` depend on fairness. TLAPS cannot reason
  about fairness or ENABLED here, so TLC checks them only, on the bounds
  above.
- `CleanLabelContract`, `BitOpsExact` and `JoinMatchesComment` in `Utils`
  are about what recursive operators and the `Bitwise` operators compute
  for every input. `Utils` extends `Bitwise` and declares `RECURSIVE`
  operators, and tlapm cannot use either. These are also statements by
  induction over data, which the installed provers cannot instantiate. TLC
  checks them exhaustively over the bounded inputs of `MC_Utils`.
- The violation runs (`WaitGroupDrains`, `StartErrKept`, `HandshakeEnds`,
  `NoLeakedDelivery`, `WaitSeesStreamLoss`, `AvailableMeansPKI`,
  `CleanNameValid`) state what the code fails to do, so there is nothing
  to prove. TLC's counterexamples are the result.

## Findings

1. `recvResp` blocks for ever on a response that arrives after its caller
   returned (client.go:269). The spec says the delivery is discarded.
2. `SendReq` waits on the stream current at the select, not the one the
   request used (client.go:222).
3. `kit.start` adds 2·numWorkers to the WaitGroup, so `wg.Wait` never returns
   (kit.go:251,255).
4. The workers' writes to `err` race, and nil can win (kit.go:262).
5. `setupVaultPlatform` takes an existing PKI mount as a finished PKI
   set-up (platform_controller.go:357). An interruption between `Mount`
   and `set-signed` leaves the intermediate unsigned for good, and the
   Platform is still reported Available.
6. `CleanName` trims only one dash at each end and truncates afterwards
   (utils.go:116-118). Its result can fail `IsValidName`.
7. `run` waits for the broker's answer to REGISTER with a `Recv` that has
   no deadline (client.go:168). A broker that accepts the stream and never
   answers keeps the supervisor in the handshake for ever. It never
   retries, and `healthy` stays false.

Two boundary cases are recorded as hazards, not runs:

- `send` checks the reduced TTL with `< 0` and forwards an envelope whose
  TTL is exactly 0 (client.go:288), where the spec says an envelope with
  TTL ≤ 0 is never forwarded.
- `Join` cuts `b.String()[1:]`, one byte rather than the separator
  (utils.go:168). For an empty or a multi-byte separator this contradicts
  its comment. `JoinMatchesComment` checks the one-byte case, and TLC finds
  it violated once its `Len(sep) = 1` premise is dropped.

The router, `CleanLabel` and the bit helpers agree with their comments and
the spec on every input of the runs.

## Not modelled, and plans

- **Envelope contents and TLS.** These are data and I/O. `Router` is
  planned to be shown to refine `Lifecycle`'s `FinishReq`.
- **Serving and logging.** `ServeHTTP`/`Serve` and the logger are I/O.
  `Title` and `Description` only fill in strings: `Description` writes
  `Title`, and `compDetails` is never read. The broker's `main` is process
  setup. None of them changes state the models track.
- **Reconciler.** The model has one Platform. Several Platforms, the
  setupMap keys across namespaces, the two derivations of the platform key
  and the template contents are not modelled. `ResolveFlag*`, `EnvDef` and
  the unsafe byte conversions in `utils.go` read the environment or memory
  and are left out.
- **Out of reach.** The unsynchronised read of `len(c.reqMap)` in the reaper
  (client.go:388) only feeds a log line. The unsynchronised write of `c.brk`
  is modelled as atomic.
