# TLA+ verification of the vLLM Router

The router (Rust, `src/src/`) stands between OpenAI-compatible clients and a
fleet of vLLM workers. It selects workers, limits and retries requests, keeps
unhealthy workers out, and, with *Program scheduling*, decides for multi-turn
agent conversations ("Programs") when and on which data-parallel rank their
requests run. This directory models the router in TLA+, model-checks the models
with TLC on small instances and proves central results with TLAPS for every
value of the constants.

Contents: 1 the parts, 2 the modules, 3 the runs, 4 the proofs, 5 what the models
show beside the runs, 6 what is not modelled.

## 1. The system and its parts

| Part | State | Operations | Interacts with |
|---|---|---|---|
| Circuit breaker (`core/circuit_breaker.rs`) | state, consecutive failures and successes, time of the last change; each an atomic or behind its own lock | can_execute, record_outcome, probes, reset, force_open | workers, every routing task |
| Program runtime, RequestPool (`program_scheduling/runtime.rs`, `request_pool.rs`) | Program per key: generation, Paused/Active, Reasoning/Acting, placement and its epoch, in-flight counter; FIFO pool of retained requests | retain, admit_front, complete, cancel, pause, activate, release, prune, invalidate | owned by the scheduler |
| Program scheduler (`program_scheduling/scheduler*.rs`) | runtime, decision state per Program, rank and global queues, targets per pool, observations, token ledger, homes; one mutex | acquire (several lock sections and a sleep), complete, tick, sync of target snapshots, cancellation by drop | request tasks, observation loop, worker registry |
| HTTP router (`routers/http/router.rs`) | target cache, load guards, observation loop | route with retries, stream, sync targets, control-plane calls | registry, policies, scheduler |
| Workers, registry, health checker (`core/worker*.rs`) | health, load, breaker; five maps and a revision | register, remove, look up, check | discovery, routers, policy registry |
| Token bucket, concurrency queue (`core/token_bucket.rs`, `middleware.rs`) | tokens, bounded channel, gauges | acquire, wait, return, time out | server |
| Policies (`policies/`), radix tree (`tree.rs`) | rings, counters, trees, load slots | select a worker | routers |
| KV event index (`kv_index/`) | blocks per worker, sequence numbers, reference counts | apply events, replay, resynchronise, follow workers | KV-aware policy |
| Prefill-decode routers (`routers/http/*pd*`) | pairs of workers per request, profiles, NIXL identities | two- and three-stage dispatch, server API | registry, policies, discovery |
| Discovery (`service_discovery.rs`, `vllm_service_discovery.rs`) | tracked pods; instances with a lease | add, remove, expire | routers |
| WASM middleware (`wasm_middleware.rs`) | permits, channel, worker threads | run the guest's hook, apply its answer | server |
| Gateway (`server.rs`, `routers/router_manager.rs`, `openai_router.rs`) | routers by model, API key cache | dispatch, worker API, authorisation | routers |
| Chat front end and gRPC back ends (`backend/`, `tokenizer/`) | encoding cache, models loaded once, detokenizer per reply | lower requests, stream replies | HTTP router |
| Response storage (`data_connector/`) | responses and an index by user | store, chain, list, delete | nothing calls it |
| Configuration, identity, protocols (`config/`, `identity.rs`, `protocols/`) | none | pure functions | all |

`PROJECT.json` lists every part with its status and, under `hazards`, the places
where this code can go wrong in ways a test hardly reaches, with the properties
that watch them.

What makes this system hard: request tasks, the observation loop and completions
interleave around one scheduler lock; tasks sleep between lock sections and act
on what they saw before; clients disconnect at any await, and everything a
request holds is given back by destructors; targets come and go under running
requests, whose completions arrive late; announcements, pod events and KV events
are lost, repeated and reordered; decisions of the breaker, of the registry and
of the caches are made outside the lock that applies them.

## 2. Modules

A component module has the variables of the component, `...Init`, one action per
lock section, map operation or await, and `...Next`. A module of pure functions
has no variables of its own: it EXTENDS `Call`, whose one variable is the call
being evaluated, and its properties are invariants over the calls of a run.
Operators marked "Mutant" in their comment are deliberately wrong variants of
the definition after them; each shows that a property notices a plausible
mistake.

| Module | Models |
|---|---|
| `CircuitBreaker` | the breaker, one step per atomic access or lock section |
| `ProgramRuntime`, `ProgramLifecycle` | runtime and request pool; the abstract life cycle of a Program they implement |
| `ProgramScheduler` | the scheduler's lock sections over `ProgramRuntime`, the completion adapter, target handling and the observation loop |
| `UsageLedger` | token ledger and observation epochs of the scheduler |
| `StickyPlacement` | parent forest of a pool, home table, cached ring of the consistent-hash policy |
| `RequestLimiter`, `IdealLimiter` | token bucket with the queue of `middleware.rs`; the bucket it promises to be |
| `WorkerFleet` | worker registry map by map, concurrent add_worker and remove_worker, health checker, target cache, policy counts |
| `RequestPath` | a request on the regular router: retries, HTTP and gRPC attempts, transparent proxying, response bodies and producers, all guards; the API key verdicts it is admitted by |
| `KvTree`, `KvIngest`, `KvWorkers` | tree of KV blocks with its locks; one event source with loss, replay and restarts; supervisor and load slots |
| `GrpcReply`, `EncodeCache` | gRPC stream to OpenAI chunks; tokenizers and encoding cache |
| `PdPath` | two- and three-stage requests with profiling and NIXL identities; the server API |
| `Discovery` | ZMQ announcements with leases; Kubernetes pods |
| `WasmMiddleware`, `ResponseStore` | pool of the WASM middleware; in-memory response storage |
| `RadixTree` | tree of the cache-aware policy under concurrent inserts, matches, evictions and removals |
| `WorkerChoice`, `KvMatching` | selections of all policies and binding strategies; KV-aware cost model, block hashes, endpoints, KV discovery |
| `RouterConfig`, `Gateway`, `ControlPlane` | arguments to validated configuration; handlers, router manager, OpenAI router and the answers of WASM guests; control-plane calls, startup, rank URLs |
| `ApiRequests`, `PdMessages`, `TokenStreams` | request types and validation; PD message rewriting; incremental decoding and stops |
| `ProgramIdentity`, `ProgressTtl` | hash keys and Program identity; rolling windows and Progress-TTL formulas in exact fractions |
| `MC...` | constants and compositions for TLC |
| `ControlProofs`, `ProgramRuntimeProofs`, `BookkeepingProofs`, `LedgerProofs`, `StorageProofs`, `IngestProofs`, `PdProofs` | theorems |
| `Induction` | induction over numbers and finite sets, recursion, and sums over finite sets, for the proofs |

The compositions `MCGuards`, `MCRouting`, `MCPd` and `MCPlacement` put components that
share no state within one step side by side: `part` names the one that moves, the
others stay in one initial state. They save instances, not cases: every component
is explored from all of its own initial states.

How state and actions correspond to the code, for the larger modules:

**CircuitBreaker.** `cb`, `failures`, `successes`, `elapsed` are the breaker, `writer` is
the holder of the write lock of the state, `pc`, `goal`, `ret`, `count` are the
callers' locals, `healthy` is the worker. `check_and_update_state`, `record_success`
and `record_failure` read the state, release it and call `transition_to` later:
separate steps. Counters saturate at their thresholds, which is what the
comparisons tell apart.

**ProgramRuntime.** The runtime is one record `rt`; each method is an operator from
runtime states to runtime states (`RetainRequest`, `AdmitFront`, ...), so that the
scheduler can compose several under one lock. `dispatched` holds the
`ProgramDispatch` values that requests in flight carry. `Spec` calls any method at
any time and completes dispatches in any order. Ids grow with each retain, so
FIFO order is id order. `ProgramLifecycle` has no generations, epochs or counters:
a Program has the set of waiting and the set of running requests. The mapping
takes the running requests to be the dispatches that carry the Program's current
epoch; that a late completion is a stuttering step is what the epochs are for.

**ProgramScheduler.** `config` is the configuration, `st` the contents of the scheduler
mutex, `tasks` the request tasks, `view` the available workers. Functions that take
`&mut ProgramSchedulerState` are operators on `st`. `Retain` contains everything the
first lock section does: retaining, binding, queueing, the force-resume deadline
and the whole arrival sequence (release expired, expire TTLs, repair capacity,
admit until nobody fits); `Finish` and `Tick` contain the periodic sequence;
`Disconnect` and `Cancel` are the drop of the future and of its `AdmissionGuard`. An
instant is "none", "armed" or "due" and becomes due only while the code looks at
it. Queues are sets, because the code searches them in an order of its own.
Token amounts, factors and the orders that compare them are an `Oracle` chosen by
the step that consults them, so every outcome of theirs is covered.

**RequestLimiter.** One action per lock section of the bucket and per await: the
middleware, the processor of the channel, the tasks it spawns, cancellation at
any await. Amounts are integers, `One` units to a token; the bucket is refilled
lazily from `since`, the ticks since the last refill.

**WorkerFleet.** `reg` is the registry's maps; a registration or removal is a sequence
of map operations (`PushSteps`) of a call in `op`; other calls, the checker, request
outcomes and the readers of targets act in between. `cache` is the entry of the
target cache, `current` the readers whose revision is still the registry's.

**RequestPath.** `at[r]` is the place of request r in its retry loop, `res[r]` what its
destructors will give back (load, KV slot, completion, running gauge), `body[r]` the
response body and the producer that feeds it, `load` and `running` the counters the
code keeps. Every await may be cancelled, which runs the destructors of what is
owned there.

**KvTree, KvIngest, KvWorkers.** The tree is modelled at the grain of its node locks
(`tree.locked`), reverse map and counts included. The ingestion has a lossy publisher
with a bounded replay buffer; gap detection, replay, live batches that arrive
during it, engine restarts and `suspended_sources`. The supervisor takes its three
maps' locks one after another; a call that finds no indexer where it expects one
panics there and stays so.

**PdPath.** A request `pd[r]` is the list of steps it still has to take, one per await;
the connector, direct or discovery mode and the encoder stage (`scene`) decide which
they are. `tasks`, `timers` and `tasksLock` are the profiling tasks, `nixl` the cached
identity of the prefill engine; the client may drop the request before any step, and
a `/stop_profile` may fail, which `orphans` remembers for the properties.

**Discovery.** `entry`, `modeOf`, `mode` are the ServiceRegistry, `wire` the messages under
way. For pods, `cluster` is what Kubernetes runs, `tracked` the tracker's PodInfos,
`podWorkers` the router's list; a watch may fail and list again.

**RadixTree.** A node is written as its full path, so that a split changes no other
node's name. `insert` takes one step per child slot. A match (`look`) holds no lock:
reading the slot, reading the node's text, naming a tenant and touching it are
steps of their own. An eviction takes a tenant off a node, tests the node and
unlinks it in three steps. `revived` remembers, for the properties, the tenants a
late touch has put back on a node they had lost.

## 3. Runs

A property of a run is often a conjunction of several that speak of one component;
the clauses are definitions of their own with their own comments. States are
the distinct states TLC finds.

| Run | Instance | States |
|---|---|---|
| `guards` | breaker: 2 tasks, thresholds 2; runtime: 2 Programs, 2 targets, 3 requests, 3 epochs; WASM: 4 requests, 1 worker, channel of 2; store: 4 writes, chains of 4; limiter: 3 connections, capacity 2 units = one token, 2 ticks per token, channel of 1, one client that leaves | 215,475 |
| `scheduler` | 2 tasks, 2 Programs, 2 targets, room for one active Program; rank-local queues, token capacity with the waiting gate, binding only, global queue with and without gate; targets come and go except under binding only | 319,885 |
| `scheduler_fair` | 1 target with room for one Program, gate on or off, `ResumeSpec` | 73,026 |
| `routing` | KV index, request path (2 requests, 2 retries, 2 frames), reply of 4 messages, cache of 2 entries, 2 API keys | 262,100 |
| `fleet` | 2 calls on 2 hosts of up to 2 ranks, checker, outcomes, readers of targets | 216,545 |
| `pd` | 2 PD requests in every scene, 2 calls on the server API, 2 instances, 3 pods on 2 addresses | 191,402 |
| `placement` | ledger of 2 Programs, 4 agents, 2 homes, ring under 2 requests, radix tree of 2 tenants, 1 match | 880,047 |
| `pure_functions` | one call per behaviour, small argument spaces | 888,079 |

What each property says:

| Property | Meaning |
|---|---|
| `BreakerNeverStuck` | a count at its threshold always has a task about to act on it |
| `RuntimeIsFenced` | placement, epoch, in-flight count, waiters and status of a Program agree; a late completion is never taken for a current one |
| `ImplementsLifecycle` | the runtime refines `ProgramLifecycle` |
| `PoolIsSound` | permits are exact, the holder of a permit finds the channel full only by invocations whose clients have gone, a hook that cannot run lets no request through |
| `StoreIsIndexed`, `ReadsAreFaithful` | a response is in its owner's index; chains are conversations, limits keep the newest |
| `GuardsRecover` | a breaker of a healthy worker closes; every hook and every waiter of the limiter is answered |
| `SchedulerIsConsistent` | decisions, placements, queues and in-flight counts agree |
| `NobodyWaitsInVain` | no lost wakeup; idle Programs have a deadline; a waiter loses its task only by `NoTargets` and its force-resume deadline only with its target |
| `AdmissionsAreOrderly` | resumed at home, forced Programs first |
| `NoStarvation`, `NothingIsKeptForEver` | a waiting Program is served while the gate is open, every acquire returns, idle Programs whose last request completed are reclaimed while the pool has targets |
| `LimiterIsExact`, `ImplementsIdeal` | every waiter is held by someone who answers it, the gauges count the waiters; no token is minted |
| `FleetIsConsistent`, `FleetSettles` | cached targets are current, maps agree for URLs whose calls did not overlap, counts match; silent hosts recover, calls end |
| `TreeIsExact` | anchors, claims and counts of the KV tree agree, queries stay aligned, answers cover the claims |
| `IngestIsCurrent` | what queries see is what the engine holds; a source is hidden only by damage |
| `HoldersAreExact` | references count holders, the supervisor panics only after a concurrent last remove, load slots are exact |
| `RequestsReleaseOnce`, `RetriesStartClean` | everything a request takes is given back once; a retry starts with nothing |
| `ReplyIsWellFormed`, `EncodeCacheIsExact`, `KeyVerdictsAreSound` | all the text in order but for what the flush of section 5 loses, one finish, no text before the slot left prefill; budgets and single flight; only accepted keys pass |
| `RoutingCallsEnd` | tree calls, ingestion and requests end |
| `PdIsConsistent`, `PdSettles` | loads follow the phase, transfers end once, one role per worker, a profile has someone who will stop it unless a stop call failed; profiling tasks and requests end |
| `OneTransferMode`, `ModeComesFromAnInstance` | all instances share the mode of one that was accepted |
| `TrackingMatchesTheRouter` | the addresses of tracked pods are the router's workers |
| `LedgerIsExact` | usage is the observation plus the transitions since |
| `RadixTreeIsSound` | held text is found, counts match but for tenants touched too late, a budget is exceeded by less than one text |
| `HomesAreLive`, `StepsKeepPlacements` | walks end, bindings are live; lookups move no root, homes are sticky, choices come from the request's own list, an insert is found when it returns, a match names a holder of what it counted unless a split came between its two reads |
| `ChoicesAreSound` ... `MessagesKeepTheirMeaning` | the pure functions against reference definitions: selections, configuration, endpoints, names, messages |

### Bounds

Two actors of each kind and room for one of them are the smallest instances with
contention; a third request lets a Program return after it was paused, or queue
while another one waits. `MaxEpochs` ends the changes of the registry: with two
epochs a target disappears under a first placement and under a resumed one; the
runtime has three, so that two late completions of different placements are out
at once. Thresholds of two separate "first" from "last" outcome. `ReplayDepth` 2 with
three events makes a gap that replay covers and one it does not. One fault
(`MaxFaults`, `MaxKeyErrors`, `MaxDrift`) is enough to put a lost message, a failed
request or a stale observation between any two steps. A cache of two entries with
three encoders evicts. Three pods on two addresses reuse an address. Two retries
and two frames let a request fail, fail and stream. Every bound is a constant of
its module, and the theorems of section 4 hold for every value of it.

Symmetry is used in `scheduler`, whose tasks, Programs and targets are alike, and
in `placement` for the tenants of the radix tree; neither run has a liveness
property. Deadlock is checked in `scheduler`
and `scheduler_fair`; the other systems come to rest when their
calls, messages and requests are used up, which is no error.

### Fairness

- `GuardSpec`: tokio polls the tasks that use the breaker, the breaker's timeout
  elapses, manual intervention ends. Worker health is free: `RecoversWhenHealthy`
  speaks of a worker that answers from some point on. The hook tasks are polled,
  and the worker threads of the WASM pool run, because the epoch deadline ends
  every guest call. The limiter's processor receives, the clock ticks, middleware
  and spawned tasks are polled; clients owe it nothing, a running request may run
  for ever.
- `ResumeSpec` (scheduler): tokio polls each task that can go on, the observation loop
  (an interval timer in a loop without exit) syncs and ticks, and deadlines pass.
  Queue deadlines are strongly fair: a task that goes round its loop does not stop
  the clock. Running requests end, or are polled again and again: the HTTP client
  has a timeout and a dropped response reports failure. The enabling conditions
  are written out as state predicates instead of `ENABLED`.
- `WorkerFleet`: a call's future is polled; a startup wait that is possible again and
  again times out; the health checker is a loop without exit.
- `PdSpec`: request and timer tasks are polled, the loop of the announcements runs, and
  seconds pass.
- `MCRouting`: threads of the tree, the subscriber task and the attempts of a request
  make progress. Workers may answer anything, clients may leave.

### Disagreements between code and documentation

Four runs expect a violation; `findings` in `PROJECT.json` quotes the sentence each one
refutes.

| Run | What happens |
|---|---|
| `sticky_keys` | the ring of the consistent-hash policy and the list it was built from are written under two locks; two requests of different lists can leave the ring of one with the list of the other, and all later requests of that list go to its first worker |
| `tree_leak` | an insert that stands in a node of the radix tree when it is unlinked counts the rest of its text against the tenant, in nodes no pass can reach; the tenant stops inserting for good |
| `untracked_pods` | a pod that loses its readiness before it is deleted is not found in the tracker, and its worker stays |
| `lost_flush` | a gRPC worker sends its finish without token ids; the text the detokenizer held is flushed and then not used |

The passing runs are the instances without the trigger in question: `RadixTreeIsSound`
is checked with evictions and removals between inserts, not during them (`Overlap`
FALSE), `TrackingMatchesTheRouter` speaks of what the tracker holds, and `ReplyIsWellFormed`
excepts what that flush loses.

## 4. Proofs

Theorems hold for every value of the constants that satisfies the named
assumptions; "checks" is the property of section 3 whose instance TLC explores.

| Theorem | States | Checks |
|---|---|---|
| `ControlProofs!BreakerIsNeverStuck` | for any tasks and positive thresholds, a count at its threshold has a task about to act on it | `BreakerNeverStuck` |
| `ControlProofs!PoolStaysSound` | for any requests, workers and channel, permits are exact, the holder of a permit finds the channel full only when a queued invocation is of a client that has gone, and hooks fail closed | `PoolIsSound` |
| `ProgramRuntimeProofs!RuntimeStaysFenced` | for any Programs, targets, requests, epochs and order of completions | `RuntimeIsFenced` |
| `ProgramRuntimeProofs!RuntimeIsALifecycle` | every step of the runtime is a step of `ProgramLifecycle` or invisible there | `ImplementsLifecycle` |
| `ControlProofs!LimiterStaysExact` | for any requests, capacity, rate, channel and timeouts, waiters have an answerer and the gauges count them | `LimiterIsExact` |
| `ControlProofs!LimiterIsIdeal` | the lazily refilled bucket with its queue implements `IdealLimiter` | `ImplementsIdeal` |
| `BookkeepingProofs!VerdictsAreSound` | for any keys, URLs and concurrent requests | `KeyVerdictsAreSound` |
| `BookkeepingProofs!RequestsGiveBack` | for any finite set of requests, any workers, retries and frames | `RequestsReleaseOnce` |
| `BookkeepingProofs!RetriesOwnNothing` | the action property of retries | `RetriesStartClean` |
| `ControlProofs!TransferModesAgree` | for any instances and announcements, under any loss and order | `OneTransferMode` |
| `ControlProofs!ModesComeFromInstances` | the action property of the mode | `ModeComesFromAnInstance` |
| `ControlProofs!TrackerIsTheRouter` | for any pods, addresses and labels | `TrackingMatchesTheRouter` |
| `LedgerProofs!LedgerStaysExact` | for any programs, targets, token counts, scrapes and bounds, deltas are what was adjusted since the observation and balance with the seated programs | `LedgerIsExact` |
| `BookkeepingProofs!HoldersStayExact` | for any tasks, calls, URLs, requests, targets and prefill sizes, references count their holders, also one that panicked; a panic comes only from a concurrent last remove; load counters count the requests that use them | `HoldersAreExact` |
| `IngestProofs!IngestStaysCurrent` | for any blocks, batches, restarts, faults and replay depth, an exposed source credits only what the engine held, and no answer crosses a suspension | `IngestIsCurrent` |
| `PdProofs!PdStaysConsistent` | for any requests, engines, servers, ranks and calls: loads, transfers, profiles with or without failed stop calls, concurrent decodes and roles | `PdIsConsistent` |
| `StorageProofs!StoreStaysIndexed` | for any responses, users and order of stores and deletes, the index of users agrees with what is stored | `StoreIsIndexed` |
| `LedgerProofs!HomesStayLive` | for any programs, pools, targets and ring, every walk to a root ends and every binding is live | `HomesAreLive` |
| `LedgerProofs!HomesStaySticky` | a program changes its home only when its home or last target left | part of `StepsKeepPlacements` |
| `LedgerProofs!LookupsKeepRoots` | path compression changes no root | part of `StepsKeepPlacements` |
| `StorageProofs!EncodeCacheStaysExact` | for any frontends, calls, models, texts and budgets, answers are exact, caches within budget, gauges, misses and loads accounted for | `EncodeCacheIsExact` |
| `StorageProofs!InsertsSurvive` | an insert never evicts the entry it stores (the comment at `tokenizer/cache.rs:345`) | |

Assumptions: placeholders are not members of the sets they stand beside
(`NoThread`, `NoTarget`, ...), thresholds, capacities and rates are positive, bounds
are natural numbers, the sets that are counted are finite. Each is a named ASSUME
of the module that declares the constants, and TLC evaluates it in the runs.

The arguments:

*Breaker.* Whoever brings a counter to its threshold holds the count in a local
and has yet to read the state, or to call `transition_to`; any step that would
discharge this duty either performs the transition or resets the counter. The
two properties are inductive relative to the types.

*WASM pool.* A request is in one place only: queued, with one worker, or answered
(`OnePlace`). Permits are then a count of disjoint sets, and that a full channel has
as many gone invocations as permits missing is a pigeonhole argument.

*Runtime.* `InFlightExact` compares a counter with the number of dispatches that
carry the Program's epoch. It is not inductive alone: a dispatch of another
Program, of an earlier generation, or one with an equal request id could be
counted. `IInv` adds that epochs come from one counter (`EpochsOrdered`), that no
two Programs share one (`EpochsDistinct`), that a dispatch with the current epoch
belongs to the live generation and its target (`EpochFences`), that ids are unique
between pool and dispatches (`IdsDistinct`), and that an absent Program is blank
(`AbsentIsBlank`). There is one lemma per action, and lemmas on cardinalities for
adding and removing a dispatch.

*Runtime, refinement.* The waiting requests of a Program are exactly the pool's
requests of its key (`WaitingIsThePool`), and a step touches what can be seen of one
Program only (`OneProgram`, `Seen`). Each action is then matched with its abstract
one: a new epoch empties the running set, so losing a target is `LoseTarget` and a
completion of the old epoch stutters; an admission is `Start`, `Run`, both or nothing,
by whether the Program was paused and the request is the front one; that the
counter is zero exactly when the running set is empty (`KeptIds`) is what makes
`Pause`, `Forget` and `Withdraw` agree on idleness.

*Limiter.* The invariant says for every connection where its QueuedRequest may be
while its middleware is where it is; the gauges are cardinalities of the
connections at given places. The refinement maps the bucket to its level after
the refill that is due, so that a lazy refill is invisible.

*API keys.* A cached or pending verdict is justified: an acceptance by a URL that
accepts the key, a refusal by URLs that all refused or by a failed request.

*Request path.* `Fits` says what a request may own at each point of its code: at
which points it holds a worker's load, a KV slot, a completion or the running
gauge, alone or shared with its body and producer. `PathInv` adds that the load of a
worker is the number of requests whose guard is on it, and the running gauge the
number of those counted; a step of one request changes one membership
(`CountMoves`). `RetriesStartClean` follows because the point where a retry begins
owns nothing.

*Discovery.* Nobody is listed before a mode is committed, and everybody listed
announced the committed one (`ListedModesAreKnown`). For pods: at most one tracked
pod has an address (`OnePodPerAddress`), so a removal removes the worker of that pod.

*Ledger.* The delta of a target is the adjustments since its mark, the moment its
observation began (`EntriesExact`); an observation in flight carries the mark it
will set, as long as no snapshot of the targets came between (`EpochFits`); and the
adjustments, with what was left out for programs without a seat, balance with the
tokens of the programs seated there (`Balanced`). The last is a sum over a set that
changes with every step. `Induction` proves what such sums need, that any element
can be taken out first (`SumWithout`) and that values outside the set do not matter
(`SumOfSame`), by induction on the size of the set; `HeldMoves` turns it into "a step
of one program moves one share".

*KV holders.* The reference count is a sum of two cardinalities and what was
overwritten; a step of one task changes its own membership and one entry
(`CountsMove`). That only a concurrent add loses a reference needs to know that a
call that will find an entry at its URL was told so (`Forewarned`). For the slots, the
invariant says which states of the shared atomic the two sharers can be in together
(`SlotFits`): of two signals one wins the exchange, and only the winner touches the
counters, so a step moves one request into or out of a target's users or fillers.

*KV ingest.* The subscriber's handling of one message is a list of steps still to
do; the invariant has one case for each shape the list can have (`Flow`) and says what
is known of the credit there: it stems from the batches of one epoch up to the one
reached (`Credits`), it is gone, or the source is hidden and will be cleared before it
is shown (`Purging`). What a cache holds after n batches is a recursive function of
the log; that it depends on the first n batches only, and grows by one batch at a
time, is proved by the set induction of `Induction`.

*Prefill-decode path.* What is left of a request is a list: profiling calls, then
one step of the handler (`Program`). `Local` says by that step what the request may
hold: nothing armed, handed or held before the encoder stage, everything armed
until the dispatch parts it (`Early`), and afterwards what was armed is what was given
until a prefill took it (`Handed`). Load counters are cardinalities of the holders. That
a worker that profiles has an end is inductive only with `TasksAreLate`: the task in
the map belongs to a request that has registered it, and a request registers once
for a worker, so that `insert` never aborts the caller's own task.

*Prefill-decode servers.* Where no calls overlapped, the index has a worker under
its type and nowhere else; this needs that the ranks an addition has left are
unserved (`AddsAreNew`), which in turn holds because an addition is alone at work on its
host (`AddsAreAlone`).

*Response store.* `Agrees` states the invariant on the sets of ids; `RetainOthers`, the
`retain` of a deletion, is a recursive function whose existence comes from
`UpwardRecursion` and whose result from induction on the prefix it has seen.

*Lineage.* `Forest`: finitely many entries, parents among the entries, every walk ends.
That `would_cycle` looks far enough needs that a walk that ends does so within as many
steps as there are entries (`WalksAreShort`, a pigeonhole argument on its positions);
then a new edge, or a compressed path, leaves every walk as it was up to the first
program it touches, and from there to an end (`Regraft`).

*Home table.* `BindingInv`: bindings are live, and the cached ring of a pool is the
ring of the list it names (`RingsOk`), so that a list that compares equal has the right
ring. A snapshot folds `Rebound` over the affected programs in any order; `RebindIsLive`
follows the fold by induction on its prefix, and the programs outside keep what
`Kept` left them, which is what stickiness needs.

*Encoding cache.* An entry is the encoding of its text by the one model that has its
instance (`Owned`, `ModelFits`), which is why a hit answers exactly although the key
names no model. `PushIs` and `TrimIs` say what `push` and the eviction loop leave: bytes
that add up, keys once, and as many entries as the counters say. Sizes are a
recursive function of the sequence, related by `StretchesAddTheSame`: equal
stretches add up to the same. The accounts of a frontend hold because a step moves
what is under way by its own call's share (`WayIs`) and the counters by the same
(`Even`). That a budget admits every entry that reaches `insert` is
`TokenizerCacheConfig::validate`, an assumption here.

Only model-checked: liveness (`GuardsRecover`, `NoStarvation`, `NothingIsKeptForEver`,
`FleetSettles`, `PdSettles`, `RoutingCallsEnd`), which the prover
does not reach; the properties of the scheduler, the registry, the KV tree and the
gRPC replies, the reads of the response store (they sort), the
ring of the consistent-hash policy under concurrent requests; `RadixTree`, which is
written with RECURSIVE operators; and the pure functions, recursive functions over
sequences: the installed provers cannot use an induction theorem that takes an
operator, and the set form in `Induction` has been carried through for sums,
walks, folds, the bytes of a cache and the cache of a log only.

## 5. What the models show beside the runs

Places where code and documentation, or two parts of the code, disagree, met
while modelling. The models have the behaviour of the code; but for the flush of a
reply none of these has a run of its own.

Scheduling:

- a circuit just reopened can go to HalfOpen at once, by a decision made before
  (`circuit_breaker.rs:184`, against `README.md:225`);
- a target lost under a running request leaves a Paused, Reasoning, idle Program
  that no sweep releases (`scheduler_lifecycle.rs:418`, against
  `docs/program_scheduling.md:102`); the sweeps are part of the tick, which runs only
  for a pool that has targets;
- `NoTargets` after `retain_request` leaves a request in the pool without a guard
  (`scheduler_admission.rs:148-152`, against line 100 there);
- a pool that loses a target removes the queue in which waiters of another pool
  stand (`scheduler.rs:137`, against lines 161 and 163);
- an active Program whose target goes away with requests still to be dispatched is
  queued again without a force-resume deadline (`scheduler.rs:212`, against line 101);
- capacity repair pauses idle acting Programs, also on arrivals
  (`scheduler_lifecycle.rs:557`, against line 165); with binding_only the acting TTL
  still pauses Programs (`scheduler_lifecycle.rs:355`, against line 90);
- a claim by a request that is not the front one clears the placement-start mark
  (`runtime.rs:111`);
- under the waiting gate a due deadline gives a sleep of zero and a task that
  checks, sleeps and wakes without end (`scheduler_admission.rs:196`): `NoStarvation`
  has the premise that the gate is open;
- gRPC streaming finishes the ProgramCompletion when headers arrive
  (`router.rs:1757`); the ledger drifts until the next observation.

Requests and replies:

- text flushed at a finish message without token ids is dropped (`grpc.rs:647`, against
  line 634; run `lost_flush`), and so is the flush of a PD stream (`pd_router.rs:972`,
  against line 969; `worker_registry.rs:238`);
- joined logprobs add the UTF-8 bytes of the token between the two replies, while
  offsets count characters (`logprobs_merge.rs:194-197`);
- a body with `"role":"user"` hides its own `user` field from the hash key, since the
  scan stops at the first `"user"` (`hash_key.rs:184-196`, against
  `docs/load_balancing/README.md:56`);
- when one token completes two stop texts, the one listed first is cut and the
  beginning of an earlier one gets out (`stop.rs:163-176`);
- the OpenAI router records neither success nor failure for streamed replies and
  counts a 5xx as success, and ignores `disable_circuit_breaker` (`factory.rs:119`);
- `DELETE /workers` answers 200 on the OpenAI router though nothing is removed;
  `/v1/responses` and rerank never route by model in gateway mode;
- `is_pd_mode` (`routers/mod.rs:164`) is never true, because VllmPDRouter answers
  "vllm_pd": the PD preference (`router_manager.rs:421`) never tells routers apart;
- the refusal of an API key after a failed validation request is cached for good,
  and may overwrite another request's acceptance (`server.rs`, about line 498);
- a tokenizer whose determinism check fails once stays uncached
  (`vllm_frontend.rs:45`); `ValidatableRequest::validate` has no caller outside tests.

Workers, discovery and the index:

- registering a URL again with another model or type leaves stale index entries
  (`worker_registry.rs:85`);
- a discovery-mode PD router is never ready (503: `vllm_pd_router.rs:2697` asks the empty
  registry of `pd_router.rs:1045`), counts no worker load, and with Mooncake passes no
  parameters; `stop_profiling` holds its map's lock across the network call; a dropped
  request can leave a profile without its timeout task; a NIXL identity is looked up
  twice and may be stale after an eviction;
- a `/stop_profile` that fails is logged and never tried again (`pd_router.rs:177-191`):
  the worker profiles on;
- the supervisor's `.expect("just inserted")` can panic (`discovery.rs:358`, 366) when a
  concurrent last remove drops the indexer in between; the reference taken before is
  then never given back, the indexer is never made again, and every later add of that
  identity panics too;
- the prefix walk of the radix tree is not atomic (`tree.rs:575-643`): after a split
  between reading the slot and reading the text a match compares with the lower half
  only and may name a worker that does not hold the text; a touch that comes late puts
  a tenant back on a node it has just lost, and its count disagrees with the tree
  until it is removed;
- an IPv6 wildcard endpoint ("tcp://[::]:port") is not rewritten by
  `resolve_endpoint`; a block hash has no separator between adapter and tokens;
- a cache-aware hit ignores the breaker (`cache_aware.rs:422-425`); the chat and completion
  routes of the PD router pass it unfiltered workers (`vllm_pd_router.rs:2343`, 2514),
  the transparent route does not (2732); `remove_target` drops the bindings of other
  pools that share the target; retry jitter can exceed `max_backoff_ms`;
- `docs/load_balancing/README.md:53-57` lists key sources in another order than
  `hash_key.rs:15`, and a `user` row that `spec.rs:563` does not have.

Configuration:

- PD with Kubernetes discovery and the selector of one role only is accepted
  (`validation.rs:524`): only workers of that role are discovered, and no request has a
  pair unless the other role has static URLs;
- the Python front end lets gateway mode with PD and a kv_aware role policy through,
  which the command line refuses (`main.rs:150`, 154).

Code nothing calls: the response store (where storing again under another user
leaves a stale index entry), `TokenStreams`' decoders (which can lose a character
split across tokens), `EncodeCache::clear`, `CachedTokenizer`, `decode_batch`,
`resolve_endpoints`, `ConsistentHashPolicy::reset`.

## 6. Not modelled

- *Program scheduler:* token amounts, factors and homes are modelled (`UsageLedger`,
  `ProgressTtl`, `StickyPlacement`) but not composed with the queues, where they are
  choices; diagnostics are left out. Overflow of the 64-bit generation and epoch
  counters would take centuries.
- *Numbers:* floating point is exact fractions or tenths; lengths of delays are left
  out, any time may pass.
- *KV index:* MessagePack decoding, socket options, `KvIndexSupervisor::shutdown`.
- *PD:* `discover_dp_size` and the load monitor.
- *Server:* CORS, TLS, signals, logging setup, HTTP parsing; metrics and tracing
  are observation only.
- *External:* the Kubernetes API, the WASM engine and guests, vLLM itself, chat
  templates and library tokenizers are modelled from how `src/` uses them.
- *Responses* of endpoints that carry no decision (501s, statistics) are constants.

`PROJECT.json` has the status and the reason for each part.
