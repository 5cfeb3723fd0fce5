---------------------------- MODULE WorkerFleet -----------------------------
(***************************************************************************)
(* The worker registry first, then the fleet that lives in it.             *)
(*                                                                         *)
(* The maps of core/worker_registry.rs as one record, with one operator    *)
(* per map operation: every DashMap call is atomic, a registration or a    *)
(* removal is a sequence of them.                                          *)
(*                                                                         *)
(* A worker object and a WorkerId are both written <<by, url>>: by is the  *)
(* call that made it.  A registration that finds its URL mapped stores its *)
(* new object under the id of an older call.  The vectors of the indexes   *)
(* are sets: a second push of the same id changes no lookup's membership.  *)
(***************************************************************************)
EXTENDS Naturals, FiniteSets, Sequences

CONSTANTS
  Callers,   \* the calls that create workers
  Hosts,     \* worker hosts
  MaxDp,     \* most data-parallel ranks of a host
  Models,    \* model ids
  None       \* no value

(* A DP-aware URL "host@rank"; a plain URL is rank 0 of its host.           *)
Urls == Hosts \X (0 .. MaxDp - 1)

Workers == Callers \X Urls

UrlOf(w) == w[2]

HostOf(w) == w[2][1]

Registry ==
  [workers : [Workers -> Workers \cup {None}],
   urlToId : [Urls -> Workers \cup {None}],
   modelWorkers : [Models -> SUBSET Workers],
   modelIndex : [Models -> SUBSET Workers],
   typeWorkers : SUBSET Workers,
   connectionWorkers : SUBSET Workers]

(* register: reuse the id the URL is mapped to, or make a new one.          *)
IdFor(reg, w) ==
  IF reg.urlToId[UrlOf(w)] # None THEN reg.urlToId[UrlOf(w)] ELSE w

Get(reg, id) == reg.workers[id]

GetByUrl(reg, u) ==
  IF reg.urlToId[u] = None THEN None ELSE Get(reg, reg.urlToId[u])

GetAll(reg) == {reg.workers[i] : i \in Workers} \ {None}

GetByModelFast(reg, m) == reg.modelIndex[m]

(* retain(|w| w.url() != url)                                               *)
WithoutUrl(objects, u) == {w \in objects : UrlOf(w) # u}

(* One registration or removal as the order of its map operations.          *)
PushSteps == <<"store", "url", "model", "index", "type", "connection", "bump">>

Pushed(reg, step, id, w, m) ==
  CASE step = "store" -> [reg EXCEPT !.workers[id] = w]
    [] step = "url" -> [reg EXCEPT !.urlToId[UrlOf(w)] = id]
    [] step = "model" -> [reg EXCEPT !.modelWorkers[m] = @ \cup {id}]
    [] step = "index" -> [reg EXCEPT !.modelIndex[m] = @ \cup {w}]
    [] step = "type" -> [reg EXCEPT !.typeWorkers = @ \cup {id}]
    [] step = "connection" -> [reg EXCEPT !.connectionWorkers = @ \cup {id}]
    [] OTHER -> reg

RetainSteps == <<"rurl", "rmodel", "rindex", "rtype", "rconnection", "rbump">>

Retained(reg, step, id, w, m) ==
  CASE step = "rurl" -> [reg EXCEPT !.urlToId[UrlOf(w)] = None]
    [] step = "rmodel" -> [reg EXCEPT !.modelWorkers[m] = @ \ {id}]
    [] step = "rindex" -> [reg EXCEPT !.modelIndex[m] = WithoutUrl(@, UrlOf(w))]
    [] step = "rtype" -> [reg EXCEPT !.typeWorkers = @ \ {id}]
    [] step = "rconnection" -> [reg EXCEPT !.connectionWorkers = @ \ {id}]
    [] OTHER -> reg

(* A registry view of one URL in which every map agrees: the URL is either  *)
(* unknown to all of them or known to all of them as the same worker.       *)
Agrees(reg, u, m) ==
  LET ids == {i \in Workers : reg.workers[i] # None /\ UrlOf(reg.workers[i]) = u}
      here(S) == {i \in S : UrlOf(i) = u}
  IN /\ Cardinality(ids) <= 1
     /\ ids = {reg.urlToId[u]} \ {None}
     /\ here(reg.modelWorkers[m]) = ids
     /\ here(reg.modelIndex[m]) = {reg.workers[i] : i \in ids}
     /\ here(reg.typeWorkers) = ids
     /\ here(reg.connectionWorkers) = ids

-----------------------------------------------------------------------------
(***************************************************************************)
(* The fleet of workers behind the router: concurrent add_worker and       *)
(* remove_worker calls (routers/http/router.rs, routers/router_manager.rs) *)
(* on the registry and the policy registry, the background health checker, *)
(* request outcomes that trip a worker's breaker, and the two readers that *)
(* turn the registry into scheduling targets under its revision.           *)
(*                                                                         *)
(* The revision is only ever compared for equality with an older reading,  *)
(* so it is kept as the set of readings that are still current: a change   *)
(* of the counter empties it.                                              *)
(***************************************************************************)

CONSTANTS
  Ops,               \* add_worker and remove_worker calls
  Boot,              \* Router::new, the first creator of workers
  DefaultModel,      \* "unknown", the model of an unlabelled worker
  Policies,          \* policies a label may name, the default included
  DefaultPolicy,     \* the policy of the configuration
  SuccessThreshold, FailureThreshold,   \* health_config
  Configs            \* see Configuration

ASSUME FleetAssumption ==
  /\ Callers = Ops \cup {Boot} /\ Boot \notin Ops /\ Ops \subseteq Nat
  /\ None \notin Workers \cup Policies \cup Models
  /\ DefaultModel \in Models /\ DefaultPolicy \in Policies
  /\ SuccessThreshold \in Nat \ {0} /\ FailureThreshold \in Nat \ {0}
  /\ MaxDp \in Nat \ {0}

VARIABLES
  config,    \* the configuration, fixed at start
  reg,       \* the WorkerRegistry
  counts, policies,  \* PolicyRegistry: workers and policy of each model
  tenants,   \* URLs with a place in the default policy's prefix tree
  health,    \* per worker: healthy flag and the two streak counters
  tripped,   \* workers whose breaker refuses requests
  up,        \* the hosts that answer /health
  op,        \* the calls
  checker,   \* the background health checker
  outcome,   \* one request reporting its outcome
  current,   \* readers whose revision is the registry's
  reader,    \* program_targets_for_model
  cache,     \* its program_targets_cache entry
  syncer,    \* sync_program_targets_from_registry
  synced,    \* the targets it gave the scheduler
  clean,     \* URLs whose calls never overlapped nor replaced a worker
  missed     \* workers whose availability may have changed unannounced

vars == <<config, reg, counts, policies, tenants, health, tripped, up, op, checker,
          outcome, current, reader, cache, syncer, synced, clean, missed>>

(* What an instance switches on: the kind of router, the ranks of a host,   *)
(* the hosts of the command line, the calls, and the background activity.   *)
Configuration ==
  [manager : BOOLEAN, dp : 1 .. MaxDp, hosts : SUBSET Hosts, seeds : SUBSET Hosts,
   ops : SUBSET Ops, probing : BOOLEAN, requests : BOOLEAN,
   reading : {"none", "cache", "sync"}, allPool : BOOLEAN]

Readers == {"reader", "cache", "syncer", "synced"}

fleetVars == <<reg, counts, policies, tenants>>

readVars == <<reader, cache, syncer, synced>>

healthVars == <<health, tripped, up, checker, outcome, missed>>

-----------------------------------------------------------------------------
(* Helpers                                                                  *)

RanksOf(h) == [i \in 1 .. config.dp |-> <<h, i - 1>>]

ModelOf(w) == IF w[1] = Boot THEN DefaultModel ELSE op[w[1]].model

Available(w) == health[w].healthy /\ w \notin tripped

Pool == IF config.allPool THEN GetAll(reg) ELSE GetByModelFast(reg, DefaultModel)

(* program_targets: the available workers of the pool.                      *)
ProgramTargets == {w \in Pool : Available(w)}

At(o, pc) == op[o].pc = pc

Goto(o, pc) == op' = [op EXCEPT ![o].pc = pc]

Active(o) == op[o].pc \notin {"idle", "done"}

Url(o) == Head(op[o].todo)

Creates(o) == <<o, Url(o)>>

StepAfter(step, steps) == steps[1 + CHOOSE i \in DOMAIN steps : steps[i] = step]

StepsOf(steps) == {steps[i] : i \in DOMAIN steps}

IdleOp == [pc |-> "idle", kind |-> None, host |-> None, model |-> DefaultModel,
           hint |-> None, todo |-> <<>>, removed |-> <<>>, id |-> None,
           object |-> None, found |-> {}, captured |-> None, added |-> FALSE]

Ended(o) == op' = [op EXCEPT ![o] = [IdleOp EXCEPT !.pc = "done", !.model = op[o].model]]

(* Calls are alike: the lowest one that has not begun begins next.          *)
Fresh(o) ==
  /\ o \in config.ops /\ At(o, "idle")
  /\ \A p \in config.ops : p < o => ~At(p, "idle")

(* The URLs of the call that begins on host h overlap with an active call's. *)
Overlapped(h) ==
  clean' = {u \in clean : u[1] = h => \A p \in Ops : Active(p) => op[p].host # h}

-----------------------------------------------------------------------------
(* Router::new: the seed hosts that answer the startup probe come up        *)
(* healthy, the silent ones unhealthy; at least one answers.                *)
Init ==
  /\ config \in Configs
  /\ up \in SUBSET config.hosts
  /\ config.seeds # {} => up \cap config.seeds # {}
  /\ LET seeded == {<<Boot, <<h, r>>>> : h \in config.seeds, r \in 0 .. config.dp - 1}
     IN /\ reg = [workers |-> [i \in Workers |-> IF i \in seeded THEN i ELSE None],
                  urlToId |-> [u \in Urls |-> IF <<Boot, u>> \in seeded
                                              THEN <<Boot, u>> ELSE None],
                  modelWorkers |-> [m \in Models |-> IF m = DefaultModel
                                                     THEN seeded ELSE {}],
                  modelIndex |-> [m \in Models |-> IF m = DefaultModel
                                                   THEN seeded ELSE {}],
                  typeWorkers |-> seeded,
                  connectionWorkers |-> seeded]
        /\ counts = [m \in Models |-> IF m = DefaultModel
                                      THEN Cardinality(seeded) ELSE 0]
        /\ policies = [m \in Models |-> IF m = DefaultModel /\ seeded # {}
                                        THEN DefaultPolicy ELSE None]
        /\ tenants = {UrlOf(w) : w \in seeded}
        /\ health = [w \in Workers |->
                       [healthy |-> w \in seeded => HostOf(w) \in up,
                        good |-> 0, bad |-> 0]]
  /\ tripped = {} /\ missed = {} /\ clean = Urls
  /\ op = [o \in Ops |-> IdleOp]
  /\ checker = [pc |-> "idle", queue |-> {}, worker |-> None, was |-> FALSE]
  /\ outcome = [pc |-> "idle", worker |-> None, was |-> FALSE]
  /\ current = {}
  /\ reader = [pc |-> "idle", targets |-> {}] /\ cache = {}
  /\ syncer = [pc |-> "idle", targets |-> {}] /\ synced = {}

(* notify_worker_state_change                                               *)
Bump == current' = {}

-----------------------------------------------------------------------------
(* add_worker                                                               *)

(* The call begins.  The manager takes the model and the policy hint from   *)
(* the request (or the server's info), the router labels nothing.           *)
StartAdd(o) ==
  /\ Fresh(o)
  /\ \E h \in config.hosts, m \in Models,
        hint \in (Policies \ {DefaultPolicy}) \cup {None} :
       /\ ~config.manager => m = DefaultModel /\ hint = None
       /\ op' = [op EXCEPT ![o] =
            [IdleOp EXCEPT !.kind = "add", !.host = h, !.model = m, !.hint = hint,
                           !.todo = RanksOf(h),
                           !.pc = IF config.manager THEN "lookup" ELSE "probe"]]
       /\ Overlapped(h)
  /\ UNCHANGED <<config, fleetVars, healthVars, current, readVars>>

(* The health probe of the startup loop; a silent host is tried again after *)
(* the check interval ...                                                   *)
Probe(o) ==
  /\ At(o, "probe")
  /\ Goto(o, IF op[o].host \in up THEN "exists" ELSE "sleep")
  /\ UNCHANGED <<config, fleetVars, healthVars, current, readVars, clean>>

ProbeAgain(o) ==
  /\ At(o, "sleep") /\ Goto(o, "probe")
  /\ UNCHANGED <<config, fleetVars, healthVars, current, readVars, clean>>

(* ... until worker_startup_timeout_secs have passed.                       *)

StartupTimeout(o) ==
  /\ At(o, "sleep") /\ Ended(o)
  /\ UNCHANGED <<config, fleetVars, healthVars, current, readVars, clean>>

(* The next rank of the host, or the end of the call.                       *)
NextRank(o, added) ==
  IF Len(op[o].todo) = 1 THEN Ended(o)
  ELSE op' = [op EXCEPT ![o].todo = Tail(@), ![o].pc = "exists", ![o].added = added,
                       ![o].found = {}, ![o].id = None]

(* A URL already registered ends the call, or skips the rank.  KV discovery *)
(* is awaited once, before the first registration.                          *)
Exists(o) ==
  /\ At(o, "exists")
  /\ IF GetByUrl(reg, Url(o)) # None THEN NextRank(o, op[o].added)
     ELSE Goto(o, IF op[o].added THEN "lookup" ELSE "discover")
  /\ UNCHANGED <<config, fleetVars, healthVars, current, readVars, clean>>

Discover(o) ==
  /\ At(o, "discover") /\ Goto(o, "lookup")
  /\ UNCHANGED <<config, fleetVars, healthVars, current, readVars, clean>>

(* register reads the URL's id; replacing a live worker is remembered.      *)
Lookup(o) ==
  /\ At(o, "lookup")
  /\ op' = [op EXCEPT ![o].id = IdFor(reg, Creates(o)), ![o].pc = "store"]
  /\ clean' = IF reg.urlToId[Url(o)] # None THEN clean \ {Url(o)} ELSE clean
  /\ UNCHANGED <<config, fleetVars, healthVars, current, readVars>>

(* register, one map at a time; the revision moves last.                    *)
Register(o) ==
  /\ op[o].pc \in StepsOf(PushSteps)
  /\ reg' = Pushed(reg, op[o].pc, op[o].id, Creates(o), op[o].model)
  /\ IF At(o, "bump") THEN Bump /\ Goto(o, "count")
     ELSE Goto(o, StepAfter(op[o].pc, PushSteps)) /\ UNCHANGED current
  /\ UNCHANGED <<config, counts, policies, tenants, healthVars, readVars, clean>>

(* on_worker_added takes three locks, one after the other.                  *)
CountAdded(o) ==
  /\ At(o, "count")
  /\ counts' = [counts EXCEPT ![op[o].model] = @ + 1]
  /\ Goto(o, "policy")
  /\ UNCHANGED <<config, reg, policies, tenants, healthVars, current, readVars, clean>>

Assigned(o) ==
  IF config.manager THEN Ended(o) ELSE Goto(o, "snapshot")

FindPolicy(o) ==
  /\ At(o, "policy")
  /\ IF policies[op[o].model] # None THEN Assigned(o) ELSE Goto(o, "assign")
  /\ UNCHANGED <<config, fleetVars, healthVars, current, readVars, clean>>

AssignPolicy(o) ==
  /\ At(o, "assign")
  /\ policies' = [policies EXCEPT ![op[o].model] =
                    IF op[o].hint # None THEN op[o].hint ELSE DefaultPolicy]
  /\ Assigned(o)
  /\ UNCHANGED <<config, reg, counts, tenants, healthVars, current, readVars, clean>>

(* init_workers gives every worker of the model's snapshot a tenant.        *)
Snapshot(o) ==
  /\ At(o, "snapshot")
  /\ op' = [op EXCEPT ![o].found = GetByModelFast(reg, op[o].model), ![o].pc = "init"]
  /\ UNCHANGED <<config, fleetVars, healthVars, current, readVars, clean>>

InitWorkers(o) ==
  /\ At(o, "init")
  /\ tenants' = tenants \cup {UrlOf(w) : w \in op[o].found}
  /\ NextRank(o, TRUE)
  /\ UNCHANGED <<config, reg, counts, policies, healthVars, current, readVars, clean>>

-----------------------------------------------------------------------------
(* remove_worker                                                            *)

StartRemove(o) ==
  /\ Fresh(o)
  /\ \E h \in config.hosts :
       /\ op' = [op EXCEPT ![o] = [IdleOp EXCEPT !.kind = "remove", !.host = h,
                                                !.pc = "find"]]
       /\ Overlapped(h)
  /\ UNCHANGED <<config, fleetVars, healthVars, current, readVars>>

(* The workers to remove, and their model while they still have one.  The   *)
(* router gives up on an unknown URL, the manager tries anyway; with ranks  *)
(* the router takes every worker whose URL has the host as its prefix.      *)
Find(o) ==
  LET u == <<op[o].host, 0>>
      w == GetByUrl(reg, u)
      ranks == SelectSeq(RanksOf(op[o].host),
                         LAMBDA r : \E x \in GetAll(reg) : UrlOf(x) = r)
      go(todo, m) == op' = [op EXCEPT ![o].todo = todo, ![o].captured = m,
                                      ![o].pc = "unmap"]
  IN /\ At(o, "find")
     /\ IF config.dp > 1 /\ ~config.manager
        THEN IF ranks = <<>> THEN Ended(o) ELSE go(ranks, DefaultModel)
        ELSE IF w # None THEN go(<<u>>, ModelOf(w))
        ELSE IF config.manager THEN go(<<u>>, None) ELSE Ended(o)
     /\ UNCHANGED <<config, fleetVars, healthVars, current, readVars, clean>>

(* What follows the registry: the trees and the policies of what was        *)
(* removed, or nothing.                                                     *)
AfterUrl(o, removed) ==
  LET rest == Tail(op[o].todo)
  IN IF rest = <<>> /\ (removed = <<>> \/ op[o].captured = None) THEN Ended(o)
     ELSE op' = [op EXCEPT ![o].todo = rest, ![o].removed = removed,
                           ![o].id = None, ![o].object = None,
                           ![o].pc = IF rest # <<>> THEN "unmap"
                                     ELSE IF config.manager THEN "uncount" ELSE "tree"]

(* remove_by_url unmaps the URL, then removes the id it was mapped to.      *)
Unmap(o) ==
  /\ At(o, "unmap")
  /\ IF reg.urlToId[Url(o)] = None
     THEN AfterUrl(o, op[o].removed) /\ UNCHANGED reg
     ELSE /\ reg' = [reg EXCEPT !.urlToId[Url(o)] = None]
          /\ op' = [op EXCEPT ![o].id = reg.urlToId[Url(o)], ![o].pc = "drop"]
  /\ UNCHANGED <<config, counts, policies, tenants, healthVars, current, readVars, clean>>

Drop(o) ==
  /\ At(o, "drop")
  /\ IF Get(reg, op[o].id) = None
     THEN AfterUrl(o, op[o].removed) /\ UNCHANGED reg
     ELSE /\ reg' = [reg EXCEPT !.workers[op[o].id] = None]
          /\ op' = [op EXCEPT ![o].object = Get(reg, op[o].id), ![o].pc = "rurl"]
  /\ UNCHANGED <<config, counts, policies, tenants, healthVars, current, readVars, clean>>

(* remove, one map at a time; the revision moves last.                      *)
Retain(o) ==
  /\ op[o].pc \in StepsOf(RetainSteps)
  /\ reg' = Retained(reg, op[o].pc, op[o].id, op[o].object, ModelOf(op[o].object))
  /\ IF At(o, "rbump") THEN Bump /\ AfterUrl(o, Append(op[o].removed, Url(o)))
     ELSE Goto(o, StepAfter(op[o].pc, RetainSteps)) /\ UNCHANGED current
  /\ UNCHANGED <<config, counts, policies, tenants, healthVars, readVars, clean>>

(* remove_from_tree finds the tree through the model's policy.              *)
RemoveFromTree(o) ==
  /\ At(o, "tree")
  /\ tenants' = IF policies[op[o].captured] = DefaultPolicy
                THEN tenants \ {Head(op[o].removed)} ELSE tenants
  /\ Goto(o, "uncount")
  /\ UNCHANGED <<config, reg, counts, policies, healthVars, current, readVars, clean>>

NextRemoved(o) ==
  IF Len(op[o].removed) = 1 THEN Ended(o)
  ELSE op' = [op EXCEPT ![o].removed = Tail(@), ![o].pc = "tree"]

(* on_worker_removed: the count under one lock, the policy under another.   *)

CountRemoved(o) ==
  /\ At(o, "uncount")
  /\ LET n == counts[op[o].captured]
     IN /\ counts' = [counts EXCEPT ![op[o].captured] = IF n = 0 THEN 0 ELSE n - 1]
        /\ IF n = 1 THEN Goto(o, "unassign") ELSE NextRemoved(o)
  /\ UNCHANGED <<config, reg, policies, tenants, healthVars, current, readVars, clean>>

DropPolicy(o) ==
  /\ At(o, "unassign")
  /\ policies' = [policies EXCEPT ![op[o].captured] = None]
  /\ NextRemoved(o)
  /\ UNCHANGED <<config, reg, counts, tenants, healthVars, current, readVars, clean>>

-----------------------------------------------------------------------------
(* Health: the checker of WorkerRegistry::start_health_checker              *)

StartRound ==
  /\ config.probing /\ checker.pc = "idle" /\ checker.queue = {}
  /\ checker' = [checker EXCEPT !.queue = GetAll(reg)]
  /\ UNCHANGED <<config, fleetVars, health, tripped, up, outcome, missed, op, current,
                 readVars, clean>>

(* Two observers of one worker at once: each compares with its own earlier  *)
(* reading, so that a change and its reversal between them go unannounced.  *)
Watched(w, other) ==
  missed' = IF other.worker = w THEN missed \cup {w} ELSE missed

StartCheck ==
  /\ checker.pc = "idle"
  /\ \E w \in checker.queue :
       /\ checker' = [pc |-> "probing", queue |-> checker.queue \ {w}, worker |-> w,
                      was |-> Available(w)]
       /\ Watched(w, outcome)
  /\ UNCHANGED <<config, fleetVars, health, tripped, up, outcome, op, current,
                 readVars, clean>>

AtMost(n, max) == IF n < max THEN n ELSE max

(* check_health_async: a streak of answers makes an unhealthy worker        *)
(* healthy, a streak of failures a healthy one unhealthy.  The counters     *)
(* stop at their thresholds: nothing tells larger values apart.             *)
CheckHealthForgets(h, answered) ==   \* mutant: an unhealthy worker keeps no streak
  IF answered
  THEN IF ~h.healthy /\ h.good + 1 >= SuccessThreshold
       THEN [healthy |-> TRUE, good |-> 0, bad |-> 0]
       ELSE [h EXCEPT !.good = IF h.healthy THEN AtMost(@ + 1, SuccessThreshold) ELSE 0,
                      !.bad = 0]
  ELSE LET n == AtMost(h.bad + 1, FailureThreshold)
       IN IF h.healthy /\ n >= FailureThreshold
          THEN [healthy |-> FALSE, good |-> 0, bad |-> 0]
          ELSE [h EXCEPT !.good = 0, !.bad = n]

CheckHealth(h, answered) ==
  IF answered
  THEN LET n == AtMost(h.good + 1, SuccessThreshold)
       IN IF ~h.healthy /\ n >= SuccessThreshold
          THEN [healthy |-> TRUE, good |-> 0, bad |-> 0]
          ELSE [h EXCEPT !.good = n, !.bad = 0]
  ELSE LET n == AtMost(h.bad + 1, FailureThreshold)
       IN IF h.healthy /\ n >= FailureThreshold
          THEN [healthy |-> FALSE, good |-> 0, bad |-> 0]
          ELSE [h EXCEPT !.good = 0, !.bad = n]

FinishProbe ==
  /\ checker.pc = "probing"
  /\ health' = [health EXCEPT ![checker.worker] =
                  CheckHealth(@, HostOf(checker.worker) \in up)]
  /\ checker' = [checker EXCEPT !.pc = "compare"]
  /\ UNCHANGED <<config, fleetVars, tripped, up, outcome, missed, op, current, readVars,
                 clean>>

(* The revision moves when this check changed the worker's availability.    *)
CompareHealthFailures ==   \* mutant: only a loss of availability is announced
  /\ checker.pc = "compare"
  /\ IF checker.was /\ ~Available(checker.worker) THEN Bump ELSE UNCHANGED current
  /\ checker' = [checker EXCEPT !.pc = "idle", !.worker = None, !.was = FALSE]
  /\ UNCHANGED <<config, fleetVars, health, tripped, up, outcome, missed, op, readVars,
                 clean>>

CompareHealth ==
  /\ checker.pc = "compare"
  /\ IF checker.was # Available(checker.worker) THEN Bump ELSE UNCHANGED current
  /\ checker' = [checker EXCEPT !.pc = "idle", !.worker = None, !.was = FALSE]
  /\ UNCHANGED <<config, fleetVars, health, tripped, up, outcome, missed, op, readVars,
                 clean>>

(* route_typed_request: availability before and after record_outcome.       *)
StartOutcome ==
  /\ config.requests /\ outcome.pc = "idle"
  /\ \E w \in GetAll(reg) :
       /\ outcome' = [pc |-> "record", worker |-> w, was |-> Available(w)]
       /\ Watched(w, checker)
  /\ UNCHANGED <<config, fleetVars, health, tripped, up, checker, op, current,
                 readVars, clean>>

(* The outcome may open a breaker that lets requests through.               *)
RecordOutcome ==
  /\ outcome.pc = "record"
  /\ \/ UNCHANGED tripped
     \/ tripped' = tripped \cup {outcome.worker}
  /\ outcome' = [outcome EXCEPT !.pc = "compare"]
  /\ UNCHANGED <<config, fleetVars, health, up, checker, missed, op, current, readVars,
                 clean>>

CompareOutcome ==
  /\ outcome.pc = "compare"
  /\ IF outcome.was # Available(outcome.worker) THEN Bump ELSE UNCHANGED current
  /\ outcome' = [outcome EXCEPT !.pc = "idle", !.worker = None, !.was = FALSE]
  /\ UNCHANGED <<config, fleetVars, health, tripped, up, checker, missed, op, readVars,
                 clean>>

(* can_execute lets requests through again once the timeout has passed;     *)
(* nothing tells the registry.                                              *)
CoolDown(w) ==
  /\ w \in tripped
  /\ tripped' = tripped \ {w} /\ missed' = missed \cup {w}
  /\ UNCHANGED <<config, fleetVars, health, up, checker, outcome, op, current, readVars,
                 clean>>

(* A host comes up or goes down.                                            *)
HostChanges(h) ==
  /\ config.probing /\ h \in config.hosts
  /\ up' = IF h \in up THEN up \ {h} ELSE up \cup {h}
  /\ UNCHANGED <<config, fleetVars, health, tripped, checker, outcome, missed, op,
                 current, readVars, clean>>

-----------------------------------------------------------------------------
(* Targets: program_targets_for_model and its cache                         *)

(* A reading of the revision by r, kept with what it is stored in.          *)
KeepsReading(store, r) ==
  current' = IF r \in current THEN (current \ {r}) \cup {store} ELSE current \ {store}

(* A cached entry of the current revision is returned as it is.             *)
StartRead ==
  /\ config.reading = "cache" /\ reader.pc = "idle" /\ "cache" \notin current
  /\ reader' = [reader EXCEPT !.pc = "collect"]
  /\ current' = current \cup {"reader"}
  /\ UNCHANGED <<config, fleetVars, healthVars, op, cache, syncer, synced, clean>>

Collect ==
  /\ reader.pc = "collect"
  /\ reader' = [pc |-> "recheck", targets |-> ProgramTargets]
  /\ UNCHANGED <<config, fleetVars, healthVars, op, current, cache, syncer, synced, clean>>

(* The revision moved during the collection: start over.                    *)
Recheck ==
  /\ reader.pc = "recheck"
  /\ reader' = IF "reader" \in current THEN [reader EXCEPT !.pc = "store"]
               ELSE [pc |-> "idle", targets |-> {}]
  /\ UNCHANGED <<config, fleetVars, healthVars, op, current, cache, syncer, synced, clean>>

Store ==
  /\ reader.pc = "store"
  /\ cache' = reader.targets
  /\ KeepsReading("cache", "reader")
  /\ reader' = [pc |-> "idle", targets |-> {}]
  /\ UNCHANGED <<config, fleetVars, healthVars, op, syncer, synced, clean>>

(* sync_program_targets_from_registry applies first and checks again after. *)
StartSync ==
  /\ config.reading = "sync" /\ syncer.pc \in {"idle", "load"}
  /\ syncer' = [syncer EXCEPT !.pc = "collect"]
  /\ current' = current \cup {"syncer"}
  /\ UNCHANGED <<config, fleetVars, healthVars, op, reader, cache, synced, clean>>

SyncCollect ==
  /\ syncer.pc = "collect"
  /\ syncer' = [pc |-> "recheck", targets |-> ProgramTargets]
  /\ UNCHANGED <<config, fleetVars, healthVars, op, current, reader, cache, synced, clean>>

SyncRecheck ==
  /\ syncer.pc = "recheck"
  /\ syncer' = IF "syncer" \in current THEN [syncer EXCEPT !.pc = "apply"]
               ELSE [pc |-> "load", targets |-> {}]
  /\ UNCHANGED <<config, fleetVars, healthVars, op, current, reader, cache, synced, clean>>

(* sync_target_snapshots                                                    *)
SyncApply ==
  /\ syncer.pc = "apply"
  /\ synced' = syncer.targets
  /\ KeepsReading("synced", "syncer")
  /\ syncer' = [pc |-> "confirm", targets |-> {}]
  /\ UNCHANGED <<config, fleetVars, healthVars, op, reader, cache, clean>>

SyncConfirm ==
  /\ syncer.pc = "confirm"
  /\ syncer' = [syncer EXCEPT !.pc = IF "synced" \in current THEN "idle" ELSE "load"]
  /\ UNCHANGED <<config, fleetVars, healthVars, op, current, reader, cache, synced, clean>>

-----------------------------------------------------------------------------

Call(o) ==
  \/ Probe(o) \/ ProbeAgain(o) \/ Exists(o) \/ Discover(o) \/ Lookup(o) \/ Register(o)
  \/ CountAdded(o) \/ FindPolicy(o) \/ AssignPolicy(o) \/ Snapshot(o) \/ InitWorkers(o)
  \/ Find(o) \/ Unmap(o) \/ Drop(o) \/ Retain(o) \/ RemoveFromTree(o)
  \/ CountRemoved(o) \/ DropPolicy(o)

Checker == StartRound \/ StartCheck \/ FinishProbe \/ CompareHealth

Outcome == StartOutcome \/ RecordOutcome \/ CompareOutcome

Reading == StartRead \/ Collect \/ Recheck \/ Store

Syncing == StartSync \/ SyncCollect \/ SyncRecheck \/ SyncApply \/ SyncConfirm

Next ==
  \/ \E o \in Ops : StartAdd(o) \/ StartRemove(o) \/ StartupTimeout(o) \/ Call(o)
  \/ Checker \/ Outcome \/ Reading \/ Syncing
  \/ \E w \in Workers : CoolDown(w)
  \/ \E h \in Hosts : HostChanges(h)

(* A spawned call and the checker's loop run whenever they can; the startup *)
(* loop of add_worker cannot outlive its timeout.                           *)
Fairness ==
  /\ \A o \in Ops : WF_vars(Call(o)) /\ SF_vars(StartupTimeout(o))
  /\ WF_vars(Checker)

Spec == Init /\ [][Next]_vars /\ Fairness

-----------------------------------------------------------------------------
(* Properties                                                               *)

(* Every variable has its type.                                             *)
TypeOK ==
  /\ config \in Configuration /\ reg \in Registry
  /\ counts \in [Models -> Nat] /\ policies \in [Models -> Policies \cup {None}]
  /\ tenants \subseteq Urls /\ clean \subseteq Urls
  /\ health \in [Workers -> [healthy : BOOLEAN, good : 0 .. SuccessThreshold,
                             bad : 0 .. FailureThreshold]]
  /\ tripped \subseteq Workers /\ missed \subseteq Workers /\ up \subseteq Hosts
  /\ current \subseteq Readers
  /\ cache \subseteq Workers /\ synced \subseteq Workers

(* A registration or removal has changed the pool and not yet moved the     *)
(* revision, or an availability has changed and is about to be compared.    *)
Unannounced ==
  \/ \E o \in Ops : op[o].pc \in (StepsOf(PushSteps) \ {"store"}) \cup StepsOf(RetainSteps)
  \/ checker.pc = "compare" \/ outcome.pc = "compare"

(* Whatever calls, checks and outcomes interleave with a collection of      *)
(* targets: once no change is waiting to be announced, a cached or synced   *)
(* target set whose revision is still the registry's is exactly the set of  *)
(* available workers.  Two kinds of worker are excepted: one whose breaker  *)
(* has timed out, which can_execute lets through without a notification,    *)
(* and one that a check and an outcome have observed at the same time.      *)
CachedTargetsAreCurrent ==
  ~Unannounced =>
    /\ "cache" \in current => cache \ missed = ProgramTargets \ missed
    /\ "synced" \in current => synced \ missed = ProgramTargets \ missed

(* Calls on different URLs share every map of the registry and never damage *)
(* each other's entries: a URL whose own calls did not overlap is, between  *)
(* them, either in all maps as one worker or in none.                       *)
UncontendedUrlsAgree ==
  \A u \in clean :
    (\A o \in Ops : Active(o) => u[1] # op[o].host) =>
      LET w == GetByUrl(reg, u)
      IN Agrees(reg, u, IF w = None THEN DefaultModel ELSE ModelOf(w))

(* As long as no URL is contended, a model whose calls have ended counts    *)
(* exactly its live workers, whatever the order in which concurrent adds    *)
(* and removes of its other workers reach the policy registry.              *)
CountsMatchWorkers ==
  clean = Urls /\ (\A o \in Ops : ~Active(o)) =>
    \A m \in Models : counts[m] = Cardinality({w \in GetAll(reg) : ModelOf(w) = m})

(* A host that did not answer the startup probe, or failed later, and then  *)
(* answers for good has its registered workers back in the pool: the        *)
(* background checker gets to every registered worker.                      *)
SilentHostsRecover ==
  \A h \in Hosts :
    config.probing /\ <>[](h \in up) =>
      <>[](\A w \in GetAll(reg) : HostOf(w) = h => health[w].healthy)

(* Every add_worker and remove_worker call ends, whatever the hosts do.     *)
CallsEnd == \A o \in Ops : Active(o) ~> At(o, "done")

(* The registry, its indices, the policy registry's counts and the cached *)
(* targets agree through concurrent adds, removals, health checks and     *)
(* request outcomes.                                                      *)
FleetIsConsistent ==
  /\ TypeOK
  /\ CachedTargetsAreCurrent
  /\ UncontendedUrlsAgree
  /\ CountsMatchWorkers

(* The fleet settles: calls end, and hosts that answer again are back in  *)
(* the pool.                                                              *)
FleetSettles == SilentHostsRecover /\ CallsEnd
=============================================================================
