----------------------------- MODULE KvWorkers ------------------------------
(***************************************************************************)
(* The supervisor of the KV index first, then the load slots of the        *)
(* KV-aware policy.                                                        *)
(*                                                                         *)
(* KvIndexSupervisor of kv_index/discovery.rs: the workers whose events    *)
(* are followed and the reference count of the cache identity they share.  *)
(* Worker management calls it from concurrent tasks; identity_refs,        *)
(* indexers and workers are three separately locked maps.                  *)
(*                                                                         *)
(* All workers have one cache identity.  Indexers are numbered in the      *)
(* order they are made; sup.indexer is the one the map holds, 0 for none.  *)
(* What a subscriber writes into an indexer is modelled in KvIngest.  For  *)
(* the properties, late says that another add recorded a call's URL after  *)
(* the call began, leaked counts the entries such a call overwrote, and    *)
(* raced says that a release dropped the indexer after its last reference  *)
(* had been taken up again.                                                *)
(***************************************************************************)
EXTENDS Naturals, Sequences, FiniteSets, Functions

CONSTANTS
  Tasks,      \* concurrent management calls
  Urls,       \* worker URLs
  CallPlans   \* the calls of every task: [Tasks -> Seq(ManagementCalls)]

ManagementCalls == [op : {"add", "remove"}, url : Urls]

ASSUME TaskAssumption ==
  /\ IsFiniteSet(Tasks) /\ IsFiniteSet(Urls)
  /\ \A plan \in CallPlans : plan \in [Tasks -> Seq(ManagementCalls)]

VARIABLES
  sup,        \* [workers: url -> its indexer or 0, refs, indexer, made, leaked, raced]
  tasks       \* per task: [calls, pc, hold: its indexer, late]

supVars == <<sup, tasks>>

SupInit ==
  /\ sup = [workers |-> [u \in Urls |-> 0], refs |-> 0, indexer |-> 0, made |-> 0,
            leaked |-> 0, raced |-> FALSE]
  /\ \E plan \in CallPlans :
       tasks = [c \in Tasks |-> [calls |-> plan[c], pc |-> "start", hold |-> 0, late |-> FALSE]]

Op(c) == Head(tasks[c].calls)

Ready(c, pc) == tasks[c].calls # <<>> /\ tasks[c].pc = pc

To(c, pc) == tasks' = [tasks EXCEPT ![c].pc = pc]

Over(t) == [calls |-> Tail(t.calls), pc |-> "start", hold |-> 0, late |-> FALSE]

Finish(c) == tasks' = [tasks EXCEPT ![c] = Over(@)]

(* on_worker_added tears a tracked worker down first.                       *)
AlreadyTracked(u) == sup.workers[u] # 0

OnWorkerAdded(c) ==
  /\ Ready(c, "start") /\ Op(c).op = "add"
  /\ To(c, IF AlreadyTracked(Op(c).url) THEN "take" ELSE "discover")
  /\ UNCHANGED sup

OnWorkerRemoved(c) ==
  /\ Ready(c, "start") /\ Op(c).op = "remove"
  /\ To(c, "take")
  /\ UNCHANGED sup

(* What follows the removal of an entry: the rest of an add, or the return. *)
AfterRemoval(c) == IF Op(c).op = "add" THEN To(c, "discover") ELSE Finish(c)

(* Take the entry out, stop its subscribers and clear its residency.        *)
TakeEntry(c) ==
  /\ Ready(c, "take")
  /\ IF sup.workers[Op(c).url] = 0
       THEN /\ AfterRemoval(c)
            /\ UNCHANGED sup
       ELSE /\ sup' = [sup EXCEPT !.workers[Op(c).url] = 0]
            /\ To(c, "release")

(* release_identity under the lock of identity_refs; the last reference     *)
(* unlocks before it drops the indexer.                                     *)
Release(c) ==
  /\ Ready(c, "release")
  /\ sup' = [sup EXCEPT !.refs = IF @ > 0 THEN @ - 1 ELSE 0]
  /\ IF sup.refs = 1 THEN To(c, "drop") ELSE AfterRemoval(c)

DropIndexer(c) ==
  /\ Ready(c, "drop")
  /\ sup' = [sup EXCEPT !.indexer = 0, !.raced = @ \/ sup.refs > 0]
  /\ AfterRemoval(c)

(* discover_worker: without event sources, block size or model id the       *)
(* worker is not followed.                                                  *)
Discover(c) ==
  /\ Ready(c, "discover")
  /\ \/ To(c, "acquire")
     \/ Finish(c)
  /\ UNCHANGED sup

(* acquire_identity under the lock of identity_refs.                        *)
Acquire(c) ==
  /\ Ready(c, "acquire")
  /\ sup' = IF sup.refs = 0
              THEN [sup EXCEPT !.refs = 1, !.made = @ + 1, !.indexer = sup.made + 1]
              ELSE [sup EXCEPT !.refs = @ + 1]
  /\ To(c, "get")

(* indexers.get(key).expect("just inserted")                                *)
GetIndexer(c) ==
  /\ Ready(c, "get")
  /\ tasks' = [tasks EXCEPT ![c].pc = IF sup.indexer = 0 THEN "panicked" ELSE "track",
                            ![c].hold = sup.indexer]
  /\ UNCHANGED sup

(* Spawn the subscribers and record them; an entry that appeared meanwhile  *)
(* is overwritten with its reference.                                       *)
Track(c) ==
  /\ Ready(c, "track")
  /\ sup' = [sup EXCEPT !.workers[Op(c).url] = tasks[c].hold,
                        !.leaked = IF sup.workers[Op(c).url] # 0 /\ tasks[c].late THEN @ + 1 ELSE @]
  /\ tasks' = [d \in Tasks |->
       IF d = c THEN Over(tasks[d])
       ELSE [tasks[d] EXCEPT !.late = @ \/ (tasks[d].pc # "start" /\ Op(d) = Op(c))]]

TaskStep(c) ==
  \/ OnWorkerAdded(c) \/ OnWorkerRemoved(c) \/ TakeEntry(c) \/ Release(c) \/ DropIndexer(c)
  \/ Discover(c) \/ Acquire(c) \/ GetIndexer(c) \/ Track(c)

SupNext == \E c \in Tasks : TaskStep(c)

SupSpec == SupInit /\ [][SupNext]_supVars

-----------------------------------------------------------------------------
(* The identity is referenced once per tracked worker, per call that is     *)
(* between acquiring and recording or between taking and releasing, and by  *)
(* what two races leave behind for good: an add that overwrote a concurrent *)
(* add of its URL, and an add that panicked with the reference it had taken. *)
(* A sequential re-add loses none ("Re-add would overwrite prior handles -   *)
(* leak the identity ref", discovery.rs:146).                               *)
RefsCountHolders ==
  sup.refs = Cardinality({u \in Urls : sup.workers[u] # 0}) + sup.leaked
             + Cardinality({c \in Tasks : tasks[c].pc \in {"get", "track", "release", "panicked"}})

(* indexers.get(key).expect("just inserted"): a referenced identity has its *)
(* indexer, and no add panics, up to the one race of release_identity, which *)
(* drops the indexer after it gave up the lock of the references.  From then *)
(* on the expectation is false.                                             *)
PanicsComeFromTheRace ==
  (sup.refs > 0 /\ sup.indexer = 0) \/ (\E c \in Tasks : tasks[c].pc = "panicked") => sup.raced

-----------------------------------------------------------------------------
(***************************************************************************)
(* The router-local load accounting of policies/kv_aware.rs: the counters  *)
(* of InMemorySlotManager per target, and the KvRequestSlot that the body  *)
(* and the producer of one request share and signal independently.         *)
(* Every DashMap operation is atomic; the state of a slot is one atomic.   *)
(***************************************************************************)

CONSTANTS
  SlotRequests,   \* requests
  SlotTargets,    \* (worker, rank) targets
  PrefillTokens,  \* request -> new_prefill_tokens of its receipt
  Sharers         \* the tasks that share the slot of a request

ASSUME SlotAssumption ==
  /\ IsFiniteSet(SlotRequests) /\ SlotTargets # {}
  /\ PrefillTokens \in [SlotRequests -> Nat]

VARIABLES
  counters,   \* target -> [present, tokens, requests]
  slotOf,     \* request -> [state, target]; state 0 prefill, 1 decode, 2 freed, 3 not begun
  signals     \* request -> sharer -> where its call is

slotVars == <<counters, slotOf, signals>>

Absent == [present |-> FALSE, tokens |-> 0, requests |-> 0]

Monus(a, b) == IF a > b THEN a - b ELSE 0

SlotInit ==
  /\ counters = [t \in SlotTargets |-> Absent]
  /\ slotOf = [r \in SlotRequests |-> [state |-> 3, target |-> CHOOSE t \in SlotTargets : TRUE]]
  /\ signals = [r \in SlotRequests |-> [h \in Sharers |-> "idle"]]

(* begin_request: begin_prefill on the receipt's target.                    *)
BeginRequest(r) ==
  /\ slotOf[r].state = 3
  /\ \E t \in SlotTargets :
       /\ counters' = [counters EXCEPT ![t] = [present |-> TRUE,
                                               tokens |-> @.tokens + PrefillTokens[r],
                                               requests |-> @.requests + 1]]
       /\ slotOf' = [slotOf EXCEPT ![r] = [state |-> 0, target |-> t]]
  /\ UNCHANGED signals

Signal(r, h, from, to) ==
  /\ signals[r][h] = from
  /\ signals' = [signals EXCEPT ![r][h] = to]

Cas(r, from) == slotOf[r].state = from

(* KvRequestSlot::begin_decode, alone or as the start of release: one       *)
(* sharer wins the exchange and moves the counters.                         *)
SignalDecode(r, h) ==
  /\ slotOf[r].state # 3
  /\ \E releasing \in BOOLEAN :
       Signal(r, h, "idle",
              IF Cas(r, 0) THEN (IF releasing THEN "decode_release" ELSE "decode")
              ELSE IF releasing THEN "release" ELSE "idle")
  /\ slotOf' = [slotOf EXCEPT ![r].state = IF Cas(r, 0) THEN 1 ELSE @]
  /\ UNCHANGED counters

(* SlotManager::begin_decode with one target: update_or_insert.             *)
DecodeBegun(counter, tokens) ==
  [counter EXCEPT !.present = TRUE, !.tokens = Monus(counter.tokens, tokens)]

BeginDecode(r, h) ==
  /\ \/ Signal(r, h, "decode", "idle")
     \/ Signal(r, h, "decode_release", "release")
  /\ counters' = [counters EXCEPT ![slotOf[r].target] = DecodeBegun(@, PrefillTokens[r])]
  /\ UNCHANGED slotOf

(* The second exchange of release: the winner frees.                        *)
SignalRelease(r, h) ==
  /\ Signal(r, h, "release", IF Cas(r, 1) THEN "free" ELSE "done")
  /\ slotOf' = [slotOf EXCEPT ![r].state = IF Cas(r, 1) THEN 2 ELSE @]
  /\ UNCHANGED counters

Free(r, h) ==
  /\ Signal(r, h, "free", "prune")
  /\ counters' = [counters EXCEPT ![slotOf[r].target].requests =
                    IF counters[slotOf[r].target].present THEN Monus(@, 1) ELSE @]
  /\ UNCHANGED slotOf

PrunedByRequests(c) == IF c.requests = 0 THEN Absent ELSE c   \* mutant: pending tokens are ignored

(* prune_if_idle: check and removal under one entry.                        *)
Pruned(c) == IF c.requests = 0 /\ c.tokens = 0 THEN Absent ELSE c

Prune(r, h) ==
  /\ Signal(r, h, "prune", "done")
  /\ counters' = [counters EXCEPT ![slotOf[r].target] = Pruned(@)]
  /\ UNCHANGED slotOf

(* unregister_target while requests are active.                             *)
UnregisterTarget(t) ==
  /\ counters[t].present
  /\ counters' = [counters EXCEPT ![t] = Pruned(@)]
  /\ UNCHANGED <<slotOf, signals>>

SlotNext ==
  \/ \E r \in SlotRequests :
       \/ BeginRequest(r)
       \/ \E h \in Sharers : \/ SignalDecode(r, h) \/ BeginDecode(r, h) \/ SignalRelease(r, h)
                             \/ Free(r, h) \/ Prune(r, h)
  \/ \E t \in SlotTargets : UnregisterTarget(t)

SlotSpec == SlotInit /\ [][SlotNext]_slotVars

-----------------------------------------------------------------------------
Sharing(r, pcs) == \E h \in Sharers : signals[r][h] \in pcs

(* Begun on the target and not freed, and not yet moved to decode.          *)
ActiveOn(t) ==
  {r \in SlotRequests : slotOf[r].target = t /\ (slotOf[r].state \in {0, 1} \/ Sharing(r, {"free"}))}

PrefillingOn(t) ==
  {r \in SlotRequests : /\ slotOf[r].target = t
                        /\ slotOf[r].state = 0 \/ Sharing(r, {"decode", "decode_release"})}

(* The load a selection samples is exact whatever the order in which body   *)
(* and producer signal output and completion: a target's request count is   *)
(* the requests begun on it and not freed, its tokens the prefill of those  *)
(* that have not been moved to decode; no decrement is lost, doubled or cut *)
(* off at zero, and no counter is pruned while a request still uses it.     *)
SlotsAreExact ==
  \A t \in SlotTargets :
    /\ counters[t].requests = Cardinality(ActiveOn(t))
    /\ counters[t].tokens = SumFunctionOnSet(PrefillTokens, PrefillingOn(t))

(* What is counted per identity and per target is what is held, or what   *)
(* the two races of concurrent adds left behind, whatever the order in    *)
(* which calls, bodies and producers run.                                 *)
HoldersAreExact == RefsCountHolders /\ PanicsComeFromTheRace /\ SlotsAreExact
=============================================================================
