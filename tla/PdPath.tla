------------------------------- MODULE PdPath --------------------------------
(***************************************************************************)
(* Two-stage requests of routers/http/vllm_pd_router.rs on one prefill and *)
(* one decode worker, in direct mode (process_vllm_two_stage_request) and  *)
(* in discovery mode (..._discovered), with the encoder stage in front, the *)
(* NIXL identity cache, and the profiling of the workers with its timeout   *)
(* tasks.                                                                   *)
(*                                                                          *)
(* A request is the list of the steps it still has to take, one per await;  *)
(* the client may drop it before any of them.                               *)
(***************************************************************************)
EXTENDS Naturals, Sequences, FiniteSets

CONSTANTS
  PdRequests,    \* concurrent requests
  PdScenes,      \* router and request settings, a set of Scene records
  MaxEngines     \* starts of the prefill engine

Stages == {"p", "d"}
Media == {1, 2}            \* media items of a request, one EC transfer each
Timers == PdRequests \X Stages
NoTimer == <<"none", "p">>

(* direct: worker URLs are given; connector: KvConnector, MoriIO by its      *)
(* registered mode; profile: enable_profiling; epd: an encoder stage is set; *)
(* merge: logprobs without stream; stream; clients: the requests that come.  *)
Scene == [direct : BOOLEAN, connector : {"nixl", "mooncake", "read", "write"},
          profile : BOOLEAN, epd : BOOLEAN, merge : BOOLEAN, stream : BOOLEAN,
          clients : SUBSET PdRequests]

ASSUME PdAssumption ==
  /\ IsFiniteSet(PdRequests) /\ NoTimer \notin Timers
  /\ PdScenes \subseteq Scene
  /\ MaxEngines \in Nat \ {0}

VARIABLES
  scene,      \* never changes
  pd,         \* request -> its state
  pdLoad,     \* worker -> load counter
  profiled,   \* the workers that are profiling
  tasks,      \* profiling_tasks: worker -> timer, or NoTimer
  timers,     \* timer -> none, asleep, stopping
  tasksLock,  \* the request that holds the lock of profiling_tasks, or "free"
  nixl,       \* nixl_prefill_info: the engine whose identity is cached, 0 for none
  engine,     \* the running prefill engine
  orphans     \* for the properties: the workers whose profile may have nobody to end it

pdVars == <<scene, pd, pdLoad, profiled, tasks, timers, tasksLock, nixl, engine, orphans>>

NewPd == [todo |-> <<<<"enter", "p">>>>, held |-> {}, together |-> FALSE, kv |-> "none",
          by |-> 0, params |-> "none", decoding |-> FALSE, prefilled |-> FALSE,
          armed |-> {}, given |-> {}, cancelled |-> {}]

PdInit ==
  /\ scene \in PdScenes
  /\ pd = [r \in PdRequests |-> NewPd]
  /\ pdLoad = [w \in Stages |-> 0]
  /\ profiled = {}
  /\ tasks = [w \in Stages |-> NoTimer]
  /\ timers = [t \in Timers |-> "none"]
  /\ tasksLock = "free"
  /\ nixl = 0 /\ engine = 1
  /\ orphans = {}

-----------------------------------------------------------------------------
(* Steps                                                                     *)

At(r, op) == pd[r].todo # <<>> /\ Head(pd[r].todo)[1] = op

Stage(r) == Head(pd[r].todo)[2]

(* start_profiling: ask the worker, spawn the timeout task, register it.     *)
StartSteps(w) == IF scene.profile THEN <<<<"post", w>>, <<"spawn", w>>, <<"insert", w>>>> ELSE <<>>

(* stop_profiling: abort the task, then ask the worker, under the lock.      *)
StopSteps(w) == IF scene.profile THEN <<<<"abort", w>>, <<"unpost", w>>>> ELSE <<>>

Do(op) == <<<<op, "p">>>>

(* WorkerLoadGuard: new, release or drop.                                    *)
Hold(o, S) == [o EXCEPT !.held = @ \cup S]

Free(o, S) == [o EXCEPT !.held = @ \ S]

LoadsWith(r, o) ==
  [w \in Stages |-> pdLoad[w] + (IF w \in o.held \ pd[r].held THEN 1 ELSE 0)
                              - (IF w \in pd[r].held \ o.held THEN 1 ELSE 0)]

(* The request continues as o.                                               *)
Become(r, o) == pd' = [pd EXCEPT ![r] = o] /\ pdLoad' = LoadsWith(r, o)

Then(o, steps) == [o EXCEPT !.todo = steps]

(* EcTransferGuard::drop cancels what is still armed.                        *)
CancelArmed(o) == [o EXCEPT !.armed = {}, !.cancelled = @ \cup o.armed]

(* The end of the handler, or of its body: every guard is dropped.           *)
Over(o) ==
  Then([CancelArmed(Free(o, Stages)) EXCEPT !.together = FALSE, !.kv = "none", !.by = 0,
                                            !.params = "none", !.decoding = FALSE], <<>>)

profileVars == <<profiled, tasks, timers, tasksLock, orphans>>

-----------------------------------------------------------------------------
(* Dispatch                                                                  *)

(* get_nixl_push_identity: what makes a dispatch concurrent.                 *)
Known == scene.connector = "nixl" /\ nixl # 0

Together == Known \/ (~scene.direct /\ scene.connector = "write")

(* Direct mode has no registrations: MoRI-IO fails with no transfer mode.    *)
NoTransferMode == scene.direct /\ scene.connector \in {"read", "write"}

(* try_build_concurrent_requests reads the identity once and keeps it.       *)
DispatchTogether(o) ==
  Then([Hold(o, Stages) EXCEPT !.together = TRUE, !.params = "identity", !.by = nixl],
       StartSteps("p") \o StartSteps("d") \o Do("join"))

DispatchInTurn(o) ==
  IF NoTransferMode THEN Over(o) ELSE Then(Hold(o, {"p"}), StartSteps("p") \o Do("prefill"))

DispatchDiscovered(o) ==
  IF Together THEN Then([o EXCEPT !.together = TRUE], Do("params"))
  ELSE Then(o, StartSteps("p") \o Do("prefill"))

Dispatch(o) ==
  IF ~scene.direct THEN DispatchDiscovered(o)
  ELSE IF Together THEN DispatchTogether(o) ELSE DispatchInTurn(o)

(* Nobody to send to: a role without workers or instances, or a policy that  *)
(* selects none.                                                             *)
NoPair(r) ==
  /\ At(r, "enter") /\ r \in scene.clients
  /\ Become(r, Over(pd[r]))
  /\ UNCHANGED <<scene, profileVars, nixl, engine>>

(* A body that is no object (400), the encoder stage, or the dispatch.       *)
Enter(r) ==
  /\ At(r, "enter") /\ r \in scene.clients
  /\ \/ Become(r, Over(pd[r]))
     \/ Become(r, IF scene.direct /\ scene.epd
                  THEN Then([pd[r] EXCEPT !.armed = Media], Do("encode")) ELSE Dispatch(pd[r]))
  /\ UNCHANGED <<scene, profileVars, nixl, engine>>

(* EcTransferGuard::retain                                                   *)
Retain(o, used) ==
  [o EXCEPT !.armed = used, !.given = used, !.cancelled = o.armed \ used]

(* EncoderStage::prepare: an error, or a body with the transfers it uses.    *)
Encode(r) ==
  /\ At(r, "encode")
  /\ \/ Become(r, Over(pd[r]))
     \/ \E used \in SUBSET Media : Become(r, Dispatch(Retain(pd[r], used)))
  /\ UNCHANGED <<scene, profileVars, nixl, engine>>

-----------------------------------------------------------------------------
(* Prefill and decode in turn                                                *)

(* What a JSON body says of kv_transfer_params: nothing, an identity to push *)
(* with, the same with a field missing, or parameters to pull with.          *)
(* Mooncake and MoRI-IO WRITE do not look.                                   *)
KvAnswers == IF scene.connector \in {"nixl", "read"} THEN {"none", "push", "halfpush", "pull"} ELSE {"none"}

(* The answer's head: unreachable, refused, or accepted.                     *)
Prefill(r) ==
  /\ At(r, "prefill") /\ scene.direct
  /\ \/ Become(r, Over(pd[r]))
     \/ Become(r, Then(Free(pd[r], {"p"}), StopSteps("p") \o Do("end")))
     \/ Become(r, Then([pd[r] EXCEPT !.by = engine], Do("read")))
  /\ UNCHANGED <<scene, profileVars, nixl, engine>>

(* Discovery mode leaves an unreachable worker, one that refuses and one     *)
(* whose body is no JSON profiling: the timeout task stops it.               *)
PrefillDiscovered(r) ==
  /\ At(r, "prefill") /\ ~scene.direct
  /\ \/ Become(r, Over(pd[r]))
     \/ \E kv \in KvAnswers :
          Become(r, Then([pd[r] EXCEPT !.kv = kv, !.by = engine, !.prefilled = TRUE],
                         StopSteps("p") \o Do("params")))
  /\ UNCHANGED <<scene, profileVars, nixl, engine>>

(* "refusing metadata-only decode"                                           *)
Refuses(kv) == scene.epd /\ scene.connector \in {"nixl", "read"} /\ kv = "none"

KeepsArmed(o) == [o EXCEPT !.prefilled = TRUE]   \* mutant: the guard is not disarmed

Disarm(o) == [o EXCEPT !.prefilled = TRUE, !.armed = {}]

(* The body: not JSON, refused, or the end of the prefill phase.             *)
Read(r) ==
  /\ At(r, "read")
  /\ \/ Become(r, Over(pd[r]))
     \/ \E kv \in KvAnswers :
          Become(r, IF Refuses(kv)
                    THEN Then(Free(pd[r], {"p"}), StopSteps("p") \o Do("end"))
                    ELSE Then([Disarm(pd[r]) EXCEPT !.kv = kv], StopSteps("p") \o Do("params")))
  /\ UNCHANGED <<scene, profileVars, nixl, engine>>

Swap(o) == Hold(Free(o, {"p"}), {"d"})

(* ensure_nixl_push_identity: the cached identity wins over the reported one.*)
Identity(o) == IF nixl # 0 THEN nixl ELSE IF o.kv = "push" THEN o.by ELSE 0

Pushes(o) == scene.connector = "nixl" /\ (o.together \/ o.kv \in {"push", "halfpush"})

(* build_decode_kv_transfer_params.  The bootstrap server of a Mooncake      *)
(* prefill worker may not have been reached at the start, and is not asked   *)
(* for a discovered one: the decode request then goes without parameters.    *)
ParamsFor(o) ==
  IF Pushes(o) THEN {IF Identity(o) # 0 THEN "identity" ELSE "none"}
  ELSE CASE scene.connector = "write" -> {"built"}
         [] scene.connector = "mooncake" -> IF scene.direct THEN {"built", "none"} ELSE {"none"}
         [] OTHER -> {IF o.kv = "none" THEN "none" ELSE "answer"}

WithParams(o, p) == [o EXCEPT !.params = p, !.by = IF Pushes(o) THEN Identity(o) ELSE @]

(* The decode request is built; the missing identity is stored.              *)
Params(r) ==
  /\ At(r, "params") /\ scene.direct
  /\ \E p \in ParamsFor(pd[r]) :
       Become(r, Then(WithParams(Swap(pd[r]), p), StartSteps("d") \o Do("decode")))
  /\ nixl' = IF Pushes(pd[r]) THEN Identity(pd[r]) ELSE nixl
  /\ UNCHANGED <<scene, profileVars, engine>>

ParamsDiscovered(r) ==
  /\ At(r, "params") /\ ~scene.direct
  /\ \E p \in ParamsFor(pd[r]) :
       Become(r, Then(WithParams(pd[r], p),
                      StartSteps("d") \o (IF pd[r].together THEN StartSteps("p") \o Do("join")
                                          ELSE Do("decode"))))
  /\ nixl' = IF Pushes(pd[r]) THEN Identity(pd[r]) ELSE nixl
  /\ UNCHANGED <<scene, profileVars, engine>>

(* The decode worker is unreachable, or answers.                             *)
Decode(r) ==
  /\ At(r, "decode") /\ scene.direct
  /\ \/ Become(r, Over(pd[r]))
     \/ Become(r, Then([pd[r] EXCEPT !.decoding = TRUE], StopSteps("d") \o Do("deliver")))
  /\ UNCHANGED <<scene, profileVars, nixl, engine>>

DecodeDiscovered(r) ==
  /\ At(r, "decode") /\ ~scene.direct
  /\ \/ Become(r, Over(pd[r]))
     \/ Become(r, Then([pd[r] EXCEPT !.decoding = TRUE], StopSteps("d") \o Do("deliver")))
  /\ UNCHANGED <<scene, profileVars, nixl, engine>>

-----------------------------------------------------------------------------
(* Both at once                                                              *)

(* tokio::join! of the two requests; the prefill worker is stopped first.    *)
Join(r) ==
  /\ At(r, "join") /\ scene.direct
  /\ \/ Become(r, Then(pd[r], StopSteps("p") \o StopSteps("d") \o Do("end")))
     \/ \E kv \in KvAnswers \cup {"junk"} :
          Become(r, Then([pd[r] EXCEPT !.kv = kv, !.by = engine], StopSteps("p") \o Do("settle")))
  /\ UNCHANGED <<scene, profileVars, nixl, engine>>

(* The future of the prefill request stops the worker before it reads the    *)
(* body, whatever the answer; then the decode worker.                        *)
JoinDiscovered(r) ==
  /\ At(r, "join") /\ ~scene.direct
  /\ \/ Become(r, Then(pd[r], StopSteps("p") \o StopSteps("d") \o Do("end")))
     \/ \E kv \in KvAnswers \cup {"junk"} :
          Become(r, Then([pd[r] EXCEPT !.kv = kv, !.by = engine], StopSteps("p") \o Do("settle")))
  /\ UNCHANGED <<scene, profileVars, nixl, engine>>

(* maybe_cache_nixl_push_identity                                            *)
Cached(o) == IF scene.connector = "nixl" /\ o.kv = "push" THEN o.by ELSE nixl

(* A body that is no JSON is ignored; the decode answer decides.             *)
Settle(r) ==
  /\ At(r, "settle") /\ scene.direct
  /\ LET o == Disarm(Free(pd[r], {"p"}))
     IN \/ Become(r, Then(o, StopSteps("d") \o Do("end")))
        \/ Become(r, Then([o EXCEPT !.decoding = TRUE], StopSteps("d") \o Do("deliver")))
  /\ nixl' = Cached(pd[r])
  /\ UNCHANGED <<scene, profileVars, engine>>

SettleDiscovered(r) ==
  /\ At(r, "settle") /\ ~scene.direct
  /\ LET o == [pd[r] EXCEPT !.prefilled = TRUE]
     IN \/ Become(r, Then(o, StopSteps("d") \o Do("end")))
        \/ Become(r, Then([o EXCEPT !.decoding = TRUE], StopSteps("d") \o Do("deliver")))
  /\ nixl' = Cached(pd[r])
  /\ UNCHANGED <<scene, profileVars, engine>>

-----------------------------------------------------------------------------
(* Answers                                                                   *)

(* The sequential direct path streams every reply it does not merge, asked   *)
(* as a stream or not: the stream takes the decode guard and the activity    *)
(* with it.  A merged body is read here.                                     *)
DeliverInTurn(r) ==
  /\ At(r, "deliver") /\ scene.direct /\ ~pd[r].together
  /\ Become(r, IF scene.merge THEN Over(pd[r]) ELSE Then(pd[r], Do("body")))
  /\ UNCHANGED <<scene, profileVars, nixl, engine>>

Streamed == scene.stream /\ ~scene.merge

(* handle_decode_response, of the other paths: merged or whole bodies are    *)
(* read here.                                                                *)
Deliver(r) ==
  /\ At(r, "deliver") /\ (pd[r].together \/ ~scene.direct)
  /\ Become(r, IF Streamed THEN Then(pd[r], Do("body")) ELSE Over(pd[r]))
  /\ UNCHANGED <<scene, profileVars, nixl, engine>>

(* guarded_stream: the end of the stream, or its first error.                *)
Body(r) ==
  /\ At(r, "body")
  /\ Become(r, Over(pd[r]))
  /\ UNCHANGED <<scene, profileVars, nixl, engine>>

EndPd(r) ==
  /\ At(r, "end")
  /\ Become(r, Over(pd[r]))
  /\ UNCHANGED <<scene, profileVars, nixl, engine>>

-----------------------------------------------------------------------------
(* Profiling                                                                 *)

Advance(r) == pd' = [pd EXCEPT ![r].todo = Tail(@)] /\ UNCHANGED pdLoad

(* The worker handles /start_profile, or the call fails, which is logged and *)
(* no more: the timeout task is spawned in any case.                         *)
Post(r) ==
  /\ At(r, "post") /\ Advance(r)
  /\ profiled' \in {profiled, profiled \cup {Stage(r)}}
  /\ UNCHANGED <<scene, tasks, timers, tasksLock, nixl, engine, orphans>>

Spawn(r) ==
  /\ At(r, "spawn") /\ Advance(r)
  /\ timers' = [timers EXCEPT ![<<r, Stage(r)>>] = "asleep"]
  /\ UNCHANGED <<scene, profiled, tasks, tasksLock, nixl, engine, orphans>>

(* AbortHandle::abort: a task that is already past its sleep may run on to   *)
(* its end.                                                                  *)
Aborted(t) ==
  IF t = NoTimer \/ timers[t] = "none" THEN {timers}
  ELSE IF timers[t] = "asleep" THEN {[timers EXCEPT ![t] = "none"]}
  ELSE {timers, [timers EXCEPT ![t] = "none"]}

(* The new task replaces, and cancels, another one for the worker; while it  *)
(* waited for the lock it may have slept its whole time itself.              *)
Insert(r) ==
  /\ At(r, "insert") /\ tasksLock = "free" /\ Advance(r)
  /\ timers' \in Aborted(tasks[Stage(r)])
  /\ tasks' = [tasks EXCEPT ![Stage(r)] = <<r, Stage(r)>>]
  /\ orphans' = IF timers[<<r, Stage(r)>>] = "asleep" THEN orphans ELSE orphans \cup {Stage(r)}
  /\ UNCHANGED <<scene, profiled, tasksLock, nixl, engine>>

Abort(r) ==
  /\ At(r, "abort") /\ tasksLock = "free" /\ Advance(r)
  /\ timers' \in Aborted(tasks[Stage(r)])
  /\ tasks' = [tasks EXCEPT ![Stage(r)] = NoTimer]
  /\ tasksLock' = r
  /\ UNCHANGED <<scene, profiled, nixl, engine, orphans>>

(* /stop_profile of a worker that profiles: it stops, or the call fails,     *)
(* which is logged and never tried again.                                    *)
StopCall(w) ==
  \/ profiled' = profiled \ {w} /\ orphans' = orphans \ {w}
  \/ w \in profiled /\ profiled' = profiled /\ orphans' = orphans \cup {w}

(* The lock was held across the call.                                        *)
Unpost(r) ==
  /\ At(r, "unpost") /\ Advance(r)
  /\ StopCall(Stage(r))
  /\ tasksLock' = "free"
  /\ UNCHANGED <<scene, tasks, timers, nixl, engine>>

SleepsAgain(t) ==   \* mutant: the task sleeps once more when its time is over
  timers[t] = "asleep" /\ UNCHANGED pdVars

(* profile_timeout_secs pass: the task stops the worker by itself ...        *)
Timeout(t) ==
  /\ timers[t] = "asleep"
  /\ timers' = [timers EXCEPT ![t] = "stopping"]
  /\ StopCall(t[2])
  /\ UNCHANGED <<scene, pd, pdLoad, tasks, tasksLock, nixl, engine>>

(* ... and removes whatever task the map holds for the worker.               *)
Unlist(t) ==
  /\ timers[t] = "stopping" /\ tasksLock = "free"
  /\ timers' = [timers EXCEPT ![t] = "none"]
  /\ tasks' = [tasks EXCEPT ![t[2]] = NoTimer]
  /\ UNCHANGED <<scene, pd, pdLoad, profiled, tasksLock, nixl, engine, orphans>>

-----------------------------------------------------------------------------
(* Disconnects, evictions, engine restarts                                   *)

InTheCall(r) == At(r, "post") \/ At(r, "spawn") \/ At(r, "unpost")

(* The client goes away: the future, or the body, is dropped.  A call that   *)
(* is on its way to a worker may still arrive.                               *)
DropPd(r) ==
  /\ pd[r].todo # <<>> /\ ~At(r, "enter")
  /\ Become(r, Over(pd[r]))
  /\ tasksLock' = IF tasksLock = r THEN "free" ELSE tasksLock
  /\ orphans' = IF InTheCall(r) THEN orphans \cup {Stage(r)} ELSE orphans
  /\ profiled' \in IF At(r, "post") THEN {profiled, profiled \cup {Stage(r)}}
                   ELSE IF At(r, "unpost") THEN {profiled, profiled \ {Stage(r)}} ELSE {profiled}
  /\ UNCHANGED <<scene, tasks, timers, nixl, engine>>

(* evict_nixl_info, by remove_worker, add_ and remove_prefill_server.        *)
Evict ==
  /\ nixl # 0 /\ nixl' = 0
  /\ UNCHANGED <<scene, pd, pdLoad, profileVars, engine>>

(* The prefill server restarts behind its URL with a new engine id.          *)
Restart ==
  /\ scene.connector = "nixl" /\ engine < MaxEngines /\ engine' = engine + 1
  /\ UNCHANGED <<scene, pd, pdLoad, profileVars, nixl>>

HandlerStep(r) ==
  \/ NoPair(r) \/ Enter(r) \/ Encode(r) \/ Prefill(r) \/ Read(r) \/ Params(r) \/ Decode(r)
  \/ PrefillDiscovered(r) \/ ParamsDiscovered(r) \/ DecodeDiscovered(r)
  \/ JoinDiscovered(r) \/ SettleDiscovered(r)
  \/ Join(r) \/ Settle(r) \/ DeliverInTurn(r) \/ Deliver(r) \/ Body(r) \/ EndPd(r)
  \/ Post(r) \/ Spawn(r) \/ Insert(r) \/ Abort(r) \/ Unpost(r)

TimerStep(t) == Timeout(t) \/ Unlist(t)

PdNext ==
  \/ \E r \in PdRequests : HandlerStep(r) \/ DropPd(r)
  \/ \E t \in Timers : TimerStep(t)
  \/ Evict \/ Restart

PathSpec == PdInit /\ [][PdNext]_pdVars

-----------------------------------------------------------------------------
(* Properties                                                                *)

Ended(r) == pd[r].todo = <<>>

PdTypeOK ==
  /\ scene \in Scene /\ profiled \subseteq Stages /\ orphans \subseteq Stages
  /\ pdLoad \in [Stages -> 0 .. Cardinality(PdRequests)]
  /\ tasks \in [Stages -> Timers \cup {NoTimer}]
  /\ timers \in [Timers -> {"none", "asleep", "stopping"}]
  /\ tasksLock \in PdRequests \cup {"free"}
  /\ nixl \in 0 .. MaxEngines /\ engine \in 1 .. MaxEngines

(* "the prefill worker's load is only incremented during the prefill phase,  *)
(* and the decode worker's load is only incremented during the decode phase":*)
(* each counter is the number of guards, a request that runs its stages in   *)
(* turn holds one guard at a time and the decode one only after prefill, and *)
(* no guard outlives a request, whichever error or disconnect ends it.       *)
LoadsFollowThePhase ==
  /\ \A w \in Stages : pdLoad[w] = Cardinality({r \in PdRequests : w \in pd[r].held})
  /\ \A r \in PdRequests :
       /\ Ended(r) => pd[r].held = {}
       /\ pd[r].held = Stages => pd[r].together
       /\ "d" \in pd[r].held => pd[r].together \/ pd[r].prefilled

(* Every EC transfer the encoder stage announced is either handed to a       *)
(* prefill that succeeded or cancelled, never both: EcTransferGuard cancels  *)
(* abandoned pushes on every early end, and none that prefill consumed.      *)
TransfersEndOnce ==
  \A r \in PdRequests : Ended(r) =>
    LET o == pd[r] IN
    /\ o.armed = {}
    /\ o.prefilled => o.cancelled \cap o.given = {}
    /\ o.prefilled /\ scene.epd /\ scene.direct => o.cancelled \cup o.given = Media
    /\ ~o.prefilled => o.given \subseteq o.cancelled

(* A worker that is profiling has someone who will stop it: a timeout task,  *)
(* or the request that is about to spawn one or to ask the worker.  Three    *)
(* things leave it without: a /stop_profile that failed, since nobody tries  *)
(* again; a request dropped inside start_profiling or stop_profiling; and a  *)
(* task that expired before the lock let it be registered.                   *)
ProfileHasAnEnd ==
  \A w \in profiled \ orphans :
    \/ \E r \in PdRequests : timers[<<r, w>>] = "asleep"
    \/ \E r \in PdRequests : (At(r, "spawn") \/ At(r, "unpost")) /\ Stage(r) = w

(* A concurrent dispatch in direct mode never sends a decode request without *)
(* the parameters that made it concurrent, even if the cached identity is    *)
(* evicted meanwhile.  (Discovery mode looks the identity up twice.)         *)
ConcurrentDecodeIsFed ==
  \A r \in PdRequests : scene.direct /\ pd[r].together => pd[r].params # "none"

(* Profiling ends unless one of those three took away who would end it, and  *)
(* every request whose client stays ends too: the lock held across the call  *)
(* to the worker is given back, also when the call fails.                    *)
ProfilingEnds == \A w \in Stages : (w \in profiled) ~> (w \notin profiled \/ w \in orphans)

RequestsEnd == \A r \in PdRequests : <>(r \in scene.clients => Ended(r))

-----------------------------------------------------------------------------
(***************************************************************************)
(* The servers of the prefill-decode router (routers/http/pd_router.rs):   *)
(* they are added and removed over the API, one worker per data-parallel   *)
(* engine, while other calls do the same.  A registration and a removal    *)
(* are atomic here; WorkerFleet interleaves their map operations and has   *)
(* the policy counts that both update.                                     *)
(***************************************************************************)

CONSTANTS
  PdCalls,     \* concurrent API calls
  PdHosts,     \* server URLs
  MaxRanks     \* most engines of a server

ASSUME RanksAssumption == MaxRanks \in Nat \ {0}

(* A prefill worker's type carries its bootstrap port: two keys of the index.*)
PdTypes == {"prefill", "prefillPort", "decode"}

Bare == MaxRanks                      \* the rank of "http://host:port"
PdUrls == PdHosts \X (0 .. MaxRanks)
NoType == "absent"
NoUrl == <<"none", 0>>

VARIABLES
  served,     \* workers: URL -> its type, or NoType
  byType,     \* type_workers: type -> the URLs whose ids it holds
  calls,      \* call -> its state
  mixed       \* the hosts on which two additions, or one and a removal, overlapped

pdServerVars == <<served, byType, calls, mixed>>

NoPdCall == [op |-> "idle", url |-> NoUrl, type |-> NoType, todo |-> {}]

(* build_dp_workers: a pinned rank, one worker per engine, or the bare URL.  *)
BuildDpWorkers(u, size) ==
  IF u[2] # Bare THEN {u}
  ELSE IF size > 1 THEN {u[1]} \X (0 .. size - 1) ELSE {u}

Register(s, u, t) == [s EXCEPT ![u] = t]

Indexed(i, u, t) == [i EXCEPT ![t] = @ \cup {u}]

(* remove_by_url takes the id out of the index of the worker's own type.     *)
Unindexed(i, u, t) == [i EXCEPT ![t] = @ \ {u}]

(* PdRouterBase::new: the configured servers, not announced to the policies. *)
PdServersInit ==
  /\ \E h \in PdHosts, t \in PdTypes, n \in 1 .. MaxRanks :
       LET new == BuildDpWorkers(<<h, Bare>>, n)
       IN /\ served = [u \in PdUrls |-> IF u \in new THEN t ELSE NoType]
          /\ byType = [x \in PdTypes |-> IF x = t THEN new ELSE {}]
  /\ calls = [c \in PdCalls |-> NoPdCall]
  /\ mixed = {}

CallIs(c, k) == calls' = [calls EXCEPT ![c] = k]

(* Bound: no further calls once two have overlapped on one host.             *)
MayStart(c) == calls[c].op = "idle" /\ mixed = {}

Others(c, h, ops) == \E d \in PdCalls \ {c} : calls[d].op \in ops /\ calls[d].url[1] = h

-----------------------------------------------------------------------------
(* add_prefill_server, add_decode_server                                     *)

(* The server became healthy.                                                *)
AddServer(c) ==
  /\ MayStart(c)
  /\ \E u \in PdUrls, t \in PdTypes :
       /\ CallIs(c, [NoPdCall EXCEPT !.op = "size", !.url = u, !.type = t])
       /\ mixed' = IF Others(c, u[1], {"size", "register", "remove", "drop"})
                   THEN mixed \cup {u[1]} ELSE mixed
  /\ UNCHANGED <<served, byType>>

Taken(new) == \E u \in new : served[u] # NoType

(* The engine count came back: WorkerAlreadyExists, or registrations.        *)
Sized(c) ==
  /\ calls[c].op = "size"
  /\ \E n \in 1 .. MaxRanks :
       LET new == BuildDpWorkers(calls[c].url, n)
       IN CallIs(c, IF Taken(new) THEN NoPdCall
                     ELSE [calls[c] EXCEPT !.op = "register", !.todo = new])
  /\ UNCHANGED <<served, byType, mixed>>

Finished(k) == IF k.todo = {} THEN NoPdCall ELSE k

(* register_and_notify                                                       *)
RegisterAndNotify(c) ==
  /\ calls[c].op = "register"
  /\ \E u \in calls[c].todo :
       /\ served' = Register(served, u, calls[c].type)
       /\ byType' = Indexed(byType, u, calls[c].type)
       /\ CallIs(c, Finished([calls[c] EXCEPT !.todo = @ \ {u}]))
  /\ UNCHANGED mixed

-----------------------------------------------------------------------------
(* remove_prefill_server, remove_decode_server, remove_worker                *)

(* starts_with("url@") over get_all()                                        *)
Expanded(h) == {u \in PdUrls : u[1] = h /\ u[2] # Bare /\ served[u] # NoType}

(* Neither call looks at the worker's role.                                  *)
RemoveServer(c) ==
  /\ MayStart(c)
  /\ \E u \in PdUrls :
       LET bare == u[2] = Bare /\ served[u] = NoType
           gone == IF bare THEN Expanded(u[1]) ELSE {u} \cap {v \in PdUrls : served[v] # NoType}
       IN /\ CallIs(c, Finished([NoPdCall EXCEPT !.op = "remove", !.url = u, !.todo = gone]))
          /\ mixed' = IF gone # {} /\ Others(c, u[1], {"size", "register"})
                      THEN mixed \cup {u[1]} ELSE mixed
  /\ UNCHANGED <<served, byType>>

(* The generic removal knows the exact URL only and tells no policy.         *)
RemoveWorker(c) ==
  /\ MayStart(c)
  /\ \E u \in PdUrls :
       /\ served[u] # NoType
       /\ CallIs(c, [NoPdCall EXCEPT !.op = "drop", !.url = u, !.todo = {u}])
       /\ mixed' = IF Others(c, u[1], {"size", "register"}) THEN mixed \cup {u[1]} ELSE mixed
  /\ UNCHANGED <<served, byType>>

RemoveByUrl(c) ==
  /\ calls[c].op \in {"remove", "drop"}
  /\ \E u \in calls[c].todo :
       LET here == served[u] # NoType
       IN /\ served' = Register(served, u, NoType)
          /\ byType' = IF here THEN Unindexed(byType, u, served[u]) ELSE byType
          /\ CallIs(c, Finished([calls[c] EXCEPT !.todo = @ \ {u}]))
  /\ UNCHANGED mixed

PdServersNext ==
  \E c \in PdCalls :
    \/ AddServer(c) \/ Sized(c) \/ RegisterAndNotify(c)
    \/ RemoveServer(c) \/ RemoveWorker(c) \/ RemoveByUrl(c)

ServersSpec == PdServersInit /\ [][PdServersNext]_pdServerVars

-----------------------------------------------------------------------------
(* Lookups                                                                   *)

(* get_prefill_workers reads the workers, get_decode_workers the index.      *)
PrefillWorkers == {u \in PdUrls : served[u] \in {"prefill", "prefillPort"}}

GetByType(t) == {u \in byType[t] : served[u] # NoType}

DecodeWorkers == GetByType("decode")

-----------------------------------------------------------------------------
(* Properties                                                                *)

(* A worker is looked up under exactly one role, its own, unless calls about *)
(* its host overlapped: add_server checks that no rank of the server is      *)
(* registered, of whichever role, before it registers any.                   *)
OneRolePerWorker ==
  \A u \in PdUrls : u[1] \notin mixed =>
    /\ u \in DecodeWorkers <=> served[u] = "decode"
    /\ u \in PrefillWorkers => u \notin DecodeWorkers

(* A two-stage request counts on one worker at a time, hands every        *)
(* transfer over once, leaves a worker profiling without an end only by   *)
(* the failures named above and decodes with what it was promised; and    *)
(* the servers it chooses from have one role each.                        *)
PdIsConsistent ==
  /\ PdTypeOK
  /\ LoadsFollowThePhase
  /\ TransfersEndOnce
  /\ ProfileHasAnEnd
  /\ ConcurrentDecodeIsFed
  /\ OneRolePerWorker
=============================================================================
