---------------------------- MODULE RequestPath -----------------------------
(***************************************************************************)
(* A request on the regular router (routers/http/router.rs): the retry     *)
(* loop of route_typed_request over HTTP and gRPC workers, the single      *)
(* attempt of route_transparent, and the response body that outlives both. *)
(* Every await may be cancelled by the client.                             *)
(*                                                                         *)
(* What a request owns is released by destructors: the RequestLoadGuard    *)
(* (the worker's load counter and the KV slot) that body and producer      *)
(* share, the ProgramCompletion of the attempt, and the RequestActivity    *)
(* behind the running gauge.                                               *)
(*                                                                         *)
(* Statuses are classes: ok (2xx), client (4xx), throttled (408, 429),     *)
(* server (500, 502, 503, 504) and fatal (the other 5xx).                  *)
(***************************************************************************)
EXTENDS Naturals, FiniteSets, Sequences

CONSTANTS
  Requests,     \* concurrent requests
  Backends,     \* worker URLs
  Scenes,       \* what each request asks for: a set of [Requests -> Kinds]
  MaxRetries,   \* retry_config.max_retries
  MaxFrames     \* frames of a response body

Statuses == {"ok", "client", "throttled", "server", "fatal"}

(* path: typed, or transparent as /v1/messages or as any other proxied      *)
(* request; grpc: the pool kind; stream; tracked: the policy counts load;   *)
(* program: a scheduler admits the request.                                 *)
Kinds == [path : {"typed", "messages", "proxy"}, grpc : BOOLEAN, stream : BOOLEAN,
          tracked : BOOLEAN, program : BOOLEAN]

ASSUME PathAssumption ==
  /\ IsFiniteSet(Requests) /\ Scenes \subseteq [Requests -> Kinds]
  /\ MaxRetries \in Nat /\ MaxFrames \in Nat

VARIABLES
  ask,        \* request -> Kinds; never changes
  at,         \* request -> where it is
  res,        \* request -> what it owns
  body,       \* request -> its response stream
  load,       \* worker -> load_counter
  running,    \* RouterRequestMetrics::running
  up          \* the available workers

pathVars == <<ask, at, res, body, load, running, up>>

Start == [pc |-> "start", attempt |-> 0, status |-> "ok", worker |-> "none"]

(* guard: whether load was counted, and RequestLoadState::released; open    *)
(* counts the attempt's ProgramCompletions that are not finished.           *)
Nothing == [counted |-> FALSE, released |-> TRUE, slot |-> "none", open |-> 0, assigned |-> FALSE]

(* A gRPC producer numbers its frames: emitted, and first for the one       *)
(* published as the first output; output is the one that really was.        *)
NoBody == [producer |-> "none", waiter |-> FALSE, emitted |-> 0, first |-> 0, output |-> 0,
           pending |-> "none", consumed |-> 0, live |-> FALSE, active |-> FALSE]

PathInit ==
  /\ ask \in Scenes
  /\ at = [r \in Requests |-> Start]
  /\ res = [r \in Requests |-> Nothing]
  /\ body = [r \in Requests |-> NoBody]
  /\ load = [w \in Backends |-> 0]
  /\ running = 0
  /\ up \in SUBSET Backends \ {{}}

-----------------------------------------------------------------------------
(* Operators on what is owned                                               *)

Transparent(r) == ask[r].path # "typed"

Less(n) == IF n > 0 THEN n - 1 ELSE 0

NeverReleased(r) == FALSE   \* mutant: every owner releases

(* RequestLoadGuard::release: the first caller frees slot and load.         *)
AlreadyReleased(r) == res[r].released

ReleaseLoad(r) ==
  IF AlreadyReleased(r) \/ ~res[r].counted THEN load
  ELSE [load EXCEPT ![at[r].worker] = Less(@)]

Released(o) == [o EXCEPT !.released = TRUE, !.slot = IF @ = "none" THEN @ ELSE "freed"]

(* KvRequestSlot::begin_decode                                              *)
Decoding(o) == IF o.slot = "prefill" THEN [o EXCEPT !.slot = "decode"] ELSE o

(* finish, or the drop of the last clone: at most once per completion.      *)
FinishedOnce(o) == [o EXCEPT !.open = Less(@)]

(* The activity of a request that ends.                                     *)
NotRunning(r) == IF res[r].assigned THEN Less(running) ELSE running

Retryable(s) == s \in {"throttled", "server"}

Moves(r, pc) == at' = [at EXCEPT ![r].pc = pc]

Answer(r, s) == at' = [at EXCEPT ![r].pc = "decide", ![r].status = s]

-----------------------------------------------------------------------------
(* Admission and selection                                                  *)

(* A mixed pool, an unsupported gRPC route or a failed prepare ends here.   *)
Enter(r) ==
  /\ at[r].pc = "start"
  /\ \/ Moves(r, "attempt")
     \/ /\ \/ ask[r].grpc
           \/ Transparent(r) /\ up = {}
        /\ Moves(r, "done")
  /\ UNCHANGED <<ask, res, body, load, running, up>>

(* acquire_program_completion: 400, 503 or 429, or an open completion.      *)
AcquireProgram(r) ==
  /\ at[r].pc = "attempt"
  /\ \/ /\ ~ask[r].program
        /\ Moves(r, "select") /\ UNCHANGED res
     \/ /\ ask[r].program
        /\ res' = [res EXCEPT ![r].open = @ + 1]
        /\ Moves(r, "select")
     \/ /\ ask[r].program
        /\ \E s \in {"client", "server", "throttled"} : Answer(r, s)
        /\ UNCHANGED res
  /\ UNCHANGED <<ask, body, load, running, up>>

Counts(r) == ask[r].tracked \/ ask[r].program

(* mark_assigned: once per request, for inference requests only.            *)
MarkAssigned(r) ==
  IF res[r].assigned \/ ask[r].path = "proxy" THEN running ELSE running + 1

(* route_transparent lists the available workers when it is entered.        *)
Snapshot(r) == Transparent(r) /\ ~ask[r].program

(* The worker of the program's dispatch, or the policy's choice, must be    *)
(* available; then the request owns load, slot and activity.                *)
Select(r, w) ==
  /\ at[r].pc = "select" /\ (w \in up \/ Snapshot(r))
  /\ at' = [at EXCEPT ![r].pc = "sent", ![r].worker = w]
  /\ res' = [res EXCEPT ![r] = [@ EXCEPT !.counted = Counts(r), !.released = FALSE,
                                         !.slot = IF ask[r].grpc THEN "prefill" ELSE "none",
                                         !.assigned = ask[r].path # "proxy"]]
  /\ load' = IF Counts(r) THEN [load EXCEPT ![w] = @ + 1] ELSE load
  /\ running' = MarkAssigned(r)
  /\ UNCHANGED <<ask, body, up>>

(* No available worker, or the program's target is gone: the completion is  *)
(* finished as failed when its last clone is dropped.                       *)
NoWorker(r) ==
  /\ at[r].pc = "select"
  /\ up = {} \/ (ask[r].program /\ up # Backends)
  /\ Answer(r, "server")
  /\ res' = [res EXCEPT ![r] = FinishedOnce(@)]
  /\ UNCHANGED <<ask, body, load, running, up>>

-----------------------------------------------------------------------------
(* One attempt                                                              *)

(* The first output of a gRPC request that is collected.                    *)
FirstOutput(r) ==
  /\ at[r].pc = "sent" /\ ask[r].grpc /\ ~ask[r].stream
  /\ res[r].slot = "prefill"
  /\ res' = [res EXCEPT ![r] = Decoding(@)]
  /\ UNCHANGED <<ask, at, body, load, running, up>>

(* A stream begins with any status that is not retried; a gRPC one with its *)
(* success only.                                                            *)
Streams(r, s) == ask[r].stream /\ ~Retryable(s) /\ (ask[r].grpc => s = "ok")

(* What the end of the attempt's future drops.                              *)
Dropped(r) == FinishedOnce(Released(res[r]))

Sent(r, grpc) == at[r].pc = "sent" /\ ask[r].path = "typed" /\ ask[r].grpc = grpc

(* The attempt ends without a body to stream.                               *)
EndAttempt(r, s) ==
  /\ load' = ReleaseLoad(r)
  /\ res' = [res EXCEPT ![r] = Dropped(r)]
  /\ Answer(r, s)
  /\ UNCHANGED <<ask, body, running, up>>

(* HTTP: a transport error, a retryable status of a stream whose body is    *)
(* not awaited, or the whole response of a plain request.                   *)
RespondHttp(r, s) == Sent(r, FALSE) /\ ~Streams(r, s) /\ EndAttempt(r, s)

(* gRPC: refused by convert, connect or generate_stream, or collected.      *)
RespondGrpc(r, s) == Sent(r, TRUE) /\ ~Streams(r, s) /\ s # "fatal" /\ EndAttempt(r, s)

LiveBody == [NoBody EXCEPT !.live = TRUE, !.active = TRUE]

(* The body takes guard and activity over, and the completion of a          *)
(* successful response.                                                     *)
StreamHttp(r, s) ==
  /\ Sent(r, FALSE) /\ Streams(r, s)
  /\ res' = [res EXCEPT ![r] = IF s = "ok" THEN @ ELSE FinishedOnce(@)]
  /\ body' = [body EXCEPT ![r] = LiveBody]
  /\ Answer(r, s)
  /\ UNCHANGED <<ask, load, running, up>>

(* The producer is running; its completion is finished with the headers.    *)
StreamGrpc(r) ==
  /\ Sent(r, TRUE) /\ Streams(r, "ok")
  /\ res' = [res EXCEPT ![r] = FinishedOnce(@)]
  /\ body' = [body EXCEPT ![r] = [LiveBody EXCEPT !.producer = "running", !.waiter = TRUE]]
  /\ Answer(r, "ok")
  /\ UNCHANGED <<ask, load, running, up>>

(* route_transparent: the body is buffered, observed or passed on, and a    *)
(* counted load stays with the response whatever its status; the activity   *)
(* only with a body that is streamed.  Without an answer there is a 502.    *)
RespondTransparent(r, s, answered) ==
  /\ at[r].pc = "sent" /\ Transparent(r)
  /\ answered \/ s = "server"
  /\ res' = [res EXCEPT ![r] = IF s = "ok" /\ Counts(r) /\ ask[r].stream THEN @ ELSE FinishedOnce(@)]
  /\ body' = [body EXCEPT ![r] = [NoBody EXCEPT !.live = TRUE,
                                                !.active = answered /\ (ask[r].stream \/ ~Counts(r))]]
  /\ Answer(r, s)
  /\ UNCHANGED <<ask, load, running, up>>

(* The encoder stage or the method is refused after the load was counted.   *)
RefuseTransparent(r) ==
  /\ at[r].pc = "sent" /\ ask[r].path = "proxy"
  /\ load' = ReleaseLoad(r)
  /\ res' = [res EXCEPT ![r] = Dropped(r)]
  /\ Answer(r, "client")
  /\ UNCHANGED <<ask, body, running, up>>

-----------------------------------------------------------------------------
(* execute_response_with_retry                                              *)

AtLeastOne(n) == IF n = 0 THEN 1 ELSE n

LastAttempt(r) == at[r].attempt + 1 >= AtLeastOne(MaxRetries)

RetriesUncounted(r) ==   \* mutant: whatever holds no load is taken for repeatable
  (ask[r].path = "typed" \/ ~Counts(r)) /\ Retryable(at[r].status) /\ ~LastAttempt(r)

Retries(r) == ask[r].path = "typed" /\ Retryable(at[r].status) /\ ~LastAttempt(r)

Retry(r) ==
  /\ at[r].pc = "decide" /\ Retries(r)
  /\ at' = [at EXCEPT ![r] = [Start EXCEPT !.pc = "backoff", !.attempt = at[r].attempt + 1]]
  /\ res' = [res EXCEPT ![r] = [Nothing EXCEPT !.assigned = res[r].assigned, !.open = res[r].open]]
  /\ UNCHANGED <<ask, body, load, running, up>>

(* RetryExecutor sleeps, then invokes the operation again.                  *)
Wake(r) ==
  /\ at[r].pc = "backoff"
  /\ Moves(r, "attempt")
  /\ UNCHANGED <<ask, res, body, load, running, up>>

(* The response goes to the client; unless its body is streamed the         *)
(* activity ends with the call.                                             *)
Respond(r) ==
  /\ at[r].pc = "decide" /\ ~Retries(r)
  /\ Moves(r, IF body[r].live THEN "body" ELSE "done")
  /\ running' = IF body[r].active THEN running ELSE NotRunning(r)
  /\ res' = [res EXCEPT ![r].assigned = @ /\ body[r].active]
  /\ UNCHANGED <<ask, body, load, up>>

-----------------------------------------------------------------------------
(* The response body                                                        *)

(* OutputFrameProducer::send of a gRPC producer: publish, then enqueue.     *)
FirstPublished(b) == IF b.first = 0 THEN b.emitted + 1 ELSE b.first

PublishOutput(r, generated) ==
  /\ body[r].producer = "running" /\ body[r].pending = "none"
  /\ body[r].emitted < MaxFrames
  /\ body' = [body EXCEPT ![r].pending = IF generated THEN "output" ELSE "metadata",
                          ![r].first = IF generated THEN FirstPublished(body[r]) ELSE @]
  /\ UNCHANGED <<ask, at, res, load, running, up>>

Enqueue(r) ==
  /\ body[r].producer = "running" /\ body[r].pending # "none"
  /\ body' = [body EXCEPT ![r].emitted = @ + 1, ![r].pending = "none",
                          ![r].output = IF body[r].pending = "output" /\ @ = 0
                                        THEN body[r].emitted + 1 ELSE @]
  /\ UNCHANGED <<ask, at, res, load, running, up>>

(* finish_info, an upstream error or the timeout.                           *)
ProducerEnds(r) ==
  /\ body[r].producer = "running" /\ body[r].pending = "none"
  /\ body' = [body EXCEPT ![r].producer = "ended"]
  /\ UNCHANGED <<ask, at, res, load, running, up>>

(* The task that awaits the producer releases the load.                     *)
WaiterReleases(r) ==
  /\ body[r].waiter /\ body[r].producer # "running"
  /\ body' = [body EXCEPT ![r].waiter = FALSE]
  /\ load' = ReleaseLoad(r)
  /\ res' = [res EXCEPT ![r] = Released(@)]
  /\ UNCHANGED <<ask, at, running, up>>

(* OutputFrameConsumer::on_frame; HTTP bodies start with their first frame. *)
OutputStarted(r) ==
  \/ body[r].producer = "none"
  \/ body[r].first # 0 /\ body[r].consumed + 1 >= body[r].first

Frame(r) ==
  /\ at[r].pc = "body" /\ body[r].live
  /\ body[r].consumed < IF body[r].producer = "none" THEN MaxFrames ELSE body[r].emitted
  /\ body' = [body EXCEPT ![r].consumed = @ + 1]
  /\ res' = [res EXCEPT ![r] = IF OutputStarted(r) THEN Decoding(@) ELSE @]
  /\ UNCHANGED <<ask, at, load, running, up>>

(* The end of the body, or an error in it: the load is released, the        *)
(* completion finished, the activity dropped.                               *)
BodyEnds(r) ==
  /\ at[r].pc = "body" /\ body[r].live
  /\ body[r].producer # "running" /\ (body[r].producer = "ended" => body[r].consumed = body[r].emitted)
  /\ load' = ReleaseLoad(r)
  /\ res' = [res EXCEPT ![r] = [Dropped(r) EXCEPT !.assigned = FALSE]]
  /\ body' = [body EXCEPT ![r].live = FALSE]
  /\ running' = NotRunning(r)
  /\ Moves(r, "done")
  /\ UNCHANGED <<ask, up>>

(* The client goes away: the future or the body is dropped with all it owns *)
(* and the producer is aborted.                                             *)
Disconnect(r) ==
  /\ at[r].pc \notin {"start", "done"}
  /\ load' = ReleaseLoad(r)
  /\ res' = [res EXCEPT ![r] = [Dropped(r) EXCEPT !.assigned = FALSE]]
  /\ body' = [body EXCEPT ![r].live = FALSE, ![r].pending = "none",
                          ![r].producer = IF @ = "running" THEN "aborted" ELSE @]
  /\ running' = NotRunning(r)
  /\ Moves(r, "done")
  /\ UNCHANGED <<ask, up>>

(* Health checks and breakers change which workers are available.           *)
Availability ==
  /\ \E w \in Backends : up' = IF w \in up THEN up \ {w} ELSE up \cup {w}
  /\ UNCHANGED <<ask, at, res, body, load, running>>

AttemptStep(r) ==
  \/ Enter(r) \/ AcquireProgram(r) \/ NoWorker(r) \/ FirstOutput(r) \/ RefuseTransparent(r)
  \/ \E w \in Backends : Select(r, w)
  \/ \E s \in Statuses : RespondHttp(r, s) \/ RespondGrpc(r, s) \/ StreamHttp(r, s)
  \/ StreamGrpc(r)
  \/ \E s \in Statuses, a \in BOOLEAN : RespondTransparent(r, s, a)
  \/ Retry(r) \/ Wake(r) \/ Respond(r)

BodyStep(r) ==
  \/ \E g \in BOOLEAN : PublishOutput(r, g)
  \/ Enqueue(r) \/ ProducerEnds(r) \/ WaiterReleases(r) \/ Frame(r) \/ BodyEnds(r)

PathNext ==
  \/ \E r \in Requests : AttemptStep(r) \/ BodyStep(r) \/ Disconnect(r)
  \/ Availability

PathSpec == PathInit /\ [][PathNext]_pathVars

-----------------------------------------------------------------------------
PathTypeOK ==
  /\ load \in [Backends -> 0 .. Cardinality(Requests)]
  /\ running \in 0 .. Cardinality(Requests)
  /\ \A r \in Requests : at[r].attempt < AtLeastOne(MaxRetries) /\ body[r].first <= MaxFrames

(* A worker's load counter is the number of requests that count on it: a    *)
(* body, a producer's waiter, an attempt that fails and a client that goes  *)
(* away release it once between them (RequestLoadGuard: "releases the       *)
(* shared counters exactly once").                                          *)
LoadsMatchGuards ==
  \A w \in Backends :
    load[w] = Cardinality({r \in Requests : res[r].counted /\ ~res[r].released /\ at[r].worker = w})

(* When a request is over, however it ended, nothing of it is left: its     *)
(* load, slot, scheduling completion and activity are given back.           *)
NothingOutlivesARequest ==
  \A r \in Requests :
    at[r].pc = "done" => /\ res[r].released /\ res[r].slot \in {"none", "freed"}
                         /\ res[r].open = 0 /\ ~res[r].assigned

(* vllm:num_requests_running (README): the requests assigned to a worker    *)
(* and not completed, through retries and until a stream ends or is dropped.*)
RunningIsExact == running = Cardinality({r \in Requests : res[r].assigned})

(* A KV slot leaves prefill with the frame that holds the first model       *)
(* output: not with metadata that was queued before it, and not later.      *)
DecodeFollowsOutput ==
  \A r \in Requests :
    LET out == body[r].output # 0 /\ body[r].consumed >= body[r].output
    IN body[r].producer # "none" =>
         /\ res[r].slot = "decode" => out
         /\ out => res[r].slot # "prefill"

(* "The previous ProgramCompletion finishes exactly once before a retry     *)
(* invokes this closure again" (router.rs:1452): a retry starts only when   *)
(* the attempt it replaces has given load and completion back, and never    *)
(* after a response the client may be reading.                              *)
RetriesStartClean ==
  [][\A r \in Requests : at'[r].attempt > at[r].attempt =>
       res[r].released /\ res[r].open = 0 /\ body[r] = NoBody]_pathVars

(* Every request gets a response, whatever workers come and go: attempts    *)
(* are bounded and none waits for a worker.                                 *)
RequestsAreAnswered == \A r \in Requests : at[r].pc = "attempt" ~> at[r].pc \in {"body", "done"}

(* Everything a request holds is given back once, when it is due: load,   *)
(* slot, completion and activity, however attempts, streams and clients   *)
(* end.                                                                   *)
RequestsReleaseOnce ==
  /\ PathTypeOK
  /\ LoadsMatchGuards
  /\ NothingOutlivesARequest
  /\ RunningIsExact
  /\ DecodeFollowsOutput

-----------------------------------------------------------------------------
(***************************************************************************)
(* authorize_request of server.rs: the verdict on an API key comes from    *)
(* api_key_cache, or from the validation URLs asked in order until one     *)
(* answers 200, and is then cached.  The cache is read before the requests *)
(* to the URLs and written after them, so calls with one key overlap.      *)
(*                                                                         *)
(* The services at the URLs are external: which keys one accepts is fixed, *)
(* and any request to one may fail instead.                                *)
(***************************************************************************)

CONSTANTS
  ApiKeys,        \* bearer tokens, not empty
  NoApiKey,       \* no bearer token
  KeyCalls,       \* the requests to authorise
  MaxValidators,  \* bound: validation URLs
  MaxKeyErrors    \* bound: failing requests to the URLs

ASSUME NoApiKeyAssumption == NoApiKey \notin ApiKeys

Verdicts == {"valid", "refused"}

VARIABLES
  accepts,     \* per URL: the keys its service accepts
  keyCache,    \* per key: {} or {verdict}
  auth,        \* per request: its step, key, next URL and answer
  keyErrors    \* ghost: the <<call, key, URL>> triples whose request failed

keyVars == <<accepts, keyCache, auth, keyErrors>>

Validators == Len(accepts)

ValidationUrls == 1 .. Validators

KeyInit ==
  /\ accepts \in UNION {[1 .. n -> SUBSET ApiKeys] : n \in 0 .. MaxValidators}
  /\ keyCache = [k \in ApiKeys |-> {}]
  /\ auth = [c \in KeyCalls |-> [pc |-> "idle", key |-> NoApiKey, url |-> 1, verdict |-> "refused"]]
  /\ keyErrors = {}

Decide(c, key, verdict) == auth' = [auth EXCEPT ![c] = [pc |-> "done", key |-> key, url |-> 1, verdict |-> verdict]]

(* Without URLs every request passes; a missing or empty token is refused   *)
(* and leaves no trace; a cached verdict is the answer.                     *)
Present(c) ==
  /\ auth[c].pc = "idle"
  /\ \/ /\ Validators = 0 /\ Decide(c, NoApiKey, "valid")
     \/ /\ Validators > 0 /\ Decide(c, NoApiKey, "refused")
     \/ \E k \in ApiKeys :
          /\ Validators > 0
          /\ \/ \E v \in keyCache[k] : Decide(c, k, v)
             \/ /\ keyCache[k] = {}
                /\ auth' = [auth EXCEPT ![c] = [pc |-> "ask", key |-> k, url |-> 1, verdict |-> "refused"]]
  /\ UNCHANGED <<accepts, keyCache, keyErrors>>

(* continue: the loop goes on to the next URL, if there is one.             *)
After(c) == IF auth[c].url = Validators THEN "store" ELSE "ask"

(* One validation URL: 200 ends the loop; any other answer, and an error,   *)
(* go on to the next URL.                                                   *)
Ask(c) ==
  LET k == auth[c].key  u == auth[c].url
  IN /\ auth[c].pc = "ask"
     /\ \/ /\ k \in accepts[u]
           /\ auth' = [auth EXCEPT ![c].pc = "store", ![c].verdict = "valid"] /\ UNCHANGED keyErrors
        \/ /\ k \notin accepts[u]
           /\ auth' = [auth EXCEPT ![c].pc = After(c), ![c].url = @ + 1] /\ UNCHANGED keyErrors
        \/ /\ Cardinality(keyErrors) < MaxKeyErrors
           /\ auth' = [auth EXCEPT ![c].pc = After(c), ![c].url = @ + 1]
           /\ keyErrors' = keyErrors \cup {<<c, k, u>>}
     /\ UNCHANGED <<accepts, keyCache>>

OptimisticVerdict(c) ==                           \* mutant: an error passes
  IF \E u \in ValidationUrls : <<c, auth[c].key, u>> \in keyErrors THEN "valid" ELSE auth[c].verdict

Verdict(c) == auth[c].verdict

(* The verdict is cached, also one that only errors led to, and answered.   *)
StoreVerdict(c) ==
  /\ auth[c].pc = "store"
  /\ keyCache' = [keyCache EXCEPT ![auth[c].key] = {Verdict(c)}]
  /\ Decide(c, auth[c].key, Verdict(c))
  /\ UNCHANGED <<accepts, keyErrors>>

(* The next request on the connection.                                      *)
NextRequest(c) ==
  /\ auth[c].pc = "done"
  /\ auth' = [auth EXCEPT ![c] = [pc |-> "idle", key |-> NoApiKey, url |-> 1, verdict |-> "refused"]]
  /\ UNCHANGED <<accepts, keyCache, keyErrors>>

KeyNext == \E c \in KeyCalls : Present(c) \/ Ask(c) \/ StoreVerdict(c) \/ NextRequest(c)

KeySpec == KeyInit /\ [][KeyNext]_keyVars

-----------------------------------------------------------------------------
Good(k) == \E u \in ValidationUrls : k \in accepts[u]

(* authorize_request: a request passes only with a key some validation URL  *)
(* accepts, cached or not, whatever failed and whoever asked at once.       *)
OnlyGoodKeysPass ==
  \A c \in KeyCalls : auth[c].pc = "done" /\ auth[c].verdict = "valid" /\ Validators > 0 => Good(auth[c].key)

(* authorize_request: a good key is refused only when, at some time, a      *)
(* request to a URL that accepts it failed; never because of another URL's  *)
(* refusal, another key or another request's order.                         *)
GoodKeysAreRefusedOnlyAfterErrors ==
  \A c \in KeyCalls :
    auth[c].pc = "done" /\ auth[c].verdict = "refused" /\ auth[c].key \in ApiKeys /\ Good(auth[c].key)
      => \E e \in keyErrors : e[2] = auth[c].key /\ e[2] \in accepts[e[3]]

(* authorize_request: keys pass only on an acceptance and are refused     *)
(* only on a refusal or an error.                                         *)
KeyVerdictsAreSound == OnlyGoodKeysPass /\ GoodKeysAreRefusedOnlyAfterErrors
=============================================================================
