------------------------------- MODULE Gateway -------------------------------
(***************************************************************************)
(* What stands between the HTTP endpoints and a router: the handlers of    *)
(* server.rs, the RouterManager of gateway mode (routers/router_manager.rs)*)
(* with its worker API, and the OpenAI router (routers/http/               *)
(* openai_router.rs).                                                      *)
(*                                                                         *)
(* A manager is [routers, default]; a worker is [url, type, port, labels]; *)
(* the registry is a function from URLs to workers.  A label's text is its *)
(* value, NoNumber where it does not parse as the number it stands for.     *)
(***************************************************************************)
EXTENDS Integers, Sequences, SequencesExt, FiniteSets, FiniteSetsExt, Functions, TLC, Call

NoNumber == -1

-----------------------------------------------------------------------------
(* Routers of the manager.                                                  *)
NewManager == [routers |-> {}, default |-> {}]

RegisterRouter(m, id) == [routers |-> m.routers \cup {id}, default |-> OrElse(m.default, {id})]

(* startup: the regular router, then the PD router, each if it was created. *)
StartManager(created) ==
  FoldLeft(LAMBDA m, id : IF id \in created THEN RegisterRouter(m, id) ELSE m,
           NewManager, <<"http-regular", "http-pd">>)

RouterType(id) == IF id = "http-pd" THEN "vllm_pd" ELSE "regular"

IsPdMode(id) == RouterType(id) = "pd"

Label(w, name, default) == IF name \in DOMAIN w.labels THEN w.labels[name] ELSE default

ModelId(w) == Label(w, "model_id", "unknown")

LabelNumber(w, name, default) ==
  LET v == Label(w, name, NoNumber) IN IF v = NoNumber THEN default ELSE v

GetByModel(registry, model) == {w \in Range(registry) : ModelId(w) = model}

HasPdWorkers(workers) == \E w \in workers : w.type \in {"prefill", "decode"}

GetRouterForModel(m, registry, model) ==
  LET workers == GetByModel(registry, model)
      id == IF HasPdWorkers(workers) THEN "http-pd" ELSE "http-regular"
  IN IF workers # {} /\ id \in m.routers THEN {id} ELSE m.default \cap m.routers

RouterScore(id, prefer) ==
  1 + (IF prefer /\ IsPdMode(id) THEN 2 ELSE IF ~prefer /\ ~IsPdMode(id) THEN 1 ELSE 0)

(* The first candidate with the best score; the map of routers is iterated  *)
(* in no particular order, so any of the best.                              *)
SelectRouter(m, registry, prefer, model) ==
  LET candidates == IF model = {} THEN m.routers
                    ELSE UNION {GetRouterForModel(m, registry, x) : x \in model}
  IN {id \in candidates : \A x \in candidates : RouterScore(x, prefer) <= RouterScore(id, prefer)}

-----------------------------------------------------------------------------
(* The handlers: which method of the router an endpoint calls.  Chat goes   *)
(* through the transparent proxy in EPD mode, and so do POST /v1/responses  *)
(* and every path that has no route.                                        *)
MethodOf(endpoint, epd) ==
  CASE endpoint = "chat" -> IF epd THEN "transparent" ELSE "chat"
    [] endpoint \in {"responses", "unmatched"} -> "transparent"
    [] OTHER -> endpoint

(* The model the manager routes by: its endpoints that read body.model.     *)
RoutesBy(method, model) == IF method \in {"chat", "completion", "embeddings"} THEN model ELSE {}

Delegated == {"generate", "inference_generate", "chat", "completion", "embeddings", "rerank",
              "get_response", "cancel_response", "transparent"}

Status(code) == [status |-> code, router |-> {}]

(* What the manager may do with a call: answer, or hand it to a router.     *)
Routed(m, registry, method, prefer, model) ==
  LET chosen == SelectRouter(m, registry, prefer, RoutesBy(method, model))
  IN CASE method \in Delegated /\ chosen # {} -> {[status |-> 0, router |-> {id}] : id \in chosen}
       [] method \in Delegated -> {Status(404)}
       [] method \in {"delete_response", "list_input_items", "get_model_info"} -> {Status(501)}
       [] method = "health_generate" -> {Status(503)}
       [] method = "get_models" -> {Status(IF registry = <<>> THEN 503 ELSE 200)}
       [] method \in {"flush_cache", "readiness"} -> {Status(IF m.routers = {} THEN 503 ELSE 200)}
       [] OTHER -> {Status(200)}

-----------------------------------------------------------------------------
(* The worker API.  A configuration is [url, model, priority, cost, type,   *)
(* port, labels]; info is what /get_server_info answered, if it did:        *)
(* [model, path], the path as its "/"-separated components.                 *)
AddedModel(config, info) ==
  LET asked == UNION {OrElse(i.model, {Last(p) : p \in i.path}) : i \in info}
  IN OrElse(config.model, OrElse(asked, {"unknown"}))

LabelsOf(config, info) ==
  [model_id |-> CHOOSE x \in AddedModel(config, info) : TRUE]
    @@ [n \in {f \in {"priority", "cost"} : config[f] # {}} |-> CHOOSE x \in config[n] : TRUE]
    @@ config.labels

WorkerOf(config, info) ==
  LET type == IF config.type \in {{"prefill"}, {"decode"}} THEN CHOOSE t \in config.type : TRUE ELSE "regular"
  IN [url |-> config.url, type |-> type, port |-> IF type = "prefill" THEN config.port ELSE {},
      labels |-> LabelsOf(config, info)]

WorkerToInfo(w) ==
  [url |-> w.url, model_id |-> ModelId(w), priority |-> LabelNumber(w, "priority", 50),
   cost |-> LabelNumber(w, "cost", 1), worker_type |-> w.type, metadata |-> w.labels]

(* The REST endpoints.  s = [kind, base, registry]: kind is "manager" in    *)
(* gateway mode, otherwise the kind of the one router; the OpenAI router    *)
(* knows its base URL only.                                                 *)
WorkerUrlsOf(s) == IF s.kind = "openai" THEN {s.base} ELSE DOMAIN s.registry

Answered(s, status, body) == [s |-> s, status |-> status, body |-> body]

(* A single router is given the URL alone.                                  *)
Plain(url) == [url |-> url, type |-> "regular", port |-> {}, labels |-> <<>>]

CreateWorker(s, config, info, reachable) ==
  LET added(w) == [s EXCEPT !.registry = (w.url :> w) @@ @]
      w == WorkerOf(config, info)
  IN CASE s.kind = "manager" -> Answered(added(w), 200, {WorkerToInfo(w)})
       [] s.kind = "openai" \/ ~reachable \/ config.url \in DOMAIN s.registry -> Answered(s, 400, {})
       [] OTHER -> Answered(added(Plain(config.url)), 200, {})

GetWorker(s, url) ==
  IF url \notin WorkerUrlsOf(s) THEN Answered(s, 404, {})
  ELSE Answered(s, 200, IF s.kind = "manager" THEN {WorkerToInfo(s.registry[url])}
                        ELSE {[url |-> url, model_id |-> "unknown"]})

DeleteWorker(s, url) ==
  LET removed == [s EXCEPT !.registry = Restrict(@, DOMAIN @ \ {url})]
  IN CASE s.kind = "manager" /\ url \notin DOMAIN s.registry -> Answered(s, 400, {})
       [] s.kind = "openai" -> Answered(s, 200, {})
       [] OTHER -> Answered(removed, 200, {})

ListWorkers(s) ==
  LET of(type) == Cardinality({u \in DOMAIN s.registry : s.registry[u].type = type})
  IN [workers |-> {WorkerToInfo(w) : w \in Range(s.registry)}, total |-> Cardinality(DOMAIN s.registry),
      models |-> Cardinality({ModelId(w) : w \in Range(s.registry)}),
      regular |-> of("regular"), prefill |-> of("prefill"), decode |-> of("decode")]

-----------------------------------------------------------------------------
(* The OpenAI router.  up is what the upstream does: [sent: it was reached, *)
(* status, read: its body could be read].                                   *)
OpenAiHealth(up) ==
  IF up.sent /\ (up.status \in 200 .. 299 \/ up.status \in {401, 403}) THEN 200 ELSE 503

OpenAiModels(up) == IF ~up.sent THEN 502 ELSE IF ~up.read THEN 500 ELSE up.status

OpenAiReadiness(open) == IF open THEN 503 ELSE 200

Refused == [forwarded |-> FALSE, recorded |-> <<>>, status |-> 503]

Forwarded(recorded, status) == [forwarded |-> TRUE, recorded |-> recorded, status |-> status]

(* encodes: the request body could be serialized for the upstream.          *)
OpenAiChat(open, encodes, stream, up) ==
  CASE open -> Refused
    [] ~encodes -> [Refused EXCEPT !.status = 400]
    [] ~up.sent -> Forwarded(<<"failure">>, 503)
    [] stream -> Forwarded(<<>>, up.status)
    [] ~up.read -> Forwarded(<<"failure">>, 500)
    [] OTHER -> Forwarded(<<"success">>, up.status)

-----------------------------------------------------------------------------
(* Starting up.  c = [igw, created, router, queue, discovery, wasm, digest, *)
(* loads, binds]: which routers could be created, and which later steps     *)
(* succeed; the first that fails ends the start.                            *)

DigestWithoutComponent(c) == c.digest /\ ~c.wasm

Startup(c) ==
  IF \/ ~c.igw /\ ~c.router
     \/ c.wasm /\ ~c.loads
     \/ DigestWithoutComponent(c)
     \/ ~c.binds
  THEN Fail
  ELSE Ok({[manager |-> IF c.igw THEN {StartManager(c.created)} ELSE {},
            processor |-> c.queue > 0, waiting |-> c.queue > 0,
            discovery |-> c.discovery = "starts", wasm |-> c.wasm]})

-----------------------------------------------------------------------------
(* In gateway mode a chat, completion or embeddings request that names a    *)
(* model with workers is handed to a router that uses them: a prefill or    *)
(* decode worker makes it the PD router, and only a missing router of that  *)
(* kind lets the request fall to the other one.                             *)
ModelDecidesTheRouter ==
  Calling("gateway") =>
    LET m == StartManager(call.created)
        workers == GetByModel(call.registry, call.model)
        uses == IF \E w \in workers : w.type # "regular" THEN "http-pd" ELSE "http-regular"
    IN call.endpoint \in {"chat", "completion", "embeddings"} /\ ~call.epd /\ workers # {} /\ uses \in call.created
         => \A r \in Routed(m, call.registry, MethodOf(call.endpoint, call.epd), call.prefer, {call.model}) : r.router = {uses}

(* No call is lost while a router exists: the manager answers 404 only when *)
(* neither router could be created, and then its readiness says so too; and *)
(* a model without workers goes to the router registered first.             *)
UnroutableIsNotReady ==
  Calling("gateway") =>
    LET m == StartManager(call.created)
        ready == Routed(m, call.registry, "readiness", FALSE, {})
        outcomes == Routed(m, call.registry, MethodOf(call.endpoint, call.epd), call.prefer, {call.model})
    IN /\ Status(404) \in outcomes => ready = {Status(503)}
       /\ ready = {Status(503)} => \A r \in outcomes : r.router = {}
       /\ "http-regular" \in call.created /\ GetByModel(call.registry, call.model) = {} =>
            GetRouterForModel(m, call.registry, call.model) = {"http-regular"}

(* The worker API tells what it was asked for: the model, priority and cost *)
(* of the configuration stand above labels of the same name, and the model  *)
(* the worker is listed under is the one requests for it are routed by.     *)
InfoTellsWhatWasAsked ==
  Calling("worker") /\ call.s.kind = "manager" =>
    LET made == CreateWorker(call.s, call.config, call.info, TRUE)
        got == GetWorker(made.s, call.config.url)
        told == CHOOSE x \in got.body : TRUE
    IN /\ got.status = 200 /\ got.body = made.body
       /\ call.config.model # {} => told.model_id \in call.config.model
       /\ call.config.priority # {} => told.priority \in call.config.priority
       /\ call.config.cost # {} => told.cost \in call.config.cost
       /\ made.s.registry[call.config.url] \in GetByModel(made.s.registry, told.model_id)

(* A worker the API says it removed is gone: it is neither found nor        *)
(* listed, the others are, and the counts by type add up to the total.      *)
(* (The OpenAI router removes nothing and says it did.)                     *)
DeletedWorkersAreGone ==
  Calling("worker") /\ call.s.kind # "openai" =>
    LET made == CreateWorker(call.s, call.config, call.info, call.reachable).s
        done == DeleteWorker(made, call.url)
        listed == ListWorkers(done.s)
    IN /\ done.status = 200 => GetWorker(done.s, call.url).status = 404
       /\ {i.url : i \in listed.workers} = DOMAIN made.registry \ {call.url}
       /\ listed.regular + listed.prefill + listed.decode = listed.total

(* The OpenAI router's circuit sees every exchange that ended here: a chat  *)
(* request that can be serialized is forwarded exactly when the router is   *)
(* ready, an unstreamed one records one outcome, and a failure whenever the *)
(* caller is answered by the router itself and not by the upstream.  Its    *)
(* endpoints agree: an upstream that served a chat or the list of models is *)
(* a healthy one.                                                           *)
OpenAiOutcomesAreCounted ==
  Calling("openai") =>
    LET r == OpenAiChat(call.open, call.encodes, call.stream, call.up)
    IN /\ r.forwarded <=> OpenAiReadiness(call.open) = 200 /\ call.encodes
       /\ r.forwarded /\ ~call.stream => Len(r.recorded) = 1
       /\ r.forwarded /\ r.status # call.up.status => r.recorded = <<"failure">>
       /\ 200 \in {r.status, OpenAiModels(call.up)} => OpenAiHealth(call.up) = 200

(* A server that came up applies every request filter it was configured     *)
(* with, and reports waiting requests exactly when something drains them.   *)
StartedAsConfigured ==
  Calling("startup") =>
    LET r == Startup(call.c)
    IN ~r.err => \A s \in r.got :
         /\ call.c.digest => s.wasm
         /\ s.waiting <=> s.processor
         /\ call.c.igw => s.manager # {}

-----------------------------------------------------------------------------
(***************************************************************************)
(* The pure part of the WASM OnRequest middleware, wasm_middleware.rs:     *)
(* which routes a component is loaded for, and what the guest's answer     *)
(* does to a request.  Who runs the guest and when is WasmMiddleware.      *)
(*                                                                         *)
(* A guest spells a header name in either case: [name, upper], with        *)
(* "bad name" for one that is not valid; a negative value is not valid.    *)
(* Headers are a function from lower-case names to sequences of values.    *)
(***************************************************************************)

DefaultRoute == "chat"

(* SUPPORTED_WASM_ROUTES, and the routes of the server with the layer.      *)
SupportedRoutes == {"generate", "inference", "chat", "completions", "rerank", "v1rerank", "responses", "embeddings"}
MountedRoutes == SupportedRoutes \cup {"response", "cancel", "input"}

DefaultInput == 10

(* with_routes: [path, padded] trimmed, blank ones left out.                *)
WithRoutes(routes) ==
  LET given == SelectSeq([i \in DOMAIN routes |-> routes[i].path], LAMBDA p : p # "blank")
  IN IF given = <<>> THEN <<DefaultRoute>> ELSE given

(* The part of startup that builds the configuration, o: [routes, digest,   *)
(* payload, file, usable].  Digests are trimmed and lower-cased, so that    *)
(* only their digits remain.                                                *)
HookConfig(o) ==
  [routes |-> IF o.routes = <<>> THEN <<DefaultRoute>> ELSE WithRoutes(o.routes),
   digest |-> IF o.digest.hex = "blank" THEN {} ELSE {o.digest.hex},
   input  |-> IF o.payload < DefaultInput THEN o.payload ELSE DefaultInput]

(* validate; memory, deadline, workers and capacity are positive defaults.  *)
ValidHook(c) ==
  /\ c.input > 0
  /\ ToSet(c.routes) \subseteq SupportedRoutes
  /\ c.digest \subseteq {"same", "other"}

(* WasmMiddlewareRuntime::load; usable stands for the engine, the compiler  *)
(* and the first instance, which are external.                              *)
LoadHook(o) ==
  LET c == HookConfig(o) IN
  IF ValidHook(c) /\ o.file /\ c.digest \subseteq {"same"} /\ o.usable THEN Ok(ToSet(c.routes)) ELSE Fail

-----------------------------------------------------------------------------
ImmutableHeaders == {"authorization", "host", "content-length"}

IsImmutable(g) == g.name \in ImmutableHeaders

ValidName(g) == g.name # "bad name"
ValidValue(v) == v >= 0

(* What is left of a list of [header, value] once immutable ones are passed *)
(* over, and whether every one of the rest is valid.                        *)
Mutable(entries) == SelectSeq(entries, LAMBDA e : ~IsImmutable(e.header))
AllValid(entries) == \A i \in DOMAIN entries : ValidName(entries[i].header) /\ ValidValue(entries[i].value)

RemoveHeader(h, e) == [h EXCEPT ![e.header.name] = <<>>]

InsertHeader(h, e) == [h EXCEPT ![e.header.name] = <<e.value>>]
AppendHeader(h, e) == [h EXCEPT ![e.header.name] = Append(@, e.value)]

ApplyHeaderMutations(h, m) ==
  LET removes == Mutable(m.remove)  sets == Mutable(m.set)  adds == Mutable(m.add) IN
  IF ~(AllValid(removes) /\ AllValid(sets) /\ AllValid(adds)) THEN Fail
  ELSE Ok({FoldLeft(AppendHeader, FoldLeft(InsertHeader, FoldLeft(RemoveHeader, h, removes), sets), adds)})

MaxOutput == 2

RejectStatus(status) == status \in 400 .. 599

(* map_action: the guest's answer, or an error.                             *)
MapAction(a) ==
  CASE a.type = "continue" -> Ok({a})
    [] a.type = "reject" -> IF RejectStatus(a.status) THEN Ok({a}) ELSE Fail
    [] a.type = "modify" -> IF a.body \in {{}} \cup {{n} : n \in 0 .. MaxOutput} THEN Ok({a}) ELSE Fail

Refuse(status) == [status |-> status]
Forward(h, body) == [status |-> 0, headers |-> h, body |-> body]

(* wasm_on_request_middleware, from the guest's answer on; a body is known  *)
(* by its length.                                                           *)
OnAction(a, h, body) ==
  IF MapAction(a).err THEN Refuse(500)
  ELSE CASE a.type = "continue" -> Forward(h, body)
         [] a.type = "reject" -> Refuse(a.status)
         [] a.type = "modify" ->
              LET changed == ApplyHeaderMutations(h, a) IN
              IF changed.err THEN Refuse(500)
              ELSE Forward([(CHOOSE c \in changed.got : TRUE) EXCEPT !["content-length"] = <<>>],
                           IF a.body = {} THEN body ELSE CHOOSE n \in a.body : TRUE)

-----------------------------------------------------------------------------
(* A component that loads guards every route it was asked to guard, all of  *)
(* them routes that carry the layer, and is the file its digest names: a    *)
(* misspelt route or a wrong file stops the start instead of leaving        *)
(* requests unguarded.                                                      *)
LoadedHooksGuardTheirRoutes ==
  Calling("hook") =>
    LET o == call.o
        asked == {o.routes[i].path : i \in DOMAIN o.routes} \ {"blank"}
        loaded == LoadHook(o)
    IN ~loaded.err =>
         /\ loaded.got = IF asked = {} THEN {DefaultRoute} ELSE asked
         /\ loaded.got \subseteq MountedRoutes
         /\ o.digest.hex \in {"blank", "same"}

(* "Headers plugins are never allowed to mutate" (wasm_middleware.rs:48)    *)
(* keep their values, however the guest spells them; only the length goes   *)
(* with a modification, so that it never contradicts a replaced body.       *)
ProtectedHeadersSurvive ==
  Calling("action") =>
    LET out == OnAction(call.a, call.h, call.body) IN
    out.status = 0 =>
      /\ \A n \in ImmutableHeaders \ {"content-length"} : out.headers[n] = call.h[n]
      /\ out.headers["content-length"] = <<>> \/ out.body = call.body

(* Removals come first, then the last value set, then all values added, in  *)
(* order: the effect on a header follows from the three lists alone.        *)
MutationsComposeInOrder ==
  Calling("action") /\ call.a.type = "modify" =>
    LET out == OnAction(call.a, call.h, call.body)
        For(n, entries) == SelectSeq(entries, LAMBDA e : e.header.name = n)
        base(n) == LET s == For(n, call.a.set) IN
                   IF s # <<>> THEN <<Last(s).value>>
                   ELSE IF For(n, call.a.remove) # <<>> THEN <<>> ELSE call.h[n]
    IN out.status = 0 =>
         \A n \in DOMAIN call.h \ ImmutableHeaders :
           out.headers[n] = base(n) \o [i \in DOMAIN For(n, call.a.add) |-> For(n, call.a.add)[i].value]

(* A request that does not go on is answered with an error status, whatever *)
(* status the guest asked for: a client never takes a refusal for a reply.  *)
RefusalsAreErrors ==
  Calling("action") => OnAction(call.a, call.h, call.body).status \in {0} \cup (400 .. 599)

=============================================================================
