---------------------------- MODULE ControlPlane ----------------------------
(***************************************************************************)
(* What the HTTP routers do besides forwarding generation requests: worker *)
(* URLs and their ranks (dp_utils.rs), waiting for hosts at startup, the   *)
(* control-plane requests of routers/http/router.rs and pd_router.rs, PD   *)
(* pair selection, load sampling and reranking.                            *)
(*                                                                         *)
(* A URL is [host, parts]: parts are the texts between its '@' signs, a    *)
(* number or -1 for a text that is no number.  A worker is [url, healthy,  *)
(* closed, role, model]; it is available when healthy with a closed        *)
(* breaker.  answer[h] is what host h answers: a status, 0 for a success   *)
(* whose body cannot be read, -1 for no answer at all.                     *)
(***************************************************************************)
EXTENDS Integers, Sequences, SequencesExt, FiniteSetsExt, Call

Bare(h) == [host |-> h, parts |-> <<>>]

ExtractDpRank(u) ==
  IF Len(u.parts) = 1 /\ u.parts[1] >= 0 THEN {[base |-> Bare(u.host), rank |-> u.parts[1]]} ELSE {}

(* parse_worker_url: a URL without exactly one numeric rank is its own base.*)
BaseUrl(u) == IF ExtractDpRank(u) = {} THEN u ELSE Bare(u.host)

(* backend::strip_dp_suffix splits at the last '@' instead.                 *)
StripDpSuffix(u) ==
  IF u.parts # <<>> /\ Last(u.parts) >= 0 THEN [u EXCEPT !.parts = Front(@)] ELSE u

GetDpAwareWorkers(urls, dp) ==
  FlattenSeq([i \in DOMAIN urls |->
    [r \in 1 .. dp |-> [urls[i] EXCEPT !.parts = Append(@, r - 1)]]])

-----------------------------------------------------------------------------
(* wait_for_healthy_hosts cuts at the last '@', number or not.              *)
ProbedHost(u) == IF u.parts = <<>> THEN u ELSE [u EXCEPT !.parts = Front(@)]

(* Rounds of probes until one finds a host; up[r] are the hosts that answer *)
(* round r.  {} is the startup timeout.                                     *)
WaitForHealthyHosts(urls, up) ==
  LET found == {r \in DOMAIN up : \E u \in ToSet(urls) : ProbedHost(u) \in up[r]}
      probed == {ProbedHost(u) : u \in ToSet(urls)}
  IN IF found = {} THEN {} ELSE {probed \cap up[Min(found)]}

StartsHealthy(u, hosts) == BaseUrl(u) \in hosts

(* Router::new: the workers it registers; {} refuses to start.              *)
StartWorkers(urls, dp, up) ==
  LET workers == IF dp > 1 THEN GetDpAwareWorkers(urls, dp) ELSE urls
  IN IF urls = <<>> THEN {{}}
     ELSE {{[url |-> u, healthy |-> StartsHealthy(u, hosts)] : u \in ToSet(workers)} :
             hosts \in WaitForHealthyHosts(urls, up)}

-----------------------------------------------------------------------------
Available(w) == w.healthy /\ w.closed

(* available_worker_base_urls: sorted and without duplicates.               *)
AvailableHosts(workers) ==
  SetToSortSeq({BaseUrl(w.url) : w \in {v \in ToSet(workers) : Available(v)}},
               LAMBDA a, b : a.host < b.host)

IsRetryable(status) == status \in {408, 429, 500, 502, 503, 504}

IsSuccess(status) == status \in 200 .. 299

Relayed(answer, u) == IF answer[u.host] > 0 THEN answer[u.host] ELSE 500

StopsOnSuccess(answer, u) == IsSuccess(answer[u.host])   \* mutant: a 404 of the model server is retried elsewhere

Final(answer, u) == answer[u.host] > 0 /\ ~IsRetryable(answer[u.host])

(* proxy_get_request: hosts in turn until one gives a final answer.         *)
ProxyGetRequest(workers, answer) ==
  LET hosts == AvailableHosts(workers)
      final == {i \in DOMAIN hosts : Final(answer, hosts[i])}
      last == IF final = {} THEN Len(hosts) ELSE Min(final)
  IN IF hosts = <<>> THEN [status |-> 503, asked |-> <<>>]
     ELSE [status |-> Relayed(answer, hosts[last]), asked |-> SubSeq(hosts, 1, last)]

(* get_server_info, get_models, get_model_info and health_generate of the   *)
(* regular router.  gRPC pools are asked through the control client of the  *)
(* first available worker.                                                  *)
GrpcInfo(workers, answer, endpoint) ==
  LET w == workers[Min({i \in DOMAIN workers : Available(workers[i])})]
  IN IF endpoint = "health_generate" THEN 501
     ELSE IF IsSuccess(answer[StripDpSuffix(w.url).host]) THEN 200 ELSE 502

GetInfo(workers, answer, endpoint, grpc) ==
  IF ~\E w \in ToSet(workers) : Available(w) THEN 503
  ELSE IF grpc THEN GrpcInfo(workers, answer, endpoint)
  ELSE ProxyGetRequest(workers, answer).status

(* route_simple_request: every worker URL in turn until a success.          *)
RouteSimpleRequest(workers, answer) ==
  LET good == {i \in DOMAIN workers : IsSuccess(answer[BaseUrl(workers[i].url).host])}
      last == IF good = {} THEN Len(workers) ELSE Min(good)
  IN IF workers = <<>> THEN 503 ELSE Relayed(answer, BaseUrl(workers[last].url))

(* Where only the status counts.                                            *)
Succeeds(answer, h) == answer[h] = 0 \/ IsSuccess(answer[h])

(* flush_cache takes the rank off a URL only where hosts have ranks; then   *)
(* every URL must have one.  Elsewhere nobody answers at a URL with one.    *)
FlushedHost(u, dp) ==
  IF dp > 1 THEN {r.base.host : r \in ExtractDpRank(u)} ELSE IF u.parts = <<>> THEN {u.host} ELSE {}

(* flush_cache asks all of them at once and wants every one to succeed.     *)
FlushCache(workers, answer, dp) ==
  IF \A w \in ToSet(workers) : \E h \in FlushedHost(w.url, dp) : Succeeds(answer, h) THEN 200 ELSE 500

Health(workers) == IF \A w \in ToSet(workers) : w.healthy THEN 200 ELSE 503

Readiness(workers) == IF \E w \in ToSet(workers) : w.healthy THEN 200 ELSE 503

-----------------------------------------------------------------------------
(* The PD router.                                                           *)
OfRole(workers, role) == SelectSeq(workers, LAMBDA w : w.role = role)

OfModel(workers, model) == SelectSeq(workers, LAMBDA w : model = "any" \/ w.model = model)

PickedWorker(workers, index) == SelectSeq(workers, Available)[index]

(* pick_worker_by_policy_arc: the policy may name any available position.   *)
PickWorkerByPolicy(workers) ==
  {PickedWorker(workers, i) : i \in 1 .. Len(SelectSeq(workers, Available))}

SelectPdPair(workers, model) ==
  PickWorkerByPolicy(OfRole(OfModel(workers, model), "prefill"))
    \X PickWorkerByPolicy(OfRole(OfModel(workers, model), "decode"))

PdReadiness(workers) ==
  IF \A role \in {"prefill", "decode"} : \E w \in ToSet(workers) : w.role = role /\ w.healthy
    THEN 200 ELSE 503

PdHealthGenerate(workers, answer) ==
  LET pairs == SelectPdPair(workers, "any")
  IN IF pairs = {} THEN {503}
     ELSE {IF \A i \in 1 .. 2 : Succeeds(answer, BaseUrl(p[i].url).host) THEN 200 ELSE 503 : p \in pairs}

(* proxy_to_first_prefill_worker asks one worker, available or not.         *)
PdGetInfo(workers, answer) ==
  LET prefill == OfRole(workers, "prefill")
  IN IF prefill = <<>> THEN 503
     ELSE LET status == Relayed(answer, BaseUrl(prefill[1].url))
          IN IF IsSuccess(status) THEN 200 ELSE status

-----------------------------------------------------------------------------

MonitorWorkerLoads(urls, reports) ==
  {[url |-> u, load |-> reports[u.host]] :
     u \in {v \in ToSet(urls) : (v.parts = <<>> \/ ExtractDpRank(v) # {}) /\ reports[v.host] >= 0}}

-----------------------------------------------------------------------------

ByScore(a, b) == a.score > b.score

(* build_rerank_response: stable sort by descending score, then top_k       *)
(* (-1 when the request has none), then the documents are dropped.          *)
BuildRerankResponse(results, topK, documents) ==
  LET ordered == SortSeq(results, LAMBDA a, b : ByScore(a, b) \/ (a.score = b.score /\ a.index < b.index))
      kept == IF topK >= 0 /\ topK < Len(ordered) THEN SubSeq(ordered, 1, topK) ELSE ordered
  IN [i \in DOMAIN kept |-> [kept[i] EXCEPT !.document = @ /\ documents]]

-----------------------------------------------------------------------------
(* A router that starts routes to no host that did not answer its startup   *)
(* probe and to every one that did; each rank of a host shares its verdict. *)
(* URLs that already carry a rank are expanded again when dp > 1, which the *)
(* code does not expect, and are left out.                                  *)
StartupRoutesToAnsweringHosts ==
  (Calling("start") /\ (call.dp = 1 \/ \A u \in ToSet(call.urls) : u.parts = <<>>)) =>
    \A workers \in StartWorkers(call.urls, call.dp, call.up) :
      call.urls # <<>> =>
        /\ \E w \in workers : w.healthy
        /\ \E r \in DOMAIN call.up : \A w \in workers : w.healthy = (Bare(w.url.host) \in call.up[r])

(* A control-plane GET is refused with a retryable status only when every   *)
(* available host failed; otherwise the answer is that of the first host,   *)
(* in the order of their URLs, to give a final one.  No host is asked       *)
(* twice, however many ranks it has, and none after the answer.             *)
GetFailsOver ==
  Calling("get") =>
    LET hosts == {w.url.host : w \in {v \in ToSet(call.workers) : Available(v)}}
        out == ProxyGetRequest(call.workers, call.answer)
        final == {h \in hosts : call.answer[h] \in {200, 404}}
    IN /\ IsInjective(out.asked)
       /\ IF final = {} THEN out.status \in {500, 503} /\ Len(out.asked) = Cardinality(hosts)
          ELSE /\ out.status = call.answer[Min(final)]
               /\ {u.host : u \in ToSet(out.asked)} = {h \in hosts : h <= Min(final)}

(* Readiness never lags behind service: if a control-plane GET is answered  *)
(* by a worker, over HTTP or gRPC, or a PD pair can be selected, the        *)
(* readiness endpoint of that router says ready; when the health endpoint   *)
(* is satisfied with a non-empty pool, so is readiness; and the calls that  *)
(* ask one worker succeed wherever flush_cache, which asks all, does, as    *)
(* long as bodies can be read.  This is about registered workers: a PD      *)
(* router that discovers them has none (HealthyRoutersFindAPair).           *)
ServingRoutersAreReady ==
  Calling("get") =>
    /\ ProxyGetRequest(call.workers, call.answer).asked # <<>> => Readiness(call.workers) = 200
    /\ (call.workers # <<>> /\ Health(call.workers) = 200) => Readiness(call.workers) = 200
    /\ \A endpoint \in {"get_models", "health_generate"}, grpc \in BOOLEAN :
         GetInfo(call.workers, call.answer, endpoint, grpc) = 200 => Readiness(call.workers) = 200
    /\ SelectPdPair(call.workers, "any") # {} => PdReadiness(call.workers) = 200
    /\ 200 \in PdHealthGenerate(call.workers, call.answer) => PdReadiness(call.workers) = 200
    /\ ( /\ call.workers # <<>> /\ \E dp \in 1 .. 2 : FlushCache(call.workers, call.answer, dp) = 200
         /\ \A w \in ToSet(call.workers) : call.answer[w.url.host] # 0 ) =>
         /\ RouteSimpleRequest(call.workers, call.answer) = 200
         /\ OfRole(call.workers, "prefill") # <<>> => PdGetInfo(call.workers, call.answer) = 200

(* A selected PD pair is one available prefill and one available decode     *)
(* worker, of the model the request names when it names one.                *)
PairsAreUsable ==
  Calling("get") =>
    \A model \in {"any", "m"} : \A pair \in SelectPdPair(call.workers, model) :
      /\ Available(pair[1]) /\ pair[1].role = "prefill"
      /\ Available(pair[2]) /\ pair[2].role = "decode"
      /\ model # "any" => pair[1].model = model /\ pair[2].model = model

(* A worker that does not report its load is left out of the update, so it  *)
(* never looks emptier to the power-of-two policy than one that does.       *)
SilentWorkersAreNotIdle ==
  Calling("loads") =>
    LET seen == MonitorWorkerLoads(call.urls, call.reports)
    IN /\ \A s \in seen : s.load = call.reports[s.url.host]
       /\ \A u \in ToSet(call.urls) : call.reports[u.host] = -1 => ~\E s \in seen : s.url = u

(* Reranking returns the top_k best scored documents, best first, each      *)
(* once.                                                                    *)
RerankKeepsTheBest ==
  Calling("rerank") =>
    LET out == BuildRerankResponse(call.results, call.topK, FALSE)
        kept == {o.index : o \in ToSet(out)}
        score(i) == call.results[i].score
    IN /\ Len(out) = Cardinality(kept)
       /\ Len(out) = IF call.topK >= 0 /\ call.topK < Len(call.results) THEN call.topK ELSE Len(call.results)
       /\ \A i \in kept, j \in DOMAIN call.results \ kept : score(i) >= score(j)
       /\ \A i, j \in DOMAIN out : i < j => out[i].score >= out[j].score

=============================================================================
