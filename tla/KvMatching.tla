----------------------------- MODULE KvMatching -----------------------------
(***************************************************************************)
(* The KV-aware selection first, then the pure parts of the index it asks. *)
(*                                                                         *)
(* The cost model and the selection of policies/kv_aware.rs.  Credits are  *)
(* tenths (device 1.0, host 0.8, external 0.6, disk 0.3) and credited      *)
(* tokens are counted in tenths of a token, which is exact for these       *)
(* ratios.  A hit is one segment [start, end) of a target's blocks at a    *)
(* tier; the index reports hits in no particular order.                    *)
(***************************************************************************)
EXTENDS Integers, Sequences, SequencesExt, FiniteSetsExt, Call, FiniteSets, TLC

MaxBatch == 1000   \* above every batch size: orders by work, then by batch

(* TransferCredits::for_tier                                                *)
CreditOf(tier) ==
  CASE tier = "Device" -> 10 [] tier = "HostPinned" -> 8
    [] tier = "External" -> 6 [] tier = "Disk" -> 3

Less1(n) == IF n > 0 THEN n - 1 ELSE 0

(* The last prompt token is recomputed, so its block is never credited.     *)
DeviceLimit(input, size) == IF size = 0 THEN 0 ELSE Less1(input) \div size

DeviceBlocks(hits, input, size) ==
  LET ends == {h.end : h \in {g \in ToSet(hits) : g.tier = "Device" /\ g.start = 0}}
      held == IF ends = {} THEN 0 ELSE Max(ends)
  IN IF held < DeviceLimit(input, size) THEN held ELSE DeviceLimit(input, size)

(* A longer continuation wins, an equal one by its credit.                  *)
Better(best, blocks, credit) ==
  blocks > best.blocks \/ (blocks = best.blocks /\ credit > best.credit)

(* The one continuation below the device prefix, hit by hit.                *)
Continuation(hits, device) ==
  LET step(best, h) ==
        IF h.tier # "Device" /\ h.start <= device /\ device < h.end
           /\ Better(best, h.end - device, CreditOf(h.tier))
          THEN [blocks |-> h.end - device, credit |-> CreditOf(h.tier)]
          ELSE best
  IN FoldLeft(step, [blocks |-> 0, credit |-> 0], hits)

(* credited_tokens, in tenths.                                              *)
CreditedTokens(hits, input, size) ==
  LET device == DeviceBlocks(hits, input, size)
      more == Continuation(hits, device)
      tenths == (device * 10 + more.blocks * more.credit) * size
  IN IF tenths < Less1(input) * 10 THEN tenths ELSE Less1(input) * 10

(* request_prefill_tokens: what is left, rounded up.                        *)
PrefillOf(hits, input, size) == (input * 10 - CreditedTokens(hits, input, size) + 9) \div 10

(* cost_components and MultiplicativeScorer.  A candidate is [hits, tokens, *)
(* requests, load]: the sampled slot counters and Worker::load.             *)
Batch(c) == IF c.requests > c.load THEN c.requests ELSE c.load

Ptoken(c, input, size) == PrefillOf(c.hits, input, size) + c.tokens

Cost(c, input, size) == Ptoken(c, input, size) * (Batch(c) + 1)

(* The first position with the least key, as min_by returns it.             *)
FirstMin(positions, key) ==
  CHOOSE i \in positions : \A j \in positions : key[i] < key[j] \/ (key[i] = key[j] /\ i <= j)

(* The picker: the cheapest, or at a positive temperature any of them.      *)
Pick(positions, cost, hot) ==
  IF hot THEN positions ELSE {FirstMin(positions, cost)}

(* KV events do not carry the salt: a salted request gets no placement      *)
(* credit.                                                                  *)
PlacementHits(worker, salted) == IF salted THEN <<>> ELSE worker.hits

(* select_worker_with_receipt: the positions it may return.  A worker is    *)
(* [healthy, size, hits, tokens, requests, load]; size and hits come from   *)
(* the index of its own cache identity.  input is the number of token ids,  *)
(* 0 for a request that carries none.                                       *)
Select(workers, input, salted, hot) ==
  LET healthy == {i \in DOMAIN workers : workers[i].healthy}
      view(i) == [workers[i] EXCEPT !.hits = PlacementHits(workers[i], salted)]
      cost == [i \in healthy |-> Cost(view(i), input, workers[i].size)]
      free == {i \in healthy : cost[i] = 0}
      batch == [i \in healthy |-> Batch(workers[i])]
      work == [i \in healthy |-> Ptoken(view(i), input, workers[i].size) * MaxBatch + Batch(workers[i])]
  IN IF healthy = {} THEN {}
     ELSE IF free = healthy \/ (~hot /\ free # {})
            THEN {IF input = 0 THEN FirstMin(free, batch) ELSE FirstMin(free, work)}
            ELSE Pick(healthy, cost, hot)

-----------------------------------------------------------------------------
(* However much of a prompt is cached, at any tier and alignment, at least  *)
(* one token is left to compute, never more than the prompt, and a prompt   *)
(* held whole in device blocks recomputes the block its last token ends     *)
(* ("never credit its final block when that block ends at the prompt        *)
(* boundary").                                                              *)
LastTokenIsComputed ==
  Calling("score") =>
    LET left == PrefillOf(call.hits, call.input, call.size)
        deviceOnly == \A h \in ToSet(call.hits) : h.tier = "Device"
    IN /\ left <= call.input /\ (call.input > 0 => left >= 1)
       /\ (deviceOnly /\ call.input > 0 /\ call.input % call.size = 0) => left >= call.size

(* The credit does not depend on the order in which the index reports the   *)
(* hits of a target (find_matches collects them from a hash map).           *)
CreditIgnoresHitOrder ==
  Calling("score") =>
    CreditedTokens(call.hits, call.input, call.size)
      = CreditedTokens(Reverse(call.hits), call.input, call.size)

(* Only healthy workers are selected, and at temperature zero a worker with *)
(* strictly less work to do and no larger batch than another is never       *)
(* passed over for it.                                                      *)
SelectionIsUndominated ==
  Calling("select") =>
    LET work(i) == Ptoken([call.workers[i] EXCEPT !.hits = IF call.salted THEN <<>> ELSE @],
                          call.input, call.workers[i].size)
        healthy == {i \in DOMAIN call.workers : call.workers[i].healthy}
    IN \A i \in healthy, chosen \in Select(call.workers, call.input, call.salted, call.hot) :
         /\ chosen \in healthy
         /\ call.hot \/ ~(/\ work(i) < work(chosen)
                          /\ Batch(call.workers[i]) <= Batch(call.workers[chosen]))

(* What the index holds makes no difference to a salted request: its blocks *)
(* could belong to any salt.                                                *)
SaltedRequestsIgnoreTheIndex ==
  (Calling("select") /\ call.salted) =>
    Select(call.workers, call.input, TRUE, call.hot)
      = Select([i \in DOMAIN call.workers |-> [call.workers[i] EXCEPT !.hits = <<>>]],
               call.input, TRUE, call.hot)

-----------------------------------------------------------------------------
(***************************************************************************)
(* The pure parts of the KV-event index: block hashes (kv_index/mod.rs),   *)
(* the endpoint mapping (endpoints.rs) and what discovery makes of a       *)
(* worker's answers (discovery.rs).                                        *)
(*                                                                         *)
(* A URL is [scheme, host, port, plain], plain when it has no credentials, *)
(* path, query or fragment, port NoPort when none is written; a host is    *)
(* [kind, id, upper].  A digest is the sequence of bytes that went into it,*)
(* in units of a token's four.                                             *)
(***************************************************************************)

NoPort == -1

ChunksOf(tokens, size) ==
  [i \in 1 .. (Len(tokens) + size - 1) \div size |->
     SubSeq(tokens, (i - 1) * size + 1, IF i * size < Len(tokens) THEN i * size ELSE Len(tokens))]

(* An empty adapter name is none.                                           *)
Digest(lora, chunk) == lora \o chunk

LocalBlockHashes(tokens, size, lora) ==
  IF size = 0 THEN <<>>
  ELSE [i \in DOMAIN ChunksOf(tokens, size) |-> Digest(lora, ChunksOf(tokens, size)[i])]

-----------------------------------------------------------------------------
(* Endpoints.                                                               *)

Mapped(host) == IF host.kind = "mapped" THEN [host EXCEPT !.kind = "v4"] ELSE host

(* The host a socket connects to, in one spelling; {} for one that names    *)
(* no peer.                                                                 *)
DisplayHost(host) ==
  LET h == [Mapped(host) EXCEPT !.upper = FALSE]
  IN IF h.id = "any" THEN {} ELSE {h}

DefaultPort(scheme) == IF scheme = "http" THEN 80 ELSE 443

(* The key of a worker keeps its address as written, except for what URL    *)
(* syntax makes equal: the case of the host and the scheme's default port.  *)
CanonicalWorker(url) ==
  IF url.scheme \notin {"http", "https"} \/ ~url.plain \/ url.port = 0 \/ DisplayHost(url.host) = {}
  THEN Fail
  ELSE Ok({[key |-> [scheme |-> url.scheme, host |-> [url.host EXCEPT !.upper = FALSE],
                     port |-> IF url.port = NoPort THEN DefaultPort(url.scheme) ELSE url.port],
            host |-> h] : h \in DisplayHost(url.host)})

CanonicalEndpoint(url) ==
  IF url.scheme # "tcp" \/ ~url.plain \/ url.port \in {NoPort, 0} \/ DisplayHost(url.host) = {}
  THEN Fail
  ELSE Ok({[host |-> h, port |-> url.port] : h \in DisplayHost(url.host)})

Got(r) == CHOOSE x \in r.got : TRUE

(* mappings is a sequence of <<worker, endpoint>>; the result pairs every   *)
(* worker URL as it is registered with its endpoint.                        *)
ResolveEndpoints(workers, mappings, port) ==
  LET known == [i \in DOMAIN workers |-> CanonicalWorker(workers[i])]
      given == [i \in DOMAIN mappings |-> <<CanonicalWorker(mappings[i][1]), CanonicalEndpoint(mappings[i][2])>>]
      key(i) == Got(known[i]).key
      named(i) == {j \in DOMAIN mappings : Got(given[j][1]).key = key(i)}
      endpoint(i) == IF named(i) = {} THEN [host |-> Got(known[i]).host, port |-> port]
                     ELSE Got(given[CHOOSE j \in named(i) : TRUE][2])
  IN IF \/ port = 0 \/ workers = <<>>
        \/ \E i \in DOMAIN known : known[i].err
        \/ \E j \in DOMAIN given : given[j][1].err \/ given[j][2].err
     THEN Fail
     ELSE IF \/ \E i, j \in DOMAIN given : i # j /\ Got(given[i][1]).key = Got(given[j][1]).key
             \/ \E i, j \in DOMAIN known : i # j /\ (key(i) = key(j) \/ endpoint(i) = endpoint(j))
             \/ \E j \in DOMAIN given : \A i \in DOMAIN known : j \notin named(i)
          THEN Fail
          ELSE Ok({[i \in DOMAIN workers |-> <<workers[i], endpoint(i)>>]})

-----------------------------------------------------------------------------
(* Discovery.  An entry of /kv_event_sources is [rank, wire, enabled,       *)
(* endpoint, replay]: rank NoRank for a key that is no number (or a gRPC    *)
(* source without one), wire whether publisher, encoding and schema version *)
(* are the ones the subscriber decodes, endpoint [scheme, host, port].      *)
NoRank == -1

EventsEnabled(entry) == entry.wire /\ entry.enabled # {FALSE} /\ entry.endpoint.host # ""

(* A bind address names every interface: the worker's host takes its place. *)
ResolveEndpoint(endpoint, host) ==
  IF endpoint.scheme = "tcp" /\ endpoint.host \in {"*", "0.0.0.0"} THEN [endpoint EXCEPT !.host = host] ELSE endpoint

ServerModelId(info) ==
  OrElse({i \in info.model : i # ""}, {i \in {Last(p) : p \in info.path} : i # ""})

DiscoveredBlockSize(info) == OrElse({n \in info.size : n > 0}, {n \in info.attention : n > 0})

NoInfo == [instance |-> {}, size |-> {}, attention |-> {}, model |-> {}, path |-> {}]

(* d = [grpc, server, models, sources], each answer a set of at most one:   *)
(* over HTTP the model is part of the server's answer, over gRPC its own.   *)
ModelOf(d, url) ==
  IF d.grpc THEN UNION {{m} \ {""} : m \in d.models}
  ELSE UNION {OrElse(ServerModelId(i), {url}) : i \in d.server}

OnWorkerDiscovered(d, url, host) ==
  LET info == IF d.server = {} THEN NoInfo ELSE CHOOSE i \in d.server : TRUE
      size == DiscoveredBlockSize(info)
      entries == UNION {{s[i] : i \in DOMAIN s} : s \in d.sources}
      usable == {e \in entries : EventsEnabled(e) /\ e.rank # NoRank}
      indexed == d.sources # {} /\ size # {} /\ ModelOf(d, url) # {}
  IN [instance |-> OrElse({i \in info.instance : i # ""}, {url}),
      size |-> size,
      key |-> IF indexed THEN ModelOf(d, url) \X size ELSE {},
      ranks |-> IF indexed
                THEN {[rank |-> e.rank, pub |-> ResolveEndpoint(e.endpoint, host),
                       replay |-> {ResolveEndpoint(r, host) : r \in e.replay}] : e \in usable}
                ELSE {}]

-----------------------------------------------------------------------------
(* Complete blocks have one hash exactly when they hold the same tokens for *)
(* the same adapter, wherever they stand and however long the prompts are:  *)
(* what a worker stores is found by the requests that share it, and by no   *)
(* request of another adapter.                                              *)
BlocksAgree ==
  Calling("blocks") =>
    LET a == LocalBlockHashes(call.a, call.size, call.loraA)
        b == LocalBlockHashes(call.b, call.size, call.loraB)
        whole(s) == 1 .. Len(s) \div call.size
        block(s, i) == [j \in 1 .. call.size |-> s[(i - 1) * call.size + j]]
    IN \A i \in whole(call.a), j \in whole(call.b) :
         a[i] = b[j] <=> call.loraA = call.loraB /\ block(call.a, i) = block(call.b, j)

(* A resolved mapping is one to one: every registered URL has an endpoint,  *)
(* no two workers listen to one publisher however its address is spelled,   *)
(* and every configured mapping is in use.                                  *)
EndpointsAreOneToOne ==
  Calling("endpoints") =>
    LET r == ResolveEndpoints(call.workers, call.mappings, call.port)
        same(x, y) == x.port = y.port /\ x.host.id = y.host.id /\ {x.host.kind, y.host.kind} \subseteq {"v4", "mapped"}
    IN ~r.err => \A s \in r.got :
         /\ [i \in DOMAIN s |-> s[i][1]] = call.workers
         /\ \A i, j \in DOMAIN s : i # j => s[i][2] # s[j][2] /\ ~same(s[i][2], s[j][2])
         /\ \A k \in DOMAIN call.mappings : \E i \in DOMAIN s : s[i][2].port = call.mappings[k][2].port

(* Only a worker with a complete cache identity is subscribed to, on ranks  *)
(* that emit what the subscriber decodes, and never at a bind address.      *)
SubscriptionsAreReachable ==
  Calling("discovery") =>
    LET w == OnWorkerDiscovered(call.d, call.url, call.host)
    IN /\ w.ranks # {} => Cardinality(w.key) = 1
       /\ w.instance # {}
       /\ \A r \in w.ranks : /\ r.pub.host \notin {"*", "0.0.0.0"}
                             /\ \A x \in r.replay : x.host \notin {"*", "0.0.0.0"}
                             /\ r.rank # NoRank

=============================================================================
