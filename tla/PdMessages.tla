----------------------------- MODULE PdMessages -----------------------------
(***************************************************************************)
(* What the prefill-decode router does to the messages it passes on: the   *)
(* prompt logprobs of prefill merged into the reply of decode, the encoder *)
(* stage's rewrite of multimodal requests, the one-token prefill request,  *)
(* and the choice of the pair.                                             *)
(***************************************************************************)
EXTENDS Integers, Sequences, SequencesExt, FiniteSets, FiniteSetsExt, ControlPlane

-----------------------------------------------------------------------------
(* logprobs_merge.rs.  A field is {} when absent, {Null} or {Arr(s)}.       *)

Arr(s) == [t |-> "arr", v |-> s]

AsArray(field) == {x.v : x \in {y \in field : y.t = "arr"}}

Some(S) == CHOOSE x \in S : TRUE

(* Prefill generates one token of its own behind the prompt.                *)

PromptOnly(s, n) == SubSeq(s, 1, Min({n, Len(s)}))

(* One array of choice.logprobs, when both replies have it.                 *)
Joined(pre, dec, n) ==
  IF AsArray(pre) = {} \/ AsArray(dec) = {} THEN dec
  ELSE {Arr(PromptOnly(Some(AsArray(pre)), n) \o Some(AsArray(dec)))}

(* Where the text of decode starts: after the last prompt token, if prefill *)
(* names it.  A token is [text, chars, bytes]; the length added is that in  *)
(* bytes.                                                                   *)
BaseOffset(offsets, tokens, n) ==
  Last(offsets) + (IF n > 0 /\ \E ts \in AsArray(tokens) : Len(ts) >= n
                   THEN Some(AsArray(tokens))[n].bytes ELSE 0)

Shifted(s, base) == [i \in DOMAIN s |-> s[i] + base]

JoinedOffsets(pre, dec, tokens, n) ==
  IF AsArray(pre) = {} \/ AsArray(dec) = {} THEN dec
  ELSE LET p == PromptOnly(Some(AsArray(pre)), n)
           d == Some(AsArray(dec))
       IN {Arr(p \o (IF p = <<>> THEN d ELSE Shifted(d, BaseOffset(p, tokens, n))))}

MergedLogprobs(pre, dec, n) ==
  [token_logprobs |-> Joined(pre.token_logprobs, dec.token_logprobs, n),
   tokens |-> Joined(pre.tokens, dec.tokens, n),
   text_offset |-> JoinedOffsets(pre.text_offset, dec.text_offset, pre.tokens, n),
   top_logprobs |-> Joined(pre.top_logprobs, dec.top_logprobs, n)]

MergedChoice(pre, dec) ==
  LET n == IF AsArray(pre.prompt_logprobs) = {} THEN 0 ELSE Len(Some(AsArray(pre.prompt_logprobs)))
  IN [prompt_logprobs |-> OrElse(pre.prompt_logprobs, dec.prompt_logprobs),
      logprobs |-> {IF pre.logprobs = {} THEN d ELSE MergedLogprobs(Some(pre.logprobs), d, n) : d \in dec.logprobs}]

(* merge_logprobs_in_json: the Generate field, the Chat field and the       *)
(* choices, as far as both replies have them.                               *)
MergeLogprobsInJson(pre, dec) ==
  [input |-> IF AsArray(pre.input) = {} \/ AsArray(dec.input) = {} THEN dec.input
             ELSE {Arr(Some(AsArray(pre.input)) \o Some(AsArray(dec.input)))},
   prompt_logprobs |-> OrElse(pre.prompt_logprobs, dec.prompt_logprobs),
   choices |-> [i \in DOMAIN dec.choices |->
                 IF i \in DOMAIN pre.choices THEN MergedChoice(pre.choices[i], dec.choices[i])
                 ELSE dec.choices[i]]]

(* What an engine reports of a text: tokens with the offsets they start at, *)
(* in characters.                                                           *)
OffsetsOf(ts) == [i \in DOMAIN ts |-> FoldLeft(LAMBDA a, t : a + t.chars, 0, SubSeq(ts, 1, i - 1))]

ReportOf(ts, has) ==
  [token_logprobs |-> {Arr([i \in DOMAIN ts |-> ts[i].text])},
   tokens |-> IF "tokens" \in has THEN {Arr(ts)} ELSE {Null},
   text_offset |-> {Arr(OffsetsOf(ts))},
   top_logprobs |-> IF "top" \in has THEN {Arr([i \in DOMAIN ts |-> ts[i].text])} ELSE {Null}]

ReplyOf(prompt, ts, has) ==
  [input |-> {}, prompt_logprobs |-> {},
   choices |-> <<[prompt_logprobs |-> IF prompt = <<>> THEN {} ELSE {Arr(prompt)},
                  logprobs |-> {ReportOf(ts, has)}]>>]

(* merge_logprobs_in_json: prefill's report of the prompt and its one       *)
(* output token, joined with decode's report of the output, is the report   *)
(* of the whole text: every array of the same length, offsets contiguous.   *)
(* After a last prompt token of longer characters the offsets of the output *)
(* are too large by its bytes beyond its characters.  Without the tokens of *)
(* prefill the length of the last one is not known.                         *)
MergedReportIsOfTheWholeText ==
  Calling("merge") /\ "tokens" \in call.has =>
    LET all == call.prompt \o call.output
        slip == IF call.prompt = <<>> THEN 0 ELSE Last(call.prompt).bytes - Last(call.prompt).chars
        offsets == [i \in DOMAIN all |-> OffsetsOf(all)[i] + IF i > Len(call.prompt) THEN slip ELSE 0]
    IN MergeLogprobsInJson(ReplyOf(call.prompt, call.prompt \o <<call.output[1]>>, call.has),
                           ReplyOf(<<>>, call.output, call.has)).choices[1].logprobs
         = {[ReportOf(all, call.has) EXCEPT !.text_offset = {Arr(offsets)}]}

-----------------------------------------------------------------------------
(* The encoder stage.  A content part is [kind, id]; its position is its    *)
(* message and content index as one number, its transfer id is its position.*)

MediaKinds == {"image_url", "video_url", "audio_url"}
EmbedKinds == {"image_embeds", "video_embeds", "audio_embeds"}

PartsOfKind(parts, Kinds) == SelectSeq([i \in DOMAIN parts |-> i], LAMBDA i : parts[i].kind \in Kinds)

(* collect_media_items: an empty URL refuses the request.                   *)
CollectMediaItems(parts) ==
  IF \E i \in DOMAIN parts : parts[i].kind \in MediaKinds /\ parts[i].id = "" THEN Fail
  ELSE Ok({PartsOfKind(parts, MediaKinds)})

(* Round robin over the encoders from start; the images of one encoder are  *)
(* one call, other media a call each.  items are positions.                 *)
Groups(parts, items, start, encoders) ==
  LET encoderOf(n) == (start + n - 1) % encoders
      isImage(n) == parts[items[n]].kind = "image_url"
      add(gs, n) ==
        LET mine == {g \in DOMAIN gs : gs[g].images /\ gs[g].encoder = encoderOf(n)} IN
        IF isImage(n) /\ mine # {}
        THEN [gs EXCEPT ![Some(mine)].items = Append(@, items[n])]
        ELSE Append(gs, [encoder |-> encoderOf(n), images |-> isImage(n), items |-> <<items[n]>>])
  IN FoldLeft(add, <<>>, [n \in DOMAIN items |-> n])

(* encode_group: a failed call or an unreadable reply fails the request.    *)
EncodeGroup(replies, g) == replies[g]

(* The hash an encoder files an embedding under: of the content id, or of   *)
(* the content id and the processing options.                               *)
HashOf(id, rehashed) == [of |-> id, rehashed |-> rehashed]

(* flatten_metadata: rows of numbers become one array; anything else fails. *)
FlattenMetadata(rows) ==
  LET flat == FlattenSeq(rows) IN IF "other" \in ToSet(flat) THEN Fail ELSE Ok({flat})

(* The places a reply names, in the order of the reply; a batch only.       *)
Named(params, n) ==
  IF n <= 1 THEN <<>>
  ELSE FlattenSeq([h \in DOMAIN params |-> [k \in DOMAIN params[h].at |-> <<params[h].at[k], h>>]])

BadPlaces(params, n) ==
  LET named == Named(params, n) IN
  \/ \E k \in DOMAIN named : named[k][1] \notin 1 .. n
  \/ \E j, k \in DOMAIN named : j # k /\ named[j][1] = named[k][1]

(* Which entry of the reply is the embedding of the local-th item: by place,*)
(* by content id, or the only one of a single item.                         *)
EntryOf(params, n, local, id) ==
  LET named == Named(params, n) IN
  OrElse({named[k][2] : k \in {j \in DOMAIN named : named[j][1] = local}},
  OrElse({h \in DOMAIN params : params[h].hash = HashOf(id, FALSE)},
         IF n = 1 /\ Len(params) = 1 THEN {1} ELSE {}))

EmbedKind(kind) ==
  IF kind = "image_url" THEN "image_embeds" ELSE IF kind = "video_url" THEN "video_embeds" ELSE "audio_embeds"

(* One item: rewritten with metadata, kept with its transfer without, kept  *)
(* without a transfer when it is not reported.                              *)
Rewritten(parts, i, params, n, local) ==
  LET e == EntryOf(params, n, local, parts[i].id) IN
  [at |-> i,
   part |-> IF \E h \in e : params[h].metadata # <<>> THEN [kind |-> EmbedKind(parts[i].kind), id |-> parts[i].id]
            ELSE parts[i],
   err |-> \E h \in e : FlattenMetadata(params[h].metadata).err,
   transfer |-> {[hash |-> params[h].hash, id |-> i] : h \in e}]

(* Transfers by position; the caller's own entries go to the embeds of the  *)
(* request when there is one for each, else in front.                       *)
EcItems(previous, embeds, transfers) ==
  LET paired == Len(previous) = Len(embeds)
      all == transfers \o (IF paired THEN [k \in DOMAIN embeds |-> <<embeds[k], previous[k]>>] ELSE <<>>)
      sorted == SortSeq(all, LAMBDA a, b : a[1] < b[1])
  IN (IF paired THEN <<>> ELSE previous) \o [k \in DOMAIN sorted |-> sorted[k][2]]

(* One group: what its reply reports of each of its items.                  *)
Encoded(parts, items, reply) ==
  [k \in DOMAIN items |->
     IF reply.got = {} THEN [at |-> items[k], part |-> parts[items[k]], err |-> FALSE, transfer |-> {}]
     ELSE Rewritten(parts, items[k], Some(reply.got), Len(items), k)]

(* The rewritten request; where no consumer has a control address nothing   *)
(* is left to release.                                                      *)
Assembled(parts, previous, consumer, done, handed) ==
  [parts |-> [i \in DOMAIN parts |->
                CHOOSE p \in OrElse({done[k].part : k \in {j \in DOMAIN done : done[j].at = i}}, {parts[i]}) : TRUE],
   ec_items |-> IF handed = <<>> THEN previous
                ELSE EcItems(previous, PartsOfKind(parts, EmbedKinds),
                             [k \in DOMAIN handed |-> <<handed[k].at, Some(handed[k].transfer)>>]),
   pending |-> IF consumer = "none mapped" THEN {} ELSE {handed[k].at : k \in DOMAIN handed}]

RewriteAll(parts, previous, consumer, done) ==
  IF \E k \in DOMAIN done : done[k].err THEN Fail
  ELSE Ok({Assembled(parts, previous, consumer, done, SelectSeq(done, LAMBDA d : d.transfer # {}))})

EncodeAll(parts, previous, consumer, groups, replies) ==
  IF \E g \in DOMAIN groups : EncodeGroup(replies, g).err
       \/ \E p \in EncodeGroup(replies, g).got : BadPlaces(p, Len(groups[g].items)) THEN Fail
  ELSE RewriteAll(parts, previous, consumer,
         FlattenSeq([g \in DOMAIN groups |-> Encoded(parts, groups[g].items, EncodeGroup(replies, g))]))

(* prepare.  A reply is [err, got] of {} (no report) or the entries of      *)
(* ec_transfer_params, [hash, at, metadata].  A consumer that has no        *)
(* control address where others have one is refused.                        *)
PrepareEncoded(parts, previous, start, encoders, consumer, replies) ==
  LET collected == CollectMediaItems(parts)
      items == Some(collected.got)
  IN IF collected.err \/ (items # <<>> /\ consumer = "unmapped") THEN Fail
     ELSE EncodeAll(parts, previous, consumer, Groups(parts, items, start, encoders), replies)

(* An encoder that reports every item it was given under the hash of its    *)
(* content, rehashed or not, in any order of its own.                       *)
Honest(parts, items, style) ==
  LET ids == {parts[items[k]].id : k \in DOMAIN items}
      entry(id) == [hash |-> HashOf(id, style = "rehash"),
                    at |-> IF style = "uuid" THEN <<>>
                           ELSE SelectSeq([k \in DOMAIN items |-> k], LAMBDA k : parts[items[k]].id = id),
                    metadata |-> IF id = "bare" THEN <<>> ELSE <<<<"1">>, <<"2", "3">>>>]
  IN [h \in DOMAIN SetToSeq(ids) |-> entry(SetToSeq(ids)[Len(SetToSeq(ids)) - h + 1])]

(* prepare: with honest encoders every media part is handed over under its  *)
(* own transfer and the hash of its own content, ec_items follow the order  *)
(* of the parts they belong to with the caller's own embeds in their places,*)
(* and what stays pending is what was handed over.                          *)
TransfersFollowTheParts ==
  Calling("encode") /\ ~CollectMediaItems(call.parts).err =>
    LET items == PartsOfKind(call.parts, MediaKinds)
        groups == Groups(call.parts, items, call.start, call.encoders)
        replies == [g \in DOMAIN groups |-> Ok({Honest(call.parts, groups[g].items, call.style)})]
        embeds == PartsOfKind(call.parts, EmbedKinds)
        own == [k \in DOMAIN embeds |-> [hash |-> HashOf("own", FALSE), id |-> embeds[k]]]
    IN items # <<>> =>
         \E out \in PrepareEncoded(call.parts, own, call.start, call.encoders, "mapped", replies).got :
           /\ [k \in DOMAIN out.ec_items |-> out.ec_items[k].id]
                = PartsOfKind(call.parts, MediaKinds \cup EmbedKinds)
           /\ \A k \in DOMAIN out.ec_items :
                out.ec_items[k].hash.of \in {call.parts[out.ec_items[k].id].id, "own"}
           /\ out.pending = ToSet(items)

-----------------------------------------------------------------------------
(* The prefill leg asks for one token, not streamed, in the fields of its   *)
(* endpoint.  A request is the fields it sets, 0 when absent.               *)

LimitedTo1(f, path) ==
  CASE path = "inference" -> f \in {"sampling_max_tokens", "sampling_min_tokens"}
    [] path = "responses" -> f = "max_output_tokens"
    [] OTHER -> f \in {"max_tokens", "max_completion_tokens", "min_tokens"}

PreparePrefillRequest(req, path) ==
  [f \in DOMAIN req |->
     IF f \in {"stream", "stream_options"} THEN 0
     ELSE IF LimitedTo1(f, path) /\ (f # "max_completion_tokens" \/ req[f] > 0) THEN 1
     ELSE req[f]]

(* The limit the engine applies to the endpoint (external).                 *)
EngineLimit(req, path) ==
  CASE path = "inference" -> req.sampling_max_tokens
    [] path = "responses" -> req.max_output_tokens
    [] path = "chat" -> IF req.max_completion_tokens > 0 THEN req.max_completion_tokens ELSE req.max_tokens
    [] OTHER -> req.max_tokens

(* prepare_prefill_request: whatever limits the client set, prefill is      *)
(* asked for exactly one token and one JSON reply, and the fields that do   *)
(* not belong to the endpoint are left as they were.                        *)
PrefillIsOneToken ==
  Calling("prefill") =>
    LET r == PreparePrefillRequest(call.req, call.path) IN
    /\ EngineLimit(r, call.path) = 1
    /\ r.stream = 0 /\ r.stream_options = 0
    /\ call.path = "responses" => r.max_tokens = call.req.max_tokens
    /\ call.path = "inference" => r.min_tokens = call.req.min_tokens

-----------------------------------------------------------------------------
(* Choosing the pair.  A policy answers with any worker that is healthy     *)
(* with a closed breaker, or with none when there is none; cache_aware,     *)
(* once there is one, may answer with any healthy worker that the text is   *)
(* cached on, whatever its breaker.  {} stands for the 503 answers.         *)
PolicyChoices(policy, workers) ==
  LET available == {i \in DOMAIN workers : Available(workers[i])}
  IN IF available # {} /\ policy = "cache_aware" THEN {i \in DOMAIN workers : workers[i].healthy}
     ELSE available

ServersOf(workers, role) == SelectSeq(workers, LAMBDA w : w.role = role)

PairsOf(router, P, D) ==
  {<<P[i].url, D[j].url>> : i \in PolicyChoices(router.policy.prefill, P), j \in PolicyChoices(router.policy.decode, D)}

(* instances_to_workers: fresh workers, healthy and closed                  *)
InstancesToWorkers(instances) ==
  [i \in DOMAIN instances |-> [url |-> instances[i], healthy |-> TRUE, closed |-> TRUE]]

DiscoveredPairs(router) ==
  PairsOf(router, InstancesToWorkers(router.instances.prefill), InstancesToWorkers(router.instances.decode))

(* route_chat: among all the workers of a role                              *)
RouteChatPairs(router) ==
  IF router.discovery THEN DiscoveredPairs(router)
  ELSE PairsOf(router, ServersOf(router.workers, "prefill"), ServersOf(router.workers, "decode"))

(* route_completion: written out again, the same choice                     *)
RouteCompletionPairs(router) ==
  IF router.discovery THEN DiscoveredPairs(router)
  ELSE PairsOf(router, ServersOf(router.workers, "prefill"), ServersOf(router.workers, "decode"))

(* route_transparent, and through it generate, responses and rerank: among  *)
(* the available workers of a role                                          *)
RouteTransparentPairs(router, post) ==
  IF ~post THEN {}
  ELSE IF router.discovery THEN DiscoveredPairs(router)
  ELSE PairsOf(router, SelectSeq(ServersOf(router.workers, "prefill"), Available),
                       SelectSeq(ServersOf(router.workers, "decode"), Available))

(* readiness asks the worker registry, where discovery enters nothing.      *)
VllmReadiness(router) == PdReadiness(IF router.discovery THEN <<>> ELSE router.workers)

(* health: discovery counts its instances, direct mode every worker         *)

PdHealthy(router) ==
  IF router.discovery THEN router.instances.prefill # <<>> /\ router.instances.decode # <<>>
  ELSE \A i \in DOMAIN router.workers : router.workers[i].healthy

(* health and the routes: a router that reports healthy has a pair for the  *)
(* request in every mode, as long as it has workers of both roles with a    *)
(* closed breaker; every way in finds a pair or none does.  The transparent *)
(* way in never takes a worker whose breaker is open, the others take one   *)
(* only where the role's policy is cache_aware and another is closed.  A    *)
(* router with registered workers that finds a pair is ready; one that      *)
(* discovers them never says so, whatever it serves.                        *)
HealthyRoutersFindAPair ==
  Calling("pair") =>
    LET r == call.router
        usable == \A role \in {"prefill", "decode"} : \E i \in DOMAIN r.workers :
                    r.workers[i].role = role /\ r.workers[i].closed
        chat == RouteChatPairs(r)
        transparent == RouteTransparentPairs(r, TRUE)
        aware == "cache_aware" \in {r.policy.prefill, r.policy.decode}
        closed == {r.workers[i].url : i \in {j \in DOMAIN r.workers : r.workers[j].closed}}
    IN /\ PdHealthy(r) /\ (r.discovery \/ usable) => chat # {}
       /\ chat = {} <=> transparent = {}
       /\ transparent \subseteq chat /\ RouteCompletionPairs(r) = chat
       /\ ~r.discovery => transparent \subseteq closed \X closed
       /\ ~aware => transparent = chat
       /\ chat # {} => VllmReadiness(r) = IF r.discovery THEN 503 ELSE 200
=============================================================================
