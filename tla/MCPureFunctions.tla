---------------------------- MODULE MCPureFunctions ---------------------------
(***************************************************************************)
(* The pure functions of the router, one call per behaviour.  Every set    *)
(* below is a small space of arguments the program can be given.           *)
(***************************************************************************)
EXTENDS KvMatching, RouterConfig, ControlPlane, ProgramIdentity, ProgressTtl,
        WorkerChoice, ApiRequests, PdMessages, Gateway, TokenStreams

-----------------------------------------------------------------------------
(* Configuration: one default set of options and small changes to it.       *)
Url(scheme, id) == [scheme |-> scheme, id |-> id]

Tuning == [threshold |-> 5, rel |-> 10, interval |-> 1, size |-> 1, temperature |-> 0, penalty |-> 8]

Scheduling ==
  [parses |-> TRUE, strategy |-> "rendezvous", capacity |-> {}, queue |-> 8, force |-> 4,
   positive |-> 1, nonnegative |-> 0, alpha |-> 5, count |-> 1, headroom |-> 10,
   low |-> 7, high |-> 8]

Options ==
  [igw |-> FALSE, openai |-> FALSE, pd |-> FALSE, workers |-> <<Url("http", 1)>>,
   prefill |-> <<>>, decode |-> <<>>, address |-> FALSE, k8s |-> FALSE, k8sPort |-> 80,
   selector |-> <<>>, pSelector |-> <<>>, dSelector |-> <<>>, policy |-> "cache_aware",
   pPolicy |-> {}, dPolicy |-> {}, tuning |-> Tuning, server |-> [port |-> 1, timeout |-> 1],
   dp |-> 1, connector |-> "nixl", schedule |-> FALSE, json |-> {}, defaults |-> Scheduling,
   epd |-> {}, metrics |-> [port |-> 1, host |-> "h"], noRetries |-> FALSE, noBreaker |-> FALSE,
   retry |-> [max |-> 3, initial |-> 1, cap |-> 2, multiplier |-> 15, jitter |-> 2],
   breaker |-> [failure |-> 1, success |-> 1, timeout |-> 1, window |-> 1]]

(* Which mode, from which sources of workers.                               *)
ModeOptions ==
  {[Options EXCEPT !.igw = igw, !.openai = openai, !.pd = pd, !.workers = w, !.prefill = p,
       !.decode = d, !.address = a, !.k8s = k, !.selector = s, !.pSelector = ps, !.dSelector = ds] :
     igw \in BOOLEAN, openai \in BOOLEAN, pd \in BOOLEAN, a \in BOOLEAN, k \in BOOLEAN,
     w \in {<<>>, <<Url("http", 1)>>, <<Url("http", 1), Url("grpc", 2)>>},
     p \in {<<>>, <<[url |-> Url("http", 3), port |-> 1]>>}, d \in {<<>>, <<Url("http", 4)>>},
     s \in {<<>>, <<"app">>}, ps \in {<<>>, <<"role">>, <<"bare">>}, ds \in {<<>>, <<"role">>}}

Repeat(x, n) == [i \in 1 .. n |-> x]

PdOptions ==
  {[Options EXCEPT !.igw = igw, !.pd = TRUE, !.prefill = Repeat([url |-> Url("http", 3), port |-> 1], n),
       !.decode = Repeat(Url("http", 4), m), !.address = a, !.policy = main, !.pPolicy = pp,
       !.dPolicy = dp, !.connector = kv, !.k8s = k, !.pSelector = IF k THEN <<"role">> ELSE <<>>] :
     igw \in BOOLEAN, a \in BOOLEAN, k \in BOOLEAN, n \in 1 .. 2, m \in 1 .. 2,
     main \in {"round_robin", "kv_aware", "power_of_two"}, pp \in {{}, {"kv_aware"}, {"power_of_two"}},
     dp \in {{}, {"kv_aware"}}, kv \in {"nixl", "moriio", "unknown"}}

NumberOptions ==
  {[Options EXCEPT !.tuning[f] = v] : f \in DOMAIN Tuning, v \in {0, 5, 11, NaN, Infinite}}
  \cup {[Options EXCEPT !.retry[f] = v, !.noRetries = off] :
          f \in DOMAIN Options.retry, v \in {0, 1, 5, 10, 11}, off \in BOOLEAN}
  \cup {[Options EXCEPT !.breaker[f] = 0, !.noBreaker = off] :
          f \in DOMAIN Options.breaker, off \in BOOLEAN}
  \cup {[Options EXCEPT !.server[f] = 0] : f \in DOMAIN Options.server}
  \cup {[Options EXCEPT !.metrics = [port |-> n, host |-> h]] :
          n \in {-1, 0, 1}, h \in {"unset", "", "h"}}
  \cup {[Options EXCEPT !.k8s = TRUE, !.selector = <<"app">>, !.k8sPort = 0]}

SchedulingOptions ==
  {[Options EXCEPT !.schedule = on, !.json = json, !.pd = pd, !.address = pd] :
     on \in BOOLEAN, pd \in BOOLEAN,
     json \in {{}} \cup {{[Scheduling EXCEPT ![f] = v]} :
                          f \in DOMAIN Scheduling \ {"parses", "strategy", "capacity"},
                          v \in {-1, 0, 1, 7, 9, 11, NaN, Infinite}}
                   \cup {{[Scheduling EXCEPT !.strategy = "reasoning_token_balance", !.capacity = n]} :
                          n \in {{}, {0}, {1}}}
                   \cup {{[Scheduling EXCEPT !.parses = FALSE]}}}

EpdOptions ==
  {[Options EXCEPT !.workers = w, !.pd = pd, !.prefill = [i \in DOMAIN w |-> [url |-> w[i], port |-> 1]],
       !.decode = <<Url("http", 4)>>, !.dp = dp, !.epd = {[encoders |-> e, addrs |-> a]}] :
     pd \in BOOLEAN, dp \in 1 .. 2,
     w \in {<<Url("http", 1)>>, <<Url("http", 1), Url("http", 2)>>, <<Url("grpc", 1)>>},
     e \in {<<>>, <<Url("http", 9)>>, <<Url("grpc", 9)>>},
     a \in {<<>>} \cup {<<[url |-> Url("http", n), tcp |-> t]>> : n \in 1 .. 2, t \in BOOLEAN}
             \cup {<<[url |-> Url("http", 1), tcp |-> TRUE], [url |-> Url("http", n), tcp |-> TRUE]>> :
                     n \in 2 .. 3}}

UrlOptions ==
  {[Options EXCEPT !.workers = <<Url(s, n)>>, !.openai = openai] :
     s \in {"http", "https", "grpc", "grpcs", "other"}, n \in 0 .. 1, openai \in BOOLEAN}
  \cup {[Options EXCEPT !.pd = TRUE, !.prefill = <<[url |-> Url(s, 1), port |-> n]>>,
           !.decode = <<Url(t, 2)>>] : s \in {"http", "grpc"}, t \in {"http", "grpc"}, n \in {-1, 0, 1}}

CallConfig ==
  \E o \in ModeOptions \cup PdOptions \cup NumberOptions \cup SchedulingOptions
             \cup EpdOptions \cup UrlOptions :
    call' = [fn |-> "config", o |-> o]

MaxWords == 5
Words == {"--prefill", "flag", "url", "none", "port", "large"}

CallSplit == \E n \in 0 .. MaxWords : \E w \in [1 .. n -> Words] : call' = [fn |-> "split", words |-> w]

-----------------------------------------------------------------------------
(* KV-aware scoring: blocks of Size tokens, prompts up to MaxInput tokens.  *)
MaxInput == 8
Size == 4

Hits == [tier : {"Device", "HostPinned", "Disk"}, start : 0 .. 1, end : 2 .. 3]

CallScore ==
  \E input \in 0 .. MaxInput : \E n \in 0 .. 2 : \E hits \in [1 .. n -> Hits] :
    call' = [fn |-> "score", hits |-> hits, input |-> input, size |-> Size]

Worker == [healthy : BOOLEAN, size : {Size}, tokens : {0, 5}, requests : 0 .. 1, load : {0, 2},
           hits : {<<>>, <<[tier |-> "Device", start |-> 0, end |-> 2]>>}]

CallSelect ==
  \E n \in 1 .. 2 : \E workers \in [1 .. n -> Worker] :
    \E input \in {0, MaxInput}, salted \in BOOLEAN, hot \in BOOLEAN :
      call' = [fn |-> "select", workers |-> workers, input |-> input, salted |-> salted, hot |-> hot]

-----------------------------------------------------------------------------
(* Control plane: two hosts, two ranks, up to three workers.                *)
CpHosts == 1 .. 2
WorkerUrls == [host : CpHosts, parts : {<<>>, <<0>>, <<1>>}]
Healths == {[healthy |-> TRUE, closed |-> TRUE], [healthy |-> TRUE, closed |-> FALSE],
            [healthy |-> FALSE, closed |-> TRUE]}

SeqsUpTo(S, n) == UNION {[1 .. k -> S] : k \in 0 .. n}

CallStart ==
  \E urls \in SeqsUpTo(WorkerUrls, 2), up \in [1 .. 2 -> SUBSET {Bare(h) : h \in CpHosts}], dp \in 1 .. 2 :
    call' = [fn |-> "start", urls |-> urls, up |-> up, dp |-> dp]

CallGet ==
  \/ \E workers \in SeqsUpTo({[url |-> u] @@ h @@ [role |-> "prefill", model |-> "m"] :
                                  u \in WorkerUrls, h \in Healths}, 2),
       answer \in [CpHosts -> {200, 404, 503, 0, -1}] :
         call' = [fn |-> "get", workers |-> workers, answer |-> answer]
  \/ \E workers \in [1 .. 3 -> {[url |-> Bare(1)] @@ h @@ [role |-> r, model |-> m] :
                                   h \in Healths, r \in {"prefill", "decode"}, m \in {"m", "n"}}] :
         call' = [fn |-> "get", workers |-> workers, answer |-> [h \in CpHosts |-> 200]]

CallLoads ==
  \E urls \in SeqsUpTo(WorkerUrls, 2), reports \in [CpHosts -> {-1, 0, 3}] :
    call' = [fn |-> "loads", urls |-> urls, reports |-> reports]

CallRerank ==
  \E n \in 0 .. 4 : \E scores \in [1 .. n -> 0 .. 2], topK \in -1 .. 4 :
    call' = [fn |-> "rerank", topK |-> topK,
             results |-> [i \in 1 .. n |-> [index |-> i, score |-> scores[i], document |-> TRUE]]]

-----------------------------------------------------------------------------
(* Hash keys and Program identity.                                          *)
HeaderNames ==
  ToSet(SessionHeaderNames)
    \cup {"x-claude-code-session-id", "x-claude-code-agent-id", "x-claude-code-parent-agent-id",
          "session-id", "thread-id"}

NoHeaders == [n \in HeaderNames |-> Absent]

(* Values that are no field's name, and one that is.                        *)
BodyValues ==
  [role |-> {"m", "user", "session_id", "session_params"}, session_params |-> {"s1", "user"}, user |-> {"u1", "session_id"},
   session_id |-> {"s2", "user_id"}, user_id |-> {"u2"}]

Bodies(fs) == {[i \in DOMAIN fs |-> [f |-> fs[i], v |-> v[fs[i]]]] :
                 v \in [ToSet(fs) -> UNION {BodyValues[f] : f \in ToSet(fs)}]}

CallKey ==
  \E S \in {T \in SUBSET DOMAIN BodyValues : Cardinality(T) <= 4} : \E fs \in SetToSeqs(S) :
    \E fields \in {b \in Bodies(fs) : \A i \in DOMAIN b : b[i].v \in BodyValues[b[i].f]},
       session \in {Absent, Blank, <<"a">>}, tenant \in {Absent, Blank, <<"b">>} :
      call' = [fn |-> "key", fields |-> fields,
               headers |-> [NoHeaders EXCEPT !["x-session-id"] = session, !["x-tenant-id"] = tenant]]

Str(id) == [t |-> "str", v |-> id]

(* Agents with and without their session's prefix, and with nothing after.  *)
Agents == {Absent, Blank, Lead, <<"a">>, <<"s", "a">>, <<"s", "">>, <<"s", "a", "b", "c">>, Unreadable}

HeaderIdentities ==
  {[NoHeaders EXCEPT ![f[1]] = s, ![f[2]] = a, ![f[3]] = p, !["x-request-id"] = r] :
     f \in {Frameworks[1], <<"session-id", "thread-id", "x-user-id">>, <<"x-session-id", "x-user-id", "x-trace-id">>},
     s \in {Absent, Blank, <<"s">>, <<"s", "t">>}, a \in Agents, p \in {Absent, <<"a">>, Lead},
     r \in {Absent, <<"r1">>}}

Keyed(k, values) == {<<>>} \cup {k :> v : v \in values}

Contexts ==
  {p @@ t @@ s @@ a @@ r @@ b :
     p \in Keyed("program_id", {Str(<<"s", "a">>), Str(<<"p">>)}),
     t \in Keyed("task_id", {Str(<<"t">>), [t |-> "int", n |-> 7], Null, Str(<<>>)}),
     s \in Keyed("session_id", {Str(<<"s">>)}),
     a \in Keyed("agent_id", {Str(<<"a">>), Str(<<"t", "a">>), Str(Lead), Str(<<"a", "b", "c">>)}),
     r \in Keyed("agent_role", {Str(Subagent)}) \cup Keyed("parent_agent_id", {Str(<<"t", "b">>)})
            \cup Keyed("parent_program_id", {Str(<<"s", "a">>), Str(<<"q", "r", "s", "t">>)}),
     b \in Keyed("blocks_parent", {[t |-> "bool", b |-> TRUE], [t |-> "bool", b |-> FALSE]})
            \cup Keyed("deadline", {[t |-> "int", n |-> -1]}) \cup Keyed("request_id", {Str(<<"r9">>)})}

Hints == [session_id |-> Str(<<"s">>)]

CallIdentity ==
  \/ \E h \in HeaderIdentities : call' = [fn |-> "identity", headers |-> h, req |-> <<>>]
  \/ \E c \in Contexts, h \in {NoHeaders, [NoHeaders EXCEPT !["x-session-id"] = <<"h">>, !["x-request-id"] = <<"r1">>]} :
       call' = [fn |-> "identity", headers |-> h, req |-> WithContext(c)]
  \/ \E p \in Keyed("parent_session_id", {Str(<<"s">>), Str(<<"u">>)}),
        b \in Keyed("blocks_parent", {[t |-> "bool", b |-> TRUE], [t |-> "bool", b |-> FALSE]}) :
       call' = [fn |-> "identity", headers |-> NoHeaders,
                req |-> [agent_hint |-> [t |-> "obj", v |-> Hints @@ p @@ b]]]

-----------------------------------------------------------------------------
(* Progress-TTL: windows of two samples, ranks of at most two Programs.     *)
Ttl == [window |-> 2, maxTtl |-> 3, maxRounds |-> 3, capacity |-> 12, low |-> 10, maxActive |-> 2,
        gain |-> TRUE, fixed |-> 4, step |-> 1, context |-> 0, intercept |-> 0, linear |-> 0,
        quadratic |-> 0, alpha |-> 10]

CallTtl ==
  \E intervals \in SeqsUpTo(0 .. 1, 2), impact \in 0 .. 4, utility \in [1 .. 4 -> -1 .. 1] :
    call' = [fn |-> "ttl", c |-> Ttl, intervals |-> intervals, impact |-> impact, utility |-> utility]

Windows ==
  {[i \in 1 .. n |-> [growth |-> g, completion |-> 2, decode |-> d, rounds |-> r]] :
     n \in 1 .. 2, g \in {{}, {1}, {2}}, d \in {{}, {8}}, r \in 0 .. 1}

CallAdmit ==
  \E w \in Windows, active \in SeqsUpTo([done : 0 .. 1, cost : {0, 4}, context : {1}, reasoning : BOOLEAN], 2),
     forced \in BOOLEAN :
    \/ \E used \in 0 .. 12, required \in {1, 3}, linear \in {0, 1} :
         call' = [fn |-> "admit", c |-> [Ttl EXCEPT !.linear = linear], window |-> w, busy |-> FALSE, forced |-> forced,
                  active |-> active, used |-> used, required |-> required, candidate |-> 1]
    \/ \E used \in {1, 13}, capacity \in {NoCapacity, 12}, busy \in BOOLEAN :
         call' = [fn |-> "admit", c |-> [Ttl EXCEPT !.capacity = capacity], window |-> w, busy |-> busy, forced |-> forced,
                  active |-> active, used |-> used, required |-> 1, candidate |-> 1]

MetricLines ==
  {[kind |-> "comment", name |-> "usage", engine |-> 0, value |-> {9}]}
    \cup [kind : {"series"}, name : {"usage", "other"}, engine : -1 .. 1, value : {{}, {1}}]

Scraped == <<[id |-> 1, base |-> 1, rank |-> -1], [id |-> 2, base |-> 2, rank |-> 0], [id |-> 3, base |-> 2, rank |-> 1]>>

CallScrape ==
  \E one \in {{}} \cup {{s} : s \in SeqsUpTo(MetricLines, 1)}, two \in {{}} \cup {{s} : s \in SeqsUpTo(MetricLines, 2)} :
    call' = [fn |-> "scrape", targets |-> Scraped, scrapes |-> <<one, two>>]

CallEstimate ==
  \E reports \in SeqsUpTo([actual : {0, 1, 90}, bytes : {0, 1, 10}], 2), bytes \in {0, 1, 10} :
    call' = [fn |-> "estimate", reports |-> reports, bytes |-> bytes]

-----------------------------------------------------------------------------
(* Policies: up to three workers, two virtual nodes, four ring positions.   *)
At(h) == [host |-> h, rank |-> -1]

Serving(urls, healthy) ==
  [i \in DOMAIN urls |-> [url |-> urls[i], healthy |-> healthy[i], closed |-> TRUE, load |-> 0]]

HashLists == {<<At(1), At(2)>>, <<[host |-> 1, rank |-> 0], [host |-> 1, rank |-> 1], At(2)>>}

CallHash ==
  \E urls \in HashLists : \E nodes \in {{0}, {0, 1}} :
    \E hash \in [ToSet(urls) \X nodes -> 0 .. IF Len(urls) = 3 /\ nodes = {0, 1} THEN 2 ELSE 3],
       healthy \in [DOMAIN urls -> BOOLEAN], key \in 0 .. 3 :
      call' = [fn |-> "hash", workers |-> Serving(urls, healthy), nodes |-> nodes, hash |-> hash, key |-> key,
               score |-> [u \in ToSet(urls) |-> hash[<<u, 0>>]]]

CallFurc ==
  \E m \in 1 .. 5, low \in [1 .. 2 -> 0 .. 1], mid \in [0 .. 3 -> 0 .. 1], deep \in [0 .. 5 -> 0 .. 1] :
    call' = [fn |-> "furc", m |-> m,
             bit |-> [d \in 0 .. 3 |-> IF d < 2 THEN [k \in 0 .. 1 |-> low[d + 1]] ELSE IF d = 2 THEN mid ELSE deep]]

CallTwo ==
  \E n \in 1 .. 3 : \E load \in [1 .. n -> 0 .. 1], state \in [1 .. n -> {0, 1, 2}], cached \in [1 .. n -> {{}, {0}, {2}}] :
    call' = [fn |-> "two",
             workers |-> [i \in 1 .. n |-> [url |-> i, healthy |-> state[i] # 1, closed |-> state[i] # 2, load |-> load[i]]],
             cached |-> cached]

CallCache ==
  \E n \in 1 .. 3 : \E load \in [1 .. n -> {0, 1, 3}], state \in [1 .. n -> {0, 1, 2}], known \in BOOLEAN,
     tenant \in 1 .. 4, matched \in {0, 1, 2} :
    call' = [fn |-> "cache", c |-> [absolute |-> 1, relative |-> 15, threshold |-> 5],
             workers |-> [i \in 1 .. n |-> [url |-> i, healthy |-> state[i] # 1, closed |-> state[i] # 2, load |-> load[i]]],
             match |-> [known |-> known, tenant |-> tenant, matched |-> matched, input |-> 2]]

CallBind ==
  \E n \in 1 .. 2 :
    \E programs \in [1 .. n -> 0 .. 1], tokens \in [1 .. n -> 0 .. 1], matched \in [1 .. n -> 0 .. 2],
       pressure \in [1 .. n -> {0, 5, 10}], open \in [1 .. n -> BOOLEAN], next \in 0 .. 2,
       strategy \in {"least_program_count", "reasoning_token_balance", "cache_aware", "program_round_robin"} :
      call' = [fn |-> "bind", strategy |-> strategy, input |-> 2, next |-> next,
               candidates |-> {[id |-> i, programs |-> programs[i], tokens |-> tokens[i], capacity |-> 4,
                                matched |-> matched[i], pressure |-> pressure[i], admissible |-> open[i]] : i \in 1 .. n}]

-----------------------------------------------------------------------------
(* Requests of the OpenAI and vLLM APIs.                                    *)
Part(type, text) == [type |-> type, text |-> text]

Contents ==
  {JsonStr(""), JsonStr(" a"), [t |-> "num", n |-> 1], Null}
    \cup {[t |-> "arr", items |-> s] : s \in {<<>>, <<Part("text", "a"), Part("image_url", "")>>, <<Part("video", "")>>}}

ToolCalls == [t |-> "calls", calls |-> <<[type |-> "function", name |-> "f", arguments |-> {"a"}]>>]

CallMessage ==
  \E role \in Keyed("role", {JsonStr(x) : x \in {"assistant", "system", "user", "tool", "function", "critic"}} \cup {Null}),
     content \in Keyed("content", Contents), name \in Keyed("name", {JsonStr("a"), Null}),
     calls \in Keyed("tool_calls", {ToolCalls, JsonStr("a")}), id \in Keyed("tool_call_id", {JsonStr("a")}),
     reasoning \in Keyed("reasoning", {JsonStr("a"), Null}), alias \in Keyed("reasoning_content", {JsonStr("b")}) :
    call' = [fn |-> "message", value |-> role @@ content @@ name @@ calls @@ id @@ reasoning @@ alias]

Say(kind, text) == [EmptyMessage(kind) EXCEPT !.content = {TextContent(text)}]

Conversations ==
  SeqsUpTo({Say("user", "a"), Say("user", " "), Say("system", "b"), Say("critic", "a"),
            [Say("assistant", " a") EXCEPT !.calls = {ToolCalls.calls}],
            [EmptyMessage("tool") EXCEPT !.raw = {JsonStr("a")}, !.name = {"a"}]}, 2)

Schema(name) == [type |-> "function", name |-> name, schema |-> "a"]

ChatTools == {{}, {<<Schema(2), Schema(1)>>}}

Formats == {{}, {[type |-> "text"]}, {[type |-> "json_object"]}, {[type |-> "json_schema", name |-> "a", schema |-> "a"]}}

Stops == {{}, {[shape |-> "string", items |-> <<"">>]}, {[shape |-> "string", items |-> <<"a">>]},
          {[shape |-> "array", items |-> <<"a", "b">>]}, {[shape |-> "array", items |-> <<"a", "">>]},
          {[shape |-> "array", items |-> <<"a", "b", "a", "b", "a">>]}}

Chat == [DefaultChat EXCEPT !.messages = <<Say("user", "a")>>]

ChatRequests ==
  {[DefaultChat EXCEPT !.messages = ms, !.tools = tools, !.functions = fs, !.tool_choice = choice,
       !.continue_final_message = c, !.add_generation_prompt = add] :
     ms \in Conversations, tools \in ChatTools, fs \in ChatTools, choice \in {{}, {"none"}},
     c \in BOOLEAN, add \in {{}, {TRUE}, {FALSE}}}
  \cup {[Chat EXCEPT !.max_tokens = a, !.max_completion_tokens = b, !.min_tokens = c] :
           a \in {{}, {0}, {1}, {2}}, b \in {{}, {1}, {2}}, c \in {{}, {0}, {2}}}
  \cup {[Chat EXCEPT !.regex = re, !.ebnf = g, !.response_format = f, !.structured_outputs = s] :
           re \in {{}, {"a"}}, g \in {{}, {"a"}}, f \in Formats, s \in {{}, {[choice |-> "a"]}}}
  \cup {[Chat EXCEPT !.stop = s, !.stop_token_ids = ids, !.no_stop_trim = keep] :
           s \in Stops, ids \in {{}, {<<>>}, {<<1>>}, {<<-1>>}}, keep \in BOOLEAN}
  \cup {[Chat EXCEPT ![f] = {x}] : f \in {"temperature", "top_p", "presence_penalty", "min_p", "top_k", "n"},
           x \in {-21, -1, 0, 1, 10, 11, 20, 21}}
  \cup {[Chat EXCEPT !.logprobs = l, !.top_logprobs = k, !.echo = e] :
           l \in BOOLEAN, k \in {{}, {1}, {21}}, e \in {{}, {TRUE}}}
  \cup {[Chat EXCEPT !.other = o] : o \in Keyed("priority", {[t |-> "num", n |-> x, width |-> 0 .. 1] : x \in 0 .. 2})
           \cup Keyed("cache_salt", {JsonStr("a"), Null}) \cup Keyed("unknown", {Null})}

CallChat == \E r \in ChatRequests, default \in {{}, {5}} : call' = [fn |-> "chat", r |-> r, default |-> default]

CallWords == \E n \in 1 .. 4 : \E words \in [1 .. n -> 1 .. 2] : call' = [fn |-> "words", words |-> words]

FixedParams == {"frequency_penalty", "presence_penalty", "top_k", "min_p", "repetition_penalty"}

CallSampling ==
  \E max \in {{}, {0}, {1}, {5}}, temperature \in {{}, {3}}, top \in {{}, {9}}, stop \in {{}, {JsonStr("a")}}, limit \in 0 .. 3,
     a \in Keyed("temperature", {[t |-> "num", n |-> 1], JsonStr("a")}), b \in Keyed("top_k", {[t |-> "num", n |-> 4]}),
     c \in Keyed("max_new_tokens", {[t |-> "num", n |-> 9]}), d \in Keyed("seed", {[t |-> "num", n |-> 1]}) :
    call' = [fn |-> "sampling", limit |-> limit, defaults |-> a @@ b @@ c @@ d,
             r |-> [max_output_tokens |-> max, temperature |-> temperature, top_p |-> top, stop |-> stop,
                    fixed |-> [k \in FixedParams |-> 0]]]

CallUsage ==
  \E cached \in {{}, {1}}, reasoning \in {{}, {2}}, given \in BOOLEAN, choice \in {"auto", "none"} :
    call' = [fn |-> "usage", r |-> [id |-> "a", tools |-> <<>>, tool_choice |-> [kind |-> "value", value |-> choice]],
             usage |-> IF given THEN {[prompt |-> 3, completion |-> 4, total |-> 7, cached |-> cached, reasoning |-> reasoning]} ELSE {}]

CallResolve ==
  \E a \in {{}, {"a"}, {" a"}, {" "}}, b \in {{}, {"a"}, {"b"}}, model \in {{}, {""}, {"b"}},
     tokenizer \in {{}} \cup {{[path |-> p, file |-> f]} : p \in {"", "d"}, f \in {"dir", "file", "none"}} :
    call' = [fn |-> "resolve", model |-> a, other |-> b, env |-> [model |-> model, tokenizer |-> tokenizer]]

-----------------------------------------------------------------------------
(* Prefill-decode messages                                                  *)
LogprobTokens == {[text |-> "a", chars |-> 1, bytes |-> 1], [text |-> "ab", chars |-> 2, bytes |-> 2],
                  [text |-> "accented", chars |-> 1, bytes |-> 2]}

CallMerge ==
  \E m \in 0 .. 2, n \in 1 .. 2 : \E p \in [1 .. m -> LogprobTokens], o \in [1 .. n -> LogprobTokens],
     has \in SUBSET {"tokens", "top"} :
    call' = [fn |-> "merge", prompt |-> p, output |-> o, has |-> has]

MediaParts == {[kind |-> k, id |-> i] : k \in {"image_url", "audio_url", "text"}, i \in {"a", "b", "bare"}}
              \cup {[kind |-> "image_embeds", id |-> "a"]}

CallEncode ==
  \E n \in 0 .. 3 : \E parts \in [1 .. n -> MediaParts], start \in 0 .. 1, encoders \in 1 .. 2,
     style \in {"rehash", "uuid", "place"} :
    call' = [fn |-> "encode", parts |-> parts, start |-> start, encoders |-> encoders, style |-> style]

LimitFields == {"max_tokens", "max_completion_tokens", "min_tokens", "max_output_tokens",
                "sampling_max_tokens", "sampling_min_tokens", "stream", "stream_options"}

CallPrefill ==
  \E req \in [LimitFields -> {0, 2}], path \in {"chat", "completions", "responses", "inference"} :
    call' = [fn |-> "prefill", req |-> req, path |-> path]

(* Registered workers have a URL each; discovery registers none.            *)
PdWorkers(n) ==
  {[i \in 1 .. n |-> [url |-> i] @@ w[i]] : w \in [1 .. n -> [role : {"prefill", "decode"}, healthy : BOOLEAN, closed : BOOLEAN]]}

CallPair ==
  \E policy \in [{"prefill", "decode"} -> {"cache_aware", "random"}],
     found \in [prefill : {<<>>, <<1>>}, decode : {<<>>, <<1, 2>>}], ws \in UNION {PdWorkers(n) : n \in 0 .. 3} :
    \/ /\ ws = <<>>
       /\ call' = [fn |-> "pair", router |-> [discovery |-> TRUE, workers |-> ws, policy |-> policy, instances |-> found]]
    \/ /\ found.prefill \o found.decode = <<>>
       /\ call' = [fn |-> "pair", router |-> [discovery |-> FALSE, workers |-> ws, policy |-> policy, instances |-> found]]

-----------------------------------------------------------------------------
(* The gateway: up to two workers of two models, two routers.               *)
TaggedWorker(url, type, labels) == [url |-> url, type |-> type, port |-> {}, labels |-> labels]

GatewayWorkers ==
  {TaggedWorker("a", t, l) : t \in {"regular", "prefill", "decode"},
     l \in {[model_id |-> "m"], [model_id |-> "n"], <<>>}}

Registries ==
  {<<>>} \cup {"a" :> w : w \in GatewayWorkers}
    \cup {("a" :> w) @@ ("b" :> [x EXCEPT !.url = "b"]) : w \in GatewayWorkers, x \in GatewayWorkers}

Endpoints == {"generate", "chat", "completion", "embeddings", "rerank", "responses", "unmatched",
              "delete_response", "health", "health_generate", "get_models", "flush_cache"}

CallGateway ==
  \E created \in SUBSET {"http-regular", "http-pd"}, registry \in Registries, endpoint \in Endpoints,
     epd \in BOOLEAN, prefer \in BOOLEAN, model \in {"m", "unknown"} :
    call' = [fn |-> "gateway", created |-> created, registry |-> registry, endpoint |-> endpoint,
             epd |-> epd, prefer |-> prefer, model |-> model]

ServerInfos ==
  {{}} \cup {{[model |-> i, path |-> p]} : i \in {{}, {"m"}}, p \in {{}, {<<"d", "n">>}, {<<"d", "">>}}}

CallWorker ==
  \E kind \in {"manager", "regular", "openai"}, registry \in {<<>>, "b" :> TaggedWorker("b", "decode", <<>>), "a" :> Plain("a")},
     model \in {{}, {"m"}}, type \in {{}, {"prefill"}, {"decode"}, {"other"}}, number \in {{}, {7}},
     labels \in {<<>>, [priority |-> 9, model_id |-> "x"], [priority |-> NoNumber, cost |-> 3]},
     info \in ServerInfos, url \in {"a", "b", "c"}, reachable \in BOOLEAN :
    call' = [fn |-> "worker", s |-> [kind |-> kind, base |-> "b", registry |-> IF kind = "openai" THEN <<>> ELSE registry],
             config |-> [url |-> "a", model |-> model, priority |-> number, cost |-> number, type |-> type,
                         port |-> {1}, labels |-> labels],
             info |-> info, url |-> url, reachable |-> reachable]

CallOpenAi ==
  \E open \in BOOLEAN, encodes \in BOOLEAN, stream \in BOOLEAN, sent \in BOOLEAN, read \in BOOLEAN, status \in {200, 401, 429, 501} :
    call' = [fn |-> "openai", open |-> open, encodes |-> encodes, stream |-> stream, up |-> [sent |-> sent, status |-> status, read |-> read]]

CallStartup ==
  \E c \in [igw : BOOLEAN, created : SUBSET {"http-regular", "http-pd"}, router : BOOLEAN, queue : 0 .. 1,
            discovery : {"off", "fails", "starts"}, wasm : BOOLEAN, digest : BOOLEAN, loads : BOOLEAN, binds : BOOLEAN] :
    call' = [fn |-> "startup", c |-> c]

-----------------------------------------------------------------------------
(* KV-event index: blocks of at most two tokens, two workers, two mappings. *)
CallBlocks ==
  \E a \in SeqsUpTo(1 .. 2, 4), b \in SeqsUpTo(1 .. 2, 3), size \in 1 .. 2, loraA \in {<<>>, <<1>>}, loraB \in {<<>>, <<1>>, <<1, 2>>} :
    call' = [fn |-> "blocks", a |-> a, b |-> b, size |-> size, loraA |-> loraA, loraB |-> loraB]

WireHosts == [kind : {"v4", "mapped"}, id : {"x"}, upper : {FALSE}] \cup [kind : {"domain"}, id : {"x", "any"}, upper : BOOLEAN]

WireUrls(scheme) ==
  {[scheme |-> scheme, host |-> h, port |-> n, plain |-> TRUE] : h \in WireHosts, n \in {NoPort, 80}}

Publishers ==
  {[scheme |-> "tcp", host |-> h, port |-> n, plain |-> n # 8] : h \in {x \in WireHosts : ~x.upper /\ x.id # "any"}, n \in 7 .. 9}

CallEndpoints ==
  \E workers \in SeqsUpTo(WireUrls("http"), 2), port \in {0, 7} :
    \E mappings \in SeqsUpTo((ToSet(workers) \cup {[scheme |-> "https", host |-> [kind |-> "domain", id |-> "y", upper |-> FALSE],
                                                   port |-> NoPort, plain |-> TRUE]}) \X Publishers, 2) :
      call' = [fn |-> "endpoints", workers |-> workers, mappings |-> mappings, port |-> port]

SourceEntries ==
  [rank : {NoRank, 0}, wire : BOOLEAN, enabled : {{}, {FALSE}},
   endpoint : [scheme : {"tcp", "ipc"}, host : {"*", "0.0.0.0", "h", ""}, port : {5557}],
   replay : {{}, {[scheme |-> "tcp", host |-> "*", port |-> 5558]}}]

ServerAnswers ==
  {{}} \cup {{[instance |-> i, size |-> n, attention |-> a, model |-> m, path |-> p]} :
              i \in {{}, {""}, {"i"}}, n \in {{}, {0}, {16}}, a \in {{}, {8}}, m \in {{}, {""}, {"m"}}, p \in {{}, {<<"d", "n">>}}}

CallDiscovery ==
  \E grpc \in BOOLEAN, server \in ServerAnswers, models \in {{}, {""}, {"m"}},
     sources \in {{}, {<<>>}} \cup {{<<e>>} : e \in SourceEntries} :
    /\ \A e \in UNION {ToSet(s) : s \in sources} : e.endpoint.scheme = "ipc" => e.endpoint.host = "h"
    /\ call' = [fn |-> "discovery", url |-> "u", host |-> "w",
                d |-> [grpc |-> grpc, server |-> server, models |-> models, sources |-> sources]]

-----------------------------------------------------------------------------
(* The WASM middleware: up to two routes, and lists of at most two changes. *)
HookRoutes == [path : {"chat", "rerank", "response", "typo", "blank"}, padded : BOOLEAN]

CallHook ==
  \E n \in 0 .. 2 : \E routes \in [1 .. n -> HookRoutes] :
    \E hex \in {"blank", "same", "other", "short"}, payload \in {0, 5, 20}, file \in BOOLEAN, usable \in BOOLEAN :
      call' = [fn |-> "hook", o |-> [routes |-> routes, digest |-> [hex |-> hex], payload |-> payload,
                                     file |-> file, usable |-> usable]]

GuestNames == [name : {"authorization", "x-a"}, upper : BOOLEAN]
                \cup [name : {"x-b", "bad name", "content-length"}, upper : {FALSE}]
Entries(values) == {<<>>} \cup {<<e>> : e \in [header : GuestNames, value : values]}
TwoEntries == {<<[header |-> [name |-> n, upper |-> u], value |-> 1], [header |-> [name |-> m, upper |-> FALSE], value |-> 2]>> :
                 n \in {"authorization", "x-a"}, m \in {"x-a", "x-b"}, u \in BOOLEAN}

GuestHeaders ==
  {[n \in {"authorization", "host", "content-length", "x-a", "x-b"} |->
      IF n = "x-a" THEN xa ELSE IF n = "x-b" THEN <<>> ELSE <<7>>] : xa \in {<<>>, <<7>>, <<7, 8>>}}

GuestActions ==
  {[type |-> "continue"]}
  \cup {[type |-> "reject", status |-> s] : s \in {0, 99, 100, 200, 399, 400, 499, 599, 600, 999, 1000}}
  \cup {[type |-> "modify", remove |-> r, set |-> s, add |-> a, body |-> b] :
          r \in Entries({0}), s \in Entries({1, -1}) \cup TwoEntries, a \in Entries({3}) \cup TwoEntries,
          b \in {{}, {0}, {3}}}

CallAction ==
  \E a \in GuestActions, h \in GuestHeaders : call' = [fn |-> "action", a |-> a, h |-> h, body |-> 1]

-----------------------------------------------------------------------------
(* Token streams: split, broken and special tokens, and words.              *)
MaxTokens == 4
Prompts == {<<>>, <<"a">>, <<"S">>, <<"a", "w">>, <<"H", "L">>}

CallStream ==
  \E n \in 0 .. MaxTokens : \E tokens \in [1 .. n -> {"a", "w", "H", "L", "S"}] :
    \E prompt \in Prompts : call' = [fn |-> "stream", prompt |-> prompt, tokens |-> tokens]

StopConfig(hidden, visible, ends, visibleEnds) ==
  [hidden |-> hidden, visible |-> visible, ends |-> ends, visibleEnds |-> visibleEnds]
StopWords == {<<"b">>, <<"a", "b">>, <<"a", "a", "b">>, <<Accented, "a">>, <<"a", Accented>>}

(* One stop, or two that one token may complete together.                   *)
CallStop ==
  \/ \E n \in 0 .. MaxTokens : \E tokens \in [1 .. n -> {"a", "ab", "H", "L", "S", "e"}] :
       \E s \in StopWords, ends \in {{}, {"e"}} :
         \/ call' = [fn |-> "stop", tokens |-> tokens, cfg |-> StopConfig(<<s>>, <<>>, ends, {"e"} \ ends)]
         \/ call' = [fn |-> "stop", tokens |-> tokens, cfg |-> StopConfig(<<>>, <<s>>, ends, {})]
  \/ \E n \in 1 .. MaxTokens : \E tokens \in [1 .. n -> {"a", "b", "ab", "H", "L"}] :
       \E s \in StopWords, t \in StopWords :
         \/ call' = [fn |-> "stop", tokens |-> tokens, cfg |-> StopConfig(<<s, t>>, <<>>, {}, {})]
         \/ call' = [fn |-> "stop", tokens |-> tokens, cfg |-> StopConfig(<<s>>, <<t>>, {}, {})]

-----------------------------------------------------------------------------
Init == call = NoCall

Next ==
  call = NoCall /\ \/ CallConfig \/ CallSplit \/ CallScore \/ CallSelect
                   \/ CallStart \/ CallGet \/ CallLoads \/ CallRerank
                   \/ CallKey \/ CallIdentity
                   \/ CallTtl \/ CallAdmit \/ CallScrape \/ CallEstimate
                   \/ CallHash \/ CallFurc \/ CallTwo \/ CallCache \/ CallBind
                   \/ CallMessage \/ CallChat \/ CallWords \/ CallSampling \/ CallUsage \/ CallResolve
                   \/ CallMerge \/ CallEncode \/ CallPrefill \/ CallPair
                   \/ CallGateway \/ CallWorker \/ CallOpenAi \/ CallStartup
                   \/ CallBlocks \/ CallEndpoints \/ CallDiscovery
                   \/ CallHook \/ CallAction \/ CallStream \/ CallStop

Spec == Init /\ [][Next]_call

-----------------------------------------------------------------------------

(* The selection arithmetic: what a cached prefix is worth, which worker  *)
(* a policy picks, how long a placement is kept and who is admitted.  The *)
(* choices are undominated, independent of the order of reports, and      *)
(* never beyond capacity.                                                 *)
ChoicesAreSound ==
  /\ LastTokenIsComputed
  /\ CreditIgnoresHitOrder
  /\ SelectionIsUndominated
  /\ SaltedRequestsIgnoreTheIndex
  /\ OnlyItsSessionsMove
  /\ LeavingMovesOnlyItsKeys
  /\ BucketsGrowConsistently
  /\ NeverTheMostLoaded
  /\ RoundRobinTakesTurns
  /\ UnhealthyLoadIsIgnored
  /\ BindingIsUndominated
  /\ TtlIsWorthItsCost
  /\ WindowsKeepTheNewest
  /\ GainNeverBypassesCapacity
  /\ AdmissionIsMonotone
  /\ ObservationsAreOfTheirEngine
  /\ EstimatesStayBounded

(* Both front ends lead to the same validated configuration, and what     *)
(* validation and start-up accept can be served as it was asked for.      *)
ConfigurationsCanBeServed ==
  /\ FrontEndsAgree
  /\ RolesCanBeServed
  /\ RolesSupportTheirSettings
  /\ EpdMapsItsConsumers
  /\ SchedulerSettingsAreSound
  /\ SplitKeepsTheRest
  /\ StartedAsConfigured
  /\ LoadedHooksGuardTheirRoutes
  /\ EndpointsAreOneToOne
  /\ SubscriptionsAreReachable

(* The control plane: what start-up, health, readiness, the worker API,   *)
(* the gateway and refusals say of the workers is what requests then      *)
(* meet.                                                                  *)
EndpointsTellTheTruth ==
  /\ StartupRoutesToAnsweringHosts
  /\ GetFailsOver
  /\ ServingRoutersAreReady
  /\ PairsAreUsable
  /\ SilentWorkersAreNotIdle
  /\ RerankKeepsTheBest
  /\ HealthyRoutersFindAPair
  /\ ModelDecidesTheRouter
  /\ UnroutableIsNotReady
  /\ InfoTellsWhatWasAsked
  /\ DeletedWorkersAreGone
  /\ OpenAiOutcomesAreCounted
  /\ RefusalsAreErrors

(* One session, one Program and one block of tokens have one name,        *)
(* whichever header, hint, body field or adapter it is derived from.      *)
NamesAreStable ==
  /\ SessionsAreSticky
  /\ ScanFindsTheField
  /\ SourcesNameOneProgram
  /\ RequestIdsNameNoProgram
  /\ SubagentsPointAtTheirLead
  /\ AcceptedIdentitiesAreSound
  /\ BlocksAgree
  /\ AliasesKeepTheirFrontend

(* What is parsed, lowered, rewritten, merged, mutated and decoded on the *)
(* way between client and worker keeps what the client asked for and what *)
(* the worker said.                                                       *)
MessagesKeepTheirMeaning ==
  /\ MessagesRoundTrip
  /\ SchedulingTextIsCanonical
  /\ AcceptedChatIsSatisfiable
  /\ FormsRouteAlike
  /\ DefaultsNeverOverride
  /\ UsageSurvivesConversion
  /\ NothingAskedIsDropped
  /\ ValidatedConstraintsLower
  /\ HiddenStopsAskForText
  /\ MergedReportIsOfTheWholeText
  /\ TransfersFollowTheParts
  /\ PrefillIsOneToken
  /\ ProtectedHeadersSurvive
  /\ MutationsComposeInOrder
  /\ StreamSpellsTheText
  /\ SequenceSpellsTheText
  /\ StopsHideExactlyTheStop
=============================================================================
