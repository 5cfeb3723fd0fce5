---------------------------- MODULE ApiRequests -----------------------------
(***************************************************************************)
(* The OpenAI and vLLM request types of protocols/spec.rs (parsing of chat *)
(* messages, routing texts, sampling parameters, usage) and the validation *)
(* of chat requests in protocols/validation.rs.                            *)
(*                                                                         *)
(* A JSON value is a record with its type t; a JSON object is a function   *)
(* from the keys it has.  Fractional parameters are in tenths.  A text is  *)
(* one of a few words: "" is empty, " " blank and " a" is "a" untrimmed.   *)
(* Where texts are joined with spaces a text is its sequence of words.     *)
(***************************************************************************)
EXTENDS Integers, Sequences, SequencesExt, FiniteSetsExt, TLC, Call

Trimmed(t) == CASE t = " " -> "" [] t = " a" -> "a" [] OTHER -> t

Member(v, k) == IF k \in DOMAIN v THEN v[k] ELSE Null

JsonStr(x) == [t |-> "str", v |-> x]

AsStr(x) == IF x.t = "str" THEN {x.v} ELSE {}

Optional(k, S) == [x \in {k : y \in S} |-> CHOOSE y \in S : TRUE]

The(S) == CHOOSE x \in S : TRUE

-----------------------------------------------------------------------------
(* UserMessageContent: a text, or parts; a part of another type makes the   *)
(* whole content unparseable.                                               *)
TextContent(t) == [shape |-> "text", parts |-> <<[type |-> "text", text |-> t]>>]

ContentOf(x) ==
  CASE x.t = "str" -> {TextContent(x.v)}
    [] x.t = "arr" /\ (\A p \in ToSet(x.items) : p.type \in {"text", "image_url"}) ->
         {[shape |-> "parts", parts |-> x.items]}
    [] OTHER -> {}

ContentValue(c) ==
  IF c.shape = "text" THEN JsonStr(c.parts[1].text) ELSE [t |-> "arr", items |-> c.parts]

RoutingTexts(c) ==
  LET kept == SelectSeq(c.parts, LAMBDA p : p.type = "text" /\ Trimmed(p.text) # "")
  IN [i \in DOMAIN kept |-> kept[i].text]

EmptyMessage(kind) ==
  [kind |-> kind, content |-> {}, name |-> {}, calls |-> {}, call |-> {}, reasoning |-> {}, raw |-> {}]

ReasoningOf(v) == OrElse(AsStr(Member(v, "reasoning")), AsStr(Member(v, "reasoning_content")))

(* ChatMessage::deserialize: the role decides, what does not parse is left  *)
(* out, and a message of an unknown role is kept as it is.                  *)
ParseMessage(v) ==
  LET role == Member(v, "role")
      content == Member(v, "content")
      name == AsStr(Member(v, "name"))
      message(kind) == [EmptyMessage(kind) EXCEPT !.name = name]
  IN IF role.t # "str" THEN Fail
     ELSE Ok({
       CASE role.v = "assistant" ->
              [message("assistant") EXCEPT
                 !.content = ContentOf(content),
                 !.calls = {x.calls : x \in {y \in {Member(v, "tool_calls")} : y.t = "calls"}},
                 !.call = {x.call : x \in {y \in {Member(v, "function_call")} : y.t = "call"}},
                 !.reasoning = ReasoningOf(v)]
         [] role.v \in {"system", "user"} ->
              [message(role.v) EXCEPT !.content = OrElse(ContentOf(content), {TextContent("")})]
         [] role.v = "tool" ->
              [EmptyMessage("tool") EXCEPT
                 !.raw = {IF "content" \in DOMAIN v THEN content ELSE JsonStr("")},
                 !.name = OrElse(AsStr(Member(v, "tool_call_id")), {""})]
         [] role.v = "function" ->
              [EmptyMessage("function") EXCEPT
                 !.raw = {JsonStr(The(OrElse(AsStr(content), {""})))}, !.name = OrElse(name, {""})]
         [] OTHER -> [EmptyMessage(role.v) EXCEPT !.raw = {v}]})

(* The derived Serialize: absent options are skipped.                       *)
MessageValue(m) ==
  LET role == [role |-> JsonStr(m.kind)]
      named(k) == Optional(k, {JsonStr(x) : x \in m.name})
  IN CASE m.kind = "tool" -> role @@ Optional("content", m.raw) @@ named("tool_call_id")
       [] m.kind = "function" -> role @@ Optional("content", m.raw) @@ named("name")
       [] m.kind \in {"system", "user", "assistant"} ->
            role @@ Optional("content", {ContentValue(c) : c \in m.content}) @@ named("name")
              @@ Optional("tool_calls", {[t |-> "calls", calls |-> x] : x \in m.calls})
              @@ Optional("function_call", {[t |-> "call", call |-> x] : x \in m.call})
              @@ Optional("reasoning", {JsonStr(x) : x \in m.reasoning})
       [] OTHER -> The(m.raw)

-----------------------------------------------------------------------------
(* A chat request of which only the messages are given.                     *)
DefaultChat ==
  [messages |-> <<EmptyMessage("assistant")>>, model |-> {}, temperature |-> {}, top_p |-> {}, n |-> {},
   stop |-> {}, max_tokens |-> {}, max_completion_tokens |-> {}, presence_penalty |-> {},
   frequency_penalty |-> {}, logit_bias |-> {}, logprobs |-> FALSE, top_logprobs |-> {},
   response_format |-> {}, tools |-> {}, tool_choice |-> {}, functions |-> {}, function_call |-> {},
   top_k |-> {}, min_p |-> {}, min_tokens |-> {}, repetition_penalty |-> {}, regex |-> {}, ebnf |-> {},
   stop_token_ids |-> {}, no_stop_trim |-> FALSE, add_generation_prompt |-> {},
   continue_final_message |-> FALSE, lora_path |-> {}, session |-> {}, return_hidden_states |-> FALSE,
   echo |-> {}, reasoning_effort |-> {}, structured_outputs |-> {}, other |-> <<>>]

(* extract_text_for_routing of chat: a nonblank session id, or all of the   *)
(* messages.                                                                *)
ChatRoutingText(r) ==
  LET id == {x \in UNION {AsStr(s) : s \in r.session} : Trimmed(x) # ""}
  IN [session |-> id, messages |-> IF id = {} THEN r.messages ELSE <<>>]

Labelled(label, name, texts) ==
  LET kept == SelectSeq(texts, LAMBDA t : Trimmed(t) # "")
  IN [i \in DOMAIN kept |-> <<label, Trimmed(name), Trimmed(kept[i])>>]

ArgumentsOf(label, calls) ==
  FlattenSeq([i \in DOMAIN calls |->
    Labelled(label, calls[i].name, IF calls[i].arguments = {} THEN <<>> ELSE <<The(calls[i].arguments)>>)])

SchedulingParts(m) ==
  LET texts == FlattenSeq([i \in 1 .. Cardinality(m.content) |-> RoutingTexts(The(m.content))])
      raw == The(m.raw)
      some(S) == IF S = {} THEN <<>> ELSE The(S)
  IN CASE m.kind \in {"system", "user"} -> Labelled(m.kind, "", texts)
       [] m.kind = "assistant" ->
            Labelled("assistant", "", texts) \o ArgumentsOf("assistant_tool_call", some(m.calls))
              \o ArgumentsOf("assistant_function_call", some({<<x>> : x \in m.call}))
       [] m.kind = "tool" ->
            Labelled("tool", "", CASE raw.t = "str" -> <<raw.v>>
                                   [] raw.t = "arr" -> [i \in DOMAIN raw.items |-> raw.items[i].text]
                                   [] OTHER -> <<>>)
       [] m.kind = "function" -> Labelled("function", The(m.name), <<raw.v>>)
       [] OTHER -> <<>>

ByName(tools) ==
  LET order == SortSeq([i \in DOMAIN tools |-> i],
                       LAMBDA i, j : \/ tools[i].name < tools[j].name
                                     \/ tools[i].name = tools[j].name /\ i < j)
  IN [i \in DOMAIN tools |-> tools[order[i]]]

Schemas(label, given) ==
  LET tools == ByName(IF given = {} THEN <<>> ELSE The(given))
  IN [i \in DOMAIN tools |-> <<label, tools[i].name, tools[i].schema>>]

MessageParts(messages) == FlattenSeq([i \in DOMAIN messages |-> SchedulingParts(messages[i])])

(* extract_text_for_program_scheduling: the lines of the text, or the       *)
(* routing text when there are none.                                        *)
ProgramSchedulingText(r) ==
  LET schemas == Schemas("tool_schema", r.tools) \o Schemas("function_schema", r.functions)
      messages == MessageParts(r.messages)
  IN [messages |-> messages, schemas |-> schemas,
      fallback |-> IF messages = <<>> /\ schemas = <<>> THEN {ChatRoutingText(r)} ELSE {}]

-----------------------------------------------------------------------------
(* Validation: every check names its parameter, the first that fails is the *)
(* error.                                                                   *)
Check(name, holds) == [name |-> name, holds |-> holds]

ValidateRange(S, lo, hi) == \A x \in S : lo <= x /\ x <= hi

ValidatePositive(S) == \A x \in S : x > 0

ValidateTopK(S) == \A k \in S : k = -1 \/ k > 0

MaxStopSequences == 4

ValidateSamplingOptions(r) ==
  <<Check("temperature", ValidateRange(r.temperature, 0, 20)),
    Check("top_p", 0 \notin r.top_p /\ ValidateRange(r.top_p, 0, 10)),
    Check("frequency_penalty", ValidateRange(r.frequency_penalty, -20, 20)),
    Check("presence_penalty", ValidateRange(r.presence_penalty, -20, 20))>>

ValidateStopConditions(r) ==
  <<Check("stop", \A s \in r.stop : /\ s.shape = "array" => Len(s.items) <= MaxStopSequences
                                    /\ "" \notin ToSet(s.items))>>

GetMaxTokens(r) == OrElse(r.max_completion_tokens, r.max_tokens)

ValidateTokenLimits(r) ==
  <<Check("max_tokens", ValidatePositive(GetMaxTokens(r))),
    Check("min_tokens", ValidatePositive(r.min_tokens))>>

ValidateLogprobs(r) ==
  <<Check("logprobs", ValidateRange(IF r.logprobs THEN {1} ELSE {}, 0, 5)),
    Check("top_logprobs", ValidateRange(r.top_logprobs, 0, 20))>>

ValidateVllmExtensions(r) ==
  <<Check("top_k", ValidateTopK(r.top_k)), Check("min_p", ValidateRange(r.min_p, 0, 10)),
    Check("repetition_penalty", ValidateRange(r.repetition_penalty, 0, 20))>>

ValidateCompletionCount(r) == <<Check("n", ValidateRange(r.n, 1, 10))>>

ValidateCrossParameters(r) ==
  <<Check("min_tokens", \A lo \in r.min_tokens, hi \in GetMaxTokens(r) : lo <= hi)>>

ValidateCommonRequestParams(r) ==
  ValidateSamplingOptions(r) \o ValidateStopConditions(r) \o ValidateTokenLimits(r) \o ValidateLogprobs(r)
    \o ValidateVllmExtensions(r) \o ValidateCompletionCount(r) \o ValidateCrossParameters(r)

ValidateMessages(r) ==
  <<Check("messages", r.messages # <<>>),
    Check("content", \A m \in ToSet(r.messages) : m.kind = "user" =>
                       \A c \in m.content : c.parts # <<>> /\ (c.shape = "text" => c.parts[1].text # ""))>>

ValidateResponseFormat(r) ==
  <<Check("response_format", \A f \in r.response_format : f.type = "json_schema" => f.name # "")>>

ValidateChatLogprobs(r) ==
  <<Check("top_logprobs", r.logprobs => r.top_logprobs # {}),
    Check("logprobs", r.top_logprobs # {} => r.logprobs)>>

HasJsonFormat(r) == \E f \in r.response_format : f.type \in {"json_object", "json_schema"}

Apart(name, a, b) == Check(name, ~(a /\ b))

ValidateChatCrossParameters(r) ==
  LET schema == \E f \in r.response_format : f.type = "json_schema"
  IN <<Apart("max_tokens", r.max_tokens # {}, r.max_completion_tokens # {}),
       Apart("tools", r.tools # {}, r.functions # {}),
       Apart("response_format", HasJsonFormat(r), r.regex # {}),
       Apart("response_format", HasJsonFormat(r), r.ebnf # {}),
       Check("constraint", Cardinality({"regex" : x \in r.regex} \cup {"ebnf" : x \in r.ebnf}
                                         \cup {"json_schema" : x \in {y \in {TRUE} : schema}}) <= 1)>>

(* ChatCompletionRequest::validate: nothing, or the parameter at fault.     *)
ValidateChat(r) ==
  LET checks == ValidateCommonRequestParams(r) \o ValidateMessages(r) \o ValidateResponseFormat(r)
                  \o ValidateChatLogprobs(r) \o ValidateChatCrossParameters(r)
  IN {c.name : c \in FirstOf(checks, LAMBDA c : ~c.holds)}

-----------------------------------------------------------------------------
(* Routing texts of the other requests, as sequences of words.              *)

ArrayText(p) == FlattenSeq(p.items)

(* PromptInput: token ids are routed by how many there are.                 *)
PromptText(p) ==
  CASE p.shape = "string" -> [words |-> p.items[1], count |-> <<>>]
    [] p.shape = "array" -> [words |-> ArrayText(p), count |-> <<>>]
    [] p.shape = "ids" -> [words |-> <<>>, count |-> <<Len(p.ids)>>]
    [] OTHER -> [words |-> <<>>, count |-> <<Len(p.batch), Len(FlattenSeq(p.batch))>>]

GenerateText(g) ==
  CASE g.text # {} -> The(g.text)
    [] g.prompt # {} -> ArrayText(The(g.prompt))
    [] g.input_ids # {} -> FlattenSeq(The(g.input_ids))
    [] OTHER -> <<>>

InferenceText(ids) == ids

(* The strings of a JSON array; other values are skipped.                   *)
EmbeddingText(x) ==
  CASE x.t = "str" -> x.v
    [] x.t = "arr" -> LET s == SelectSeq(x.items, LAMBDA y : y.t = "str")
                      IN FlattenSeq([i \in DOMAIN s |-> s[i].v])
    [] OTHER -> <<>>

(* Messages and reasoning by their texts, tool calls by their arguments.    *)
ResponsesText(items) == FlattenSeq([i \in DOMAIN items |-> FlattenSeq(items[i].texts)])

-----------------------------------------------------------------------------

Filled(params, defaults) == params @@ defaults

(* to_sampling_params: the request, then the given defaults, then constants.*)
ToSamplingParams(r, limit, defaults) ==
  LET num(n) == [t |-> "num", n |-> n]
      max == Min({limit} \cup r.max_output_tokens)
      from(k, const) == OrElse(r[k], OrElse({x.n : x \in {y \in {Member(defaults, k)} : y.t = "num"}}, {const}))
      fixed == {"frequency_penalty", "presence_penalty", "top_k", "min_p", "repetition_penalty"}
      params == [max_new_tokens |-> num(IF max = 0 THEN 0 ELSE max - 1),
                 temperature |-> num(The(from("temperature", 7))),
                 top_p |-> num(The(from("top_p", 10)))]
                @@ [k \in fixed |-> num(r.fixed[k])] @@ Optional("stop", r.stop)
  IN Filled(params, defaults)

ToResponseUsage(u) ==
  [input |-> u.prompt, output |-> u.completion, total |-> u.total,
   input_details |-> u.cached, output_details |-> u.reasoning]

ToUsageInfo(w) ==
  [prompt |-> w.input, completion |-> w.output, total |-> w.total,
   cached |-> w.input_details, reasoning |-> w.output_details]

(* from_request and to_response_format of ResponsesResponse.                *)
ResponseFrom(r, status, usage) ==
  [id |-> r.id, status |-> status, usage |-> usage, tools |-> r.tools,
   tool_choice |-> IF r.tool_choice.kind = "function" THEN "function" ELSE r.tool_choice.value]

ToResponseFormat(x) == [x EXCEPT !.usage = {ToResponseUsage(u) : u \in @}]

-----------------------------------------------------------------------------
(* A message that was parsed and is sent on parses to the same message, and *)
(* keeps a usable reasoning text and an unknown role: a worker or a second  *)
(* router sees what this router routed by (ChatMessage's hand-written       *)
(* Deserialize against its derived Serialize).                              *)
MessagesRoundTrip ==
  Calling("message") =>
    LET got == ParseMessage(call.value).got
        usable == AsStr(Member(call.value, "reasoning"))
    IN \A m \in got :
         /\ ParseMessage(MessageValue(m)) = Ok({m})
         /\ m.kind = "assistant" /\ usable # {} => m.reasoning = usable
         /\ m.kind \notin {"system", "user", "assistant", "tool", "function"} => MessageValue(m) = call.value

(* Of a conversation's turns each one's messages begin the text the next    *)
(* turn is placed by, and the text does not depend on the order in which a  *)
(* client lists its tools: both are what prefix-aware placement relies on   *)
(* (extract_text_for_program_scheduling).                                   *)
SchedulingTextIsCanonical ==
  Calling("chat") =>
    LET text(r) == ProgramSchedulingText(r)
        turn(k) == [call.r EXCEPT !.messages = SubSeq(@, 1, k)]
        mixed == [call.r EXCEPT !.tools = {Reverse(x) : x \in @}, !.functions = {Reverse(x) : x \in @}]
    IN /\ \A k \in DOMAIN call.r.messages : IsPrefix(text(turn(k)).messages, text(call.r).messages)
       /\ text(mixed) = text(call.r)

(* A chat request that validation accepts can be satisfied: some number of  *)
(* tokens meets all of its limits, no stop sequence matches the empty text, *)
(* at most one grammar constrains the output and log probabilities are      *)
(* asked for with their number or not at all.                               *)
AcceptedChatIsSatisfiable ==
  Calling("chat") /\ ValidateChat(call.r) = {} =>
    LET r == call.r
        limits == r.max_tokens \cup r.max_completion_tokens
        json == {f.type : f \in r.response_format} \cap {"json_schema"}
    IN /\ \E n \in 1 .. Max(limits \cup r.min_tokens \cup {1}) :
            (\A x \in limits : n <= x) /\ (\A x \in r.min_tokens : n >= x)
       /\ \A s \in r.stop : \A x \in ToSet(s.items) : x # ""
       /\ Cardinality({"regex" : x \in r.regex} \cup {"ebnf" : x \in r.ebnf} \cup json) <= 1
       /\ r.logprobs = (r.top_logprobs # {})

(* The same words route alike whether they come as one string, as an array  *)
(* of strings or as items, and the same tokens whether they come to         *)
(* /generate as one list, as a batch, or to /inference/v1/generate.         *)
FormsRouteAlike ==
  Calling("words") =>
    LET words == call.words
        single == [i \in DOMAIN words |-> <<words[i]>>]
        array == [shape |-> "array", items |-> single]
        none == [text |-> {}, prompt |-> {}, input_ids |-> {}]
        str(w) == [t |-> "str", v |-> w]
    IN /\ {PromptText(array).words, PromptText([shape |-> "string", items |-> <<words>>]).words,
           GenerateText([none EXCEPT !.prompt = {array}]), GenerateText([none EXCEPT !.text = {words}]),
           EmbeddingText(str(words)), EmbeddingText([t |-> "arr", items |-> [i \in DOMAIN words |-> str(single[i])]]),
           ResponsesText(<<[texts |-> single]>>), ResponsesText([i \in DOMAIN words |-> [texts |-> <<single[i]>>]]),
           InferenceText(words), GenerateText([none EXCEPT !.input_ids = {single}])} = {words}
       /\ PromptText([shape |-> "batch", batch |-> single]).count[2] = PromptText([shape |-> "ids", ids |-> words]).count[1]

(* Server defaults fill in what a Responses request leaves open and never   *)
(* change what it asks for or the room kept in the context                  *)
(* (to_sampling_params).                                                    *)
DefaultsNeverOverride ==
  Calling("sampling") =>
    LET got == ToSamplingParams(call.r, call.limit, call.defaults)
        most == got["max_new_tokens"].n
    IN /\ most >= 0 /\ (call.limit > 0 => most < call.limit)
       /\ \A x \in call.r.max_output_tokens : most <= x
       /\ \A k \in {"temperature", "top_p"} : \A x \in call.r[k] : got[k].n = x
       /\ \A k \in DOMAIN call.r.fixed : got[k].n = call.r.fixed[k]
       /\ \A x \in call.r.stop : got["stop"] = x
       /\ \A k \in DOMAIN call.defaults : k \in DOMAIN got
       /\ got["temperature"].t = "num" /\ got["top_p"].t = "num"

(* The usage a Responses client reads holds every count the worker          *)
(* reported: converted back it is the same usage.                           *)
UsageSurvivesConversion ==
  Calling("usage") =>
    LET sent == ToResponseFormat(ResponseFrom(call.r, "completed", call.usage))
    IN {ToUsageInfo(w) : w \in sent.usage} = call.usage

-----------------------------------------------------------------------------
(***************************************************************************)
(* Chat requests for gRPC workers: which frontend is loaded                *)
(* (backend/preprocess.rs), how a request becomes the prompt's messages    *)
(* (preprocess.rs, vllm_frontend.rs), and how it becomes the worker's      *)
(* GenerateRequest (backend/convert.rs).                                   *)
(*                                                                         *)
(* Rendering and encoding belong to the vllm-chat and vllm-tokenizer       *)
(* crates: the prompt is the list of messages handed to them.              *)
(***************************************************************************)

FrontendKey(named, source) == The(OrElse(named, source))

(* The environment: file is what VLLM_ROUTER_TOKENIZER names.               *)
ModelResolution(model, env) ==
  LET named == {x \in {Trimmed(y) : y \in model} : x # ""}
      tokenizer == {x \in env.tokenizer : x.path # ""}
      override == {x.path : x \in {y \in tokenizer : y.file \in {"dir", "file"}}}
      source == OrElse(override, OrElse({x \in env.model : x # ""}, named))
  IN IF (\E x \in tokenizer : x.file = "none") \/ source = {} THEN Fail
     ELSE Ok({[key |-> FrontendKey(named, source), source |-> The(source)]})

-----------------------------------------------------------------------------
(* The first error of a sequence of [err, got], or all that they got.       *)
AllOf(results) ==
  IF \E i \in DOMAIN results : results[i].err THEN Fail
  ELSE Ok({[i \in DOMAIN results |-> The(results[i].got)]})

UserContentText(c) ==
  IF \E p \in ToSet(c.parts) : p.type # "text" THEN Fail
  ELSE Ok({[i \in DOMAIN c.parts |-> c.parts[i].text]})

SpecMessage(m) ==
  LET text == IF m.content = {} THEN Ok({}) ELSE UserContentText(The(m.content))
      calls == IF m.calls = {} THEN <<>> ELSE The(m.calls)
      reasoning == {x \in m.reasoning : x # ""}
      built(name) == Ok({[role |-> m.kind, text |-> text.got, reasoning |-> reasoning, name |-> name,
                          calls |-> [i \in DOMAIN calls |-> [name |-> calls[i].name,
                                       arguments |-> The(OrElse(calls[i].arguments, {"{}"}))]]]})
  IN CASE m.kind \in {"system", "user"} -> IF text.err THEN Fail ELSE built({})
       [] m.kind = "assistant" ->
            IF \/ text.err \/ \E i \in DOMAIN calls : calls[i].type # "function"
               \/ (text.got = {} /\ reasoning = {} /\ calls = <<>>) THEN Fail
            ELSE built({})
       [] m.kind = "tool" ->
            IF (The(m.raw)).t # "str" THEN Fail
            ELSE Ok({[role |-> "tool", text |-> {<<The(m.raw).v>>}, reasoning |-> {}, name |-> m.name, calls |-> <<>>]})
       [] OTHER -> Fail

SpecTools(r) ==
  LET tools == IF r.tools = {} THEN <<>> ELSE The(r.tools)
  IN AllOf([i \in DOMAIN tools |-> IF tools[i].type # "function" THEN Fail
                                   ELSE Ok({[name |-> tools[i].name, schema |-> tools[i].schema]})])

(* chat_request_from_openai                                                 *)
GenerationPromptMode(add, continue, roles) ==
  CASE add = {TRUE} /\ continue -> {}
    [] continue -> IF roles # <<>> /\ Last(roles) = "assistant" THEN {"continue"} ELSE {}
    [] add = {FALSE} -> {"none"}
    [] OTHER -> {"start"}

(* tokenize_vllm up to the renderer: the prompt of a request.               *)
PromptOf(r) ==
  LET messages == AllOf([i \in DOMAIN r.messages |-> SpecMessage(r.messages[i])])
      tools == SpecTools(r)
      mode == GenerationPromptMode(r.add_generation_prompt, r.continue_final_message,
                                   [i \in DOMAIN r.messages |-> r.messages[i].kind])
      fits(k) == LET x == Member(r.other, k) IN x.t = "num" => x.n \in x.width
  IN IF \/ (\E t \in r.tools : t # <<>>) /\ r.tool_choice # {"none"}
        \/ r.reasoning_effort # {} \/ "chat_template" \in DOMAIN r.other
        \/ Member(r.other, "documents").t = "num"
        \/ ~fits("priority") \/ ~fits("data_parallel_rank")
        \/ messages.err \/ tools.err \/ mode = {} THEN Fail
     ELSE Ok({[messages |-> The(messages.got), tools |-> The(tools.got), mode |-> The(mode),
               special |-> Member(r.other, "add_special_tokens") = [t |-> "bool", b |-> TRUE],
               salt |-> AsStr(Member(r.other, "cache_salt"))]})

-----------------------------------------------------------------------------

RequiresWorkerOutputText(r) ==
  /\ ~r.no_stop_trim
  /\ \/ \E s \in r.stop : s.items # <<>> /\ (s.shape = "string" => s.items[1] # "")
     \/ \E ids \in r.stop_token_ids : ids # <<>>

(* structured_output: every constraint given, and at most one.              *)
Constraints(r) ==
  {[kind |-> "regex", text |-> x] : x \in r.regex} \cup {[kind |-> "grammar", text |-> x] : x \in r.ebnf}
    \cup {IF f.type = "json_object" THEN [kind |-> "json_object", text |-> ""] ELSE [kind |-> "json", text |-> f.schema] :
            f \in {g \in r.response_format : g.type # "text"}}

ParamConstraints(r) ==
  UNION {{[kind |-> k, text |-> s[k]] : k \in DOMAIN s} : s \in r.structured_outputs}

StructuredOutput(r) ==
  IF Cardinality(Constraints(r)) + Cardinality(ParamConstraints(r)) > 1 THEN Fail
  ELSE Ok(Constraints(r) \cup ParamConstraints(r))

SplitStops(r) ==
  LET ids == IF r.stop_token_ids = {} THEN <<>> ELSE The(r.stop_token_ids)
  IN IF \E i \in DOMAIN ids : ids[i] < 0 THEN Fail
     ELSE Ok({[strings |-> FlattenSeq([i \in 1 .. Cardinality(r.stop) |->
                             LET s == The(r.stop) IN IF s.shape = "string" /\ s.items[1] = "" THEN <<>> ELSE s.items]),
               ids |-> ids]})

SupportedOther ==
  {"add_special_tokens", "cache_salt", "documents", "lora_name", "priority", "truncate_prompt_tokens", "watermarking"}

OtherOf(r, k, Fits(_)) ==
  IF k \notin DOMAIN r.other THEN Ok({}) ELSE IF Fits(r.other[k]) THEN Ok({r.other[k]}) ELSE Fail

OtherString(r, k) == OtherOf(r, k, LAMBDA x : x.t = "str")
OtherBool(r, k) == OtherOf(r, k, LAMBDA x : x.t = "bool")
OtherU32(r, k) == OtherOf(r, k, LAMBDA x : x.t = "num" /\ x.n >= 0 /\ x.n \in x.width)
OtherI32(r, k) == OtherOf(r, k, LAMBDA x : x.t = "num" /\ x.n \in x.width)

Unsupported(r) ==
  \/ \E n \in r.n : n > 1
  \/ r.logprobs \/ r.top_logprobs # {} \/ r.functions # {} \/ r.function_call # {}
  \/ r.lora_path # {} \/ r.return_hidden_states \/ r.echo = {TRUE}
  \/ ~(DOMAIN r.other \subseteq SupportedOther)

MaxNewTokens(r) == OrElse(GetMaxTokens(r), {0})

(* chat_to_generate_request; 0 on the wire stands for "not given".          *)
ChatToGenerateRequest(r, prompt) ==
  LET value(S, default) == The(OrElse(S, {default}))
      stops == SplitStops(r)
      output == StructuredOutput(r)
      others == {OtherBool(r, "add_special_tokens"), OtherString(r, "cache_salt"), OtherString(r, "lora_name"),
                 OtherU32(r, "truncate_prompt_tokens"), OtherI32(r, "priority"), OtherBool(r, "watermarking")}
  IN IF \/ Unsupported(r) \/ stops.err \/ output.err \/ (\E b \in r.logit_bias : ~b.isToken)
        \/ (\E k \in r.top_k : k < 0) \/ (\E o \in others : o.err) THEN Fail
     ELSE Ok({[prompt |-> prompt, model |-> value(r.model, ""), temperature |-> value(r.temperature, 10),
               top_k |-> value(r.top_k, 0), top_p |-> value(r.top_p, 0), min_p |-> value(r.min_p, 0),
               presence_penalty |-> value(r.presence_penalty, 0), frequency_penalty |-> value(r.frequency_penalty, 0),
               repetition_penalty |-> value(r.repetition_penalty, 0), constraint |-> output.got,
               max_new_tokens |-> The(MaxNewTokens(r)), min_new_tokens |-> value(r.min_tokens, 0),
               stops |-> The(stops.got), include_stops |-> r.no_stop_trim,
               output_text |-> RequiresWorkerOutputText(r),
               salt |-> OtherString(r, "cache_salt").got, lora |-> OtherString(r, "lora_name").got,
               truncate |-> OtherU32(r, "truncate_prompt_tokens").got, priority |-> OtherI32(r, "priority").got,
               session |-> {x \in UNION {AsStr(s) : s \in r.session} : x # ""}]})

(* EngineFrontend::prepare and dispatch: the model's default temperature,   *)
(* then the prompt, then the worker's request.                              *)
Lowered(r, default) ==
  LET set == IF r.temperature = {} THEN [r EXCEPT !.temperature = OrElse(default, {10})] ELSE r
      prompt == PromptOf(set)
  IN IF prompt.err THEN Fail ELSE ChatToGenerateRequest(set, The(prompt.got))

-----------------------------------------------------------------------------
(* What a gRPC worker is asked for is what the client asked for: a request  *)
(* is lowered with every limit, stop, constraint and temperature it names,  *)
(* or it is refused; none is dropped on the way.                            *)
NothingAskedIsDropped ==
  Calling("chat") =>
    \A w \in Lowered(call.r, call.default).got :
      LET r == call.r
      IN /\ r.temperature \subseteq {w.temperature}
         /\ r.temperature = {} => w.temperature \in OrElse(call.default, {10})
         /\ r.max_completion_tokens \subseteq {w.max_new_tokens}
         /\ r.max_completion_tokens = {} => r.max_tokens \subseteq {w.max_new_tokens}
         /\ r.min_tokens \subseteq {w.min_new_tokens}
         /\ r.stop_token_ids \subseteq {w.stops.ids}
         /\ \A s \in r.stop : ToSet(s.items) \ {""} \subseteq ToSet(w.stops.strings)
         /\ {c.kind : c \in w.constraint} = {c.kind : c \in Constraints(r) \cup ParamConstraints(r)}
         /\ {m.role : m \in ToSet(w.prompt.messages)} = {m.kind : m \in ToSet(r.messages)}
         /\ r.top_logprobs = {} /\ r.functions = {} /\ r.echo # {TRUE}

(* Of a constraint that validation accepts the gRPC adapter never says that *)
(* there is more than one: the two checks, in protocols/validation.rs and   *)
(* in backend/convert.rs, agree on what a constraint is.                    *)
ValidatedConstraintsLower ==
  Calling("chat") /\ ValidateChat(call.r) = {} /\ call.r.structured_outputs = {} => ~StructuredOutput(call.r).err

(* A hidden stop is trimmed by the worker: whenever a stop string or token  *)
(* is lowered and is not to be shown, the worker's own text is asked for    *)
(* (the token ids alone do not hold the boundary).                          *)
HiddenStopsAskForText ==
  Calling("chat") =>
    \A w \in Lowered(call.r, call.default).got :
      (w.stops.strings # <<>> \/ w.stops.ids # <<>>) /\ ~w.include_stops => w.output_text

(* Model aliases keep a frontend each ("so aliases do not collapse into one *)
(* global key in multi-model routing"), and whoever shares a cached one     *)
(* would have loaded the same assets.                                       *)
AliasesKeepTheirFrontend ==
  Calling("resolve") =>
    \A a \in ModelResolution(call.model, call.env).got, b \in ModelResolution(call.other, call.env).got :
      LET names == {Trimmed(x) : x \in call.model \cup call.other} \ {""}
      IN /\ a.key = b.key => a.source = b.source
         /\ Cardinality(names) = 2 => a.key # b.key

=============================================================================
