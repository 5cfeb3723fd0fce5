-------------------------- MODULE ProgramIdentity ---------------------------
(***************************************************************************)
(* The key of a request for the hash policies, and the identity of its     *)
(* Program.                                                                *)
(*                                                                         *)
(* The routing key of the hash policies (policies/hash_key.rs).            *)
(*                                                                         *)
(* The code scans the raw request text, so a text is a sequence of tokens  *)
(* [q, w]: the word w inside the quotes q ("d" double, "s" single, "" for  *)
(* a bare word or a punctuation mark).  White space is left out.  headers  *)
(* maps every header name to a value, a sequence of words; Absent is no    *)
(* header and Unreadable a value that is not text.                         *)
(***************************************************************************)
EXTENDS Integers, Sequences, SequencesExt, FiniteSetsExt, Call

CONSTANT LongText   \* texts of more tokens are hashed instead of kept

Absent == <<"absent">>
Unreadable == <<"unreadable">>
Blank == <<>>

Mark(w) == [q |-> "", w |-> w]
Quoted(w) == [q |-> "d", w |-> w]

SessionHeaderNames ==
  <<"x-session-id", "x-user-id", "x-tenant-id", "x-correlation-id", "x-request-id", "x-trace-id">>

Positions(t, Test(_)) == {i \in DOMAIN t : Test(t[i])}

FirstAt(S) == IF S = {} THEN {} ELSE {Min(S)}

(* The position after "name" and its colon: only the first occurrence of    *)
(* the pattern is looked at.                                                *)
AfterColon(t, at) == {i + 2 : i \in {j \in at : j < Len(t) /\ t[j + 1] = Mark(":")}}

FindFieldStart(t, name) ==
  LET of(q) == AfterColon(t, FirstAt(Positions(t, LAMBDA x : x = [q |-> q, w |-> name])))
  IN OrElse(of("d"), of("s"))

(* extract_json_object: from an opening brace to the one that closes it.    *)
Opened(t, from, to) ==
  Cardinality({i \in from .. to : t[i] = Mark("{")}) - Cardinality({i \in from .. to : t[i] = Mark("}")})

ExtractJsonObject(t, from) ==
  {SubSeq(t, from, to) : to \in FirstAt({i \in from .. Len(t) : Opened(t, from, i) = 0})}

Delimiters == {Mark(","), Mark("}"), Mark("]")}

(* A quoted word, or everything up to a delimiter; an empty value is none.  *)
ValueAt(t, i) ==
  IF i > Len(t) THEN {}
  ELSE IF t[i].q # "" THEN {<<t[i].w>>}
  ELSE LET ends == {j \in i .. Len(t) : t[j] \in Delimiters}
           last == IF ends = {} THEN Len(t) ELSE Min(ends) - 1
       IN IF last < i THEN {} ELSE {[k \in 1 .. last - i + 1 |-> t[i + k - 1].w]}

(* The bare pattern also matches inside a longer word, where no colon       *)
(* follows it.                                                              *)
WordsWith(name) == IF name = "user" THEN {"user", "user_id"} ELSE {name}

FirstBare(t, name) ==
  {i \in FirstAt(Positions(t, LAMBDA x : x.w \in WordsWith(name))) : t[i] = Mark(name)}

ExtractFieldValue(t, name) ==
  LET value(at) == UNION {ValueAt(t, i) : i \in AfterColon(t, at)}
      quoted(q) == FirstAt(Positions(t, LAMBDA x : x = [q |-> q, w |-> name]))
  IN OrElse(value(quoted("d")), OrElse(value(quoted("s")), value(FirstBare(t, name))))

ExtractNestedFieldValue(t, parent, child) ==
  UNION {UNION {ExtractFieldValue(o, child) : o \in ExtractJsonObject(t, b)} :
           b \in UNION {FirstAt({i \in s .. Len(t) : t[i] = Mark("{")}) : s \in FindFieldStart(t, parent)}}

Tagged(tag, values) == {<<tag>> \o v : v \in values}

ExtractHashKeyFromBody(t) ==
  OrElse(Tagged("session", ExtractNestedFieldValue(t, "session_params", "session_id")),
    OrElse(Tagged("user", ExtractFieldValue(t, "user")),
      OrElse(Tagged("session", ExtractFieldValue(t, "session_id")),
             Tagged("user", ExtractFieldValue(t, "user_id")))))

(* headers_to_request_headers drops what is not text; an empty value is     *)
(* passed over.                                                             *)
Readable(headers, name) == headers[name] \notin {Absent, Unreadable, Blank}

ExtractHashKeyFromHeaders(headers) ==
  {<<"header", n>> \o headers[n] : n \in FirstOf(SessionHeaderNames, LAMBDA x : Readable(headers, x))}

WordsOf(t) == [i \in DOMAIN t |-> t[i].w]

(* The hash of a long text is taken to tell any two texts apart.            *)
FallbackKey(t) == (IF Len(t) > LongText THEN <<"request_hash">> ELSE <<"request">>) \o WordsOf(t)

ExtractHashKey(t, headers) ==
  CHOOSE k \in OrElse(ExtractHashKeyFromHeaders(headers),
                      OrElse(ExtractHashKeyFromBody(t), {FallbackKey(t)})) : TRUE

-----------------------------------------------------------------------------
(* A body as its fields in wire order: [f, v]; session_params is an object  *)
(* with one session_id.                                                     *)
FieldTokens(field) ==
  <<Quoted(field.f), Mark(":")>> \o
  (IF field.f = "session_params"
   THEN <<Mark("{"), Quoted("session_id"), Mark(":"), Quoted(field.v), Mark("}")>>
   ELSE <<Quoted(field.v)>>)

BodyTokens(fields) ==
  <<Mark("{")>> \o
  FlattenSeq([i \in DOMAIN fields |->
    (IF i = 1 THEN <<>> ELSE <<Mark(",")>>) \o FieldTokens(fields[i])]) \o <<Mark("}")>>

(* A request that names its session in a header is routed by that header    *)
(* whatever its body says and whatever request and trace ids it carries     *)
(* (extract_hash_key, SESSION_HEADER_NAMES).                                *)
SessionsAreSticky ==
  Calling("key") =>
    \A h \in {call.headers, [call.headers EXCEPT !["x-request-id"] = <<"other">>, !["x-trace-id"] = <<"t">>]} :
      call.headers["x-session-id"] \notin {Absent, Unreadable, Blank} =>
        ExtractHashKey(BodyTokens(call.fields), h) = ExtractHashKey(<<>>, call.headers)

(* Scanning the raw text finds the same field as reading the body as JSON   *)
(* would, in the documented order session_params.session_id, user,          *)
(* session_id, user_id, wherever the fields stand in the body.  The one     *)
(* exception is a field whose name is also the value of an earlier one, as  *)
(* in "role":"user" before "user": it is passed over.  A session_params     *)
(* that is passed over still shows its session_id as the legacy field.  An  *)
(* empty session header changes nothing.                                    *)
ScanFindsTheField ==
  Calling("key") /\ Range(call.headers) \subseteq {Absent, Unreadable, Blank} =>
    LET b == call.fields
        names(i) == {b[i].f} \cup (IF b[i].f = "session_params" THEN {"session_id"} ELSE {})
        shown(f) == {i \in FirstAt({k \in DOMAIN b : f \in names(k)}) : \A j \in 1 .. i - 1 : b[j].v # f}
        best == FirstOf(<<"session_params", "user", "session_id", "user_id">>, LAMBDA f : shown(f) # {})
        key == ExtractHashKey(BodyTokens(b), call.headers)
    IN /\ best = {} => key = FallbackKey(BodyTokens(b))
       /\ \A f \in best, i \in UNION {shown(g) : g \in best} :
            key = <<IF f \in {"session_params", "session_id"} THEN "session" ELSE "user", b[i].v>>

-----------------------------------------------------------------------------
(***************************************************************************)
(* Program identity at the router boundary (program_scheduling/identity.rs *)
(* and program_identity_payload of protocols/spec.rs).                     *)
(*                                                                         *)
(* An identifier is the sequence of its parts between ':' signs; its size  *)
(* is their number.  A JSON value is a record with its type t and v, a     *)
(* string's identifier (<<>> when blank) or an object's members; n, an     *)
(* integer; or b, a boolean.  A string that holds a JSON object has type   *)
(* "text".  An object is a function from the keys it has.  An optional value is a set of at most *)
(* one element, and a result is [err, got].                                *)
(***************************************************************************)

CONSTANTS
  MaxIdentity,       \* largest identifier that is kept
  MaxPlacementKey    \* largest placement hash key

Lead == <<"lead">>
Subagent == <<"subagent">>

(* The identifiers integers print as.                                       *)
Digits(n) == CASE n = 7 -> <<"7">> [] n = -1 -> <<"-1">> [] OTHER -> <<"0">>

(* The first key that is there and not null decides.                        *)
DecidingKey(ctx, keys) == FirstOf(keys, LAMBDA k : k \in DOMAIN ctx /\ ctx[k].t # "null")

ContextString(ctx, keys) ==
  LET values == {ctx[k] : k \in DecidingKey(ctx, keys)}
  IN IF \E x \in values : ~(x.t = "int" \/ (x.t = "str" /\ x.v # <<>>)) THEN Fail
     ELSE Ok({IF x.t = "int" THEN Digits(x.n) ELSE x.v : x \in values})

ContextOf(ctx, keys, Fits(_)) ==
  LET values == {ctx[k] : k \in DecidingKey(ctx, keys)}
  IN IF \A x \in values : Fits(x) THEN Ok(values) ELSE Fail

ContextBool(ctx, keys) == ContextOf(ctx, keys, LAMBDA x : x.t = "bool")
ContextU64(ctx, keys) == ContextOf(ctx, keys, LAMBDA x : x.t = "int" /\ x.n >= 0)
ContextI64(ctx, keys) == ContextOf(ctx, keys, LAMBDA x : x.t = "int")
ContextDuration(ctx, keys) == ContextOf(ctx, keys, LAMBDA x : x.t = "int" /\ x.n >= 0)

ScopedProgramId(session, actor) ==
  IF IsStrictPrefix(session, actor) THEN actor ELSE session \o actor

(* strip_prefix("task:"): nothing left of the agent is an error.            *)
NormalizedAgent(task, agent) ==
  LET scoped == {a \in agent : \E t \in task : IsStrictPrefix(t, a)}
      left(a) == CHOOSE c \in {SubSeq(a, Len(t) + 1, Len(a)) : t \in task} : TRUE
  IN IF \E a \in scoped : left(a) = <<"">> THEN Fail
     ELSE Ok({IF a \in scoped THEN left(a) ELSE a : a \in agent})

RelatedInTask(program, agent, related, task) ==   \* mutant: an explicit program id is not looked at
  {ScopedProgramId(t, related) : t \in task}

RelatedProgramId(program, agent, related, task) ==
  LET prefix == {SubSeq(program, 1, Len(program) - Len(a)) : a \in {b \in agent : IsStrictSuffix(b, program)}}
  IN OrElse({p \o related : p \in prefix}, {ScopedProgramId(t, related) : t \in task})

-----------------------------------------------------------------------------
ReadNonemptyHeader(headers, name) ==
  IF headers[name] = Unreadable THEN Fail ELSE Ok({headers[name]} \ {Absent, Blank})

(* [session, agent, parent] headers of the supported frameworks.            *)

Frameworks ==
  << <<"x-claude-code-session-id", "x-claude-code-agent-id", "x-claude-code-parent-agent-id">>,
     <<"session-id", "thread-id">>, <<"x-session-id">> >>

(* An unreadable session header is an error unless an earlier one decides.  *)
FrameworkIdentityHeaders(headers) ==
  LET at(f, i) == IF i \in DOMAIN f THEN ReadNonemptyHeader(headers, f[i]) ELSE Ok({})
      none == [err |-> FALSE, session |-> {}, agent |-> {}, parent |-> {}]
      chosen == FirstOf(Frameworks, LAMBDA f : at(f, 1).err \/ at(f, 1).got # {})
  IN IF chosen = {} THEN none
     ELSE LET f == CHOOSE x \in chosen : TRUE
          IN [err |-> \E i \in 1 .. 3 : at(f, i).err,
              session |-> at(f, 1).got, agent |-> at(f, 2).got, parent |-> at(f, 3).got]

(* vllm_xargs.agentic_context, an object or a text that holds one; fits is  *)
(* the size limit.                                                          *)
CanonicalContext(req) ==
  LET x == IF "vllm_xargs" \in DOMAIN req THEN req["vllm_xargs"] ELSE Null
      c == IF x.t = "obj" /\ "agentic_context" \in DOMAIN x.v THEN x.v["agentic_context"] ELSE Null
  IN IF x.t \notin {"null", "obj"} THEN Fail
     ELSE IF c.t = "null" THEN Ok({})
     ELSE IF c.t \in {"obj", "text"} /\ c.fits THEN Ok({c.v})
     ELSE Fail

Persisted(i) ==
  UNION {i.program, i.placement, i.pool, i.task, i.session, i.agent, i.parent, i.root, i.role,
         i.spawn, i.request}

NoHints == [request |-> {}, priority |-> {}, deadline |-> {}, output |-> {}, ttl |-> {}]

Built(program, placement, resume, pool) ==
  [program |-> {program}, placement |-> {placement}, pool |-> OrElse(pool, {<<"default">>}),
   resume |-> resume, task |-> {}, session |-> {}, agent |-> {}, parent |-> {}, root |-> {},
   role |-> {}, spawn |-> {}, blocks |-> FALSE, key |-> placement] @@ NoHints

RoleOf(agent) == IF agent \subseteq {Lead} THEN Lead ELSE Subagent

FrameworkIdentity(headers, pool) ==
  LET fw == FrameworkIdentityHeaders(headers)
      s == CHOOSE x \in fw.session : TRUE
      actor == NormalizedAgent(fw.session, fw.agent)
      parent == NormalizedAgent(fw.session, fw.parent)
      role == RoleOf(actor.got)
      lead == ScopedProgramId(s, Lead)
      program == CHOOSE p \in OrElse({ScopedProgramId(s, a) : a \in actor.got}, {lead}) : TRUE
  IN IF fw.err THEN Fail
     ELSE IF fw.session = {} THEN Ok({})
     ELSE IF actor.err \/ parent.err THEN Fail
     ELSE Ok({[Built(program, s, role = Lead, pool) EXCEPT
                 !.task = {s}, !.session = {s}, !.agent = actor.got, !.role = {role},
                 !.parent = OrElse({ScopedProgramId(s, p) : p \in parent.got},
                                   IF role = Subagent THEN {lead} ELSE {}),
                 !.blocks = (role = Subagent)]})

AgentHintIdentity(req, pool) ==
  LET hint == IF "agent_hint" \in DOMAIN req THEN req["agent_hint"] ELSE Null
      session == ContextString(hint.v, <<"session_id">>)
      parent == ContextString(hint.v, <<"parent_session_id">>)
      blocking == ContextBool(hint.v, <<"blocks_parent">>)
      blocks == TRUE \in OrElse({x.b : x \in blocking.got}, {TRUE})
      resuming == ContextBool(hint.v, <<"expected_resume">>)
      s == CHOOSE x \in session.got : TRUE
  IN IF hint.t = "null" THEN Ok({})
     ELSE IF hint.t # "obj" THEN Fail
     ELSE IF \/ session.err \/ parent.err \/ blocking.err \/ resuming.err
             \/ session.got = {} \/ (blocks /\ parent.got = {}) THEN Fail
     ELSE Ok({[Built(s, s, TRUE \in OrElse({x.b : x \in resuming.got}, {~blocks}), pool) EXCEPT
                 !.session = {s}, !.parent = parent.got, !.blocks = blocks]})

-----------------------------------------------------------------------------
(* The scheduling hints of one request.                                     *)
RequestHints(ctx) ==
  [request |-> ContextString(ctx, <<"request_id">>),
   priority |-> ContextI64(ctx, <<"priority">>),
   deadline |-> ContextDuration(ctx, <<"deadline", "deadline_seconds">>),
   output |-> ContextU64(ctx, <<"expected_output_length", "expected_output_tokens">>),
   ttl |-> ContextDuration(ctx, <<"kv_retention_ttl", "kv_retention_ttl_seconds">>)]

(* Who is asking: names as they come, in the order they stand in for each   *)
(* other; err is what refuses a request before its Program is looked at.    *)
Asking(ctx, fw) ==
  LET str(k) == ContextString(ctx, <<k>>)
      session == OrElse(str("session_id").got, fw.session)
      named == OrElse(str("agent_id").got, fw.agent)
      early == {str(k) : k \in {"program_id", "task_id", "session_id", "agent_id", "agent_role"}}
  IN [err |-> fw.err \/ \E r \in early : r.err,
      explicit |-> str("program_id").got, session |-> session, named |-> named,
      task |-> IF str("task_id").got # {} \/ (str("program_id").got # {} /\ "task_id" \in DOMAIN ctx)
               THEN str("task_id").got ELSE session]

(* The Program: its own name, or the task's name for the agent.             *)
Naming(ctx, who, agent) ==
  [who EXCEPT !.err = @ \/ agent.err] @@
  [agent |-> agent.got,
   role |-> OrElse(ContextString(ctx, <<"agent_role">>).got,
                   {IF a = Lead THEN Lead ELSE Subagent : a \in agent.got}),
   program |-> OrElse(who.explicit, {ScopedProgramId(t, a) : t \in who.task, a \in agent.got})]

ParentOf(ctx, who, agents) ==
  LET related(a) == RelatedProgramId(CHOOSE p \in who.program : TRUE, who.agent, a, who.task)
  IN OrElse(ContextString(ctx, <<"parent_program_id", "parent_id">>).got,
       OrElse(UNION {related(a) : a \in agents}, IF who.role = {Subagent} THEN related(Lead) ELSE {}))

Flag(result, default) == TRUE \in OrElse({x.b : x \in result.got}, {default})

Detailed(ctx, who, parent, blocks, hints, pool) ==
  LET resume == Flag(ContextBool(ctx, <<"expected_resume">>), ~(blocks /\ who.role = {Subagent}))
      placement == OrElse(who.task, OrElse(who.session, who.program))
  IN [Built(CHOOSE p \in who.program : TRUE, CHOOSE x \in placement : TRUE, resume, pool) EXCEPT
        !.task = who.task, !.session = who.session, !.agent = who.agent, !.parent = parent,
        !.root = ContextString(ctx, <<"root_program_id", "root_id">>).got, !.blocks = blocks,
        !.role = who.role, !.spawn = ContextString(ctx, <<"spawn_reason", "subagent_type", "agent_type">>).got,
        !.request = hints.request.got, !.priority = hints.priority.got, !.deadline = hints.deadline.got,
        !.output = hints.output.got, !.ttl = hints.ttl.got]

(* What is read once the Program is known, and refused when malformed.      *)
LateError(ctx, hints) ==
  \/ \E keys \in {<<"parent_program_id", "parent_id">>, <<"parent_agent_id">>, <<"root_program_id", "root_id">>,
                   <<"spawn_reason", "subagent_type", "agent_type">>} : ContextString(ctx, keys).err
  \/ \E keys \in {<<"blocks_parent", "blocking_parent">>, <<"expected_resume">>} : ContextBool(ctx, keys).err
  \/ ContextU64(ctx, <<"step_id">>).err
  \/ \E h \in DOMAIN hints : hints[h].err

Related(ctx, who, agents, hints, pool) ==
  LET parent == ParentOf(ctx, who, agents.got)
      blocks == Flag(ContextBool(ctx, <<"blocks_parent", "blocking_parent">>), who.role = {Subagent})
  IN IF who.err THEN Fail
     ELSE IF who.program = {} THEN Ok({})
     ELSE IF LateError(ctx, hints) \/ agents.err \/ parent = who.program \/ (blocks /\ parent = {}) THEN Fail
     ELSE Ok({Detailed(ctx, who, parent, blocks, hints, pool)})

NamedBy(ctx, fw, who, pool) ==
  LET named == IF who.named = {} /\ who.task # {} THEN {Lead} ELSE who.named
      parents == OrElse(ContextString(ctx, <<"parent_agent_id">>).got, fw.parent)
  IN Related(ctx, Naming(ctx, who, NormalizedAgent(who.task, named)),
             NormalizedAgent(who.task, parents), RequestHints(ctx), pool)

CanonicalIdentity(ctx, headers, pool) ==
  LET fw == FrameworkIdentityHeaders(headers) IN NamedBy(ctx, fw, Asking(ctx, fw), pool)

(* Framework session headers, then the headers and body of the hash policy. *)
ConsistentHashRequestKey(headers, text) ==
  LET named == <<"x-claude-code-session-id", "session-id", "x-session-id">>
      chosen == FirstOf(named, LAMBDA n : ReadNonemptyHeader(headers, n).got # {})
  IN CHOOSE k \in OrElse({<<"header", n>> \o headers[n] : n \in chosen},
                         {ExtractHashKey(text, headers)}) : TRUE

PersistedStringsFit(i) == \A x \in Persisted(i) : Len(x) <= MaxIdentity

(* Canonical context first, then the agent hint and the framework headers.  *)
Recognized(headers, req, pool, auto) ==
  LET canonical == CanonicalContext(req)
      hinted == AgentHintIdentity(req, pool)
  IN IF canonical.err THEN Fail
     ELSE IF canonical.got # {} THEN CanonicalIdentity(CHOOSE c \in canonical.got : TRUE, headers, pool)
     ELSE IF ~auto THEN Ok({})
     ELSE IF hinted.err \/ hinted.got # {} THEN hinted
     ELSE FrameworkIdentity(headers, pool)

WithPlacementHashKey(found, key) ==
  IF found.got = {} THEN found
  ELSE IF Len(key) > MaxPlacementKey \/ \E i \in found.got : ~PersistedStringsFit(i) THEN Fail
  ELSE Ok({[i EXCEPT !.key = key] : i \in found.got})

(* text is the serialized request the body key is scanned from.             *)
FromRequest(headers, req, pool, auto, text) ==
  WithPlacementHashKey(Recognized(headers, req, pool, auto), ConsistentHashRequestKey(headers, text))

(* The small part of the body identity parsing sees.                        *)
ProgramIdentityPayload(req, user) ==
  LET kept == DOMAIN req \cap {"vllm_xargs", "agent_hint", "session_params", "session_id", "user_id"}
  IN [k \in kept \cup {"user" : u \in user} |->
        IF k = "user" THEN [t |-> "str", v |-> CHOOSE u \in user : TRUE] ELSE req[k]]

-----------------------------------------------------------------------------
Identified == FromRequest(call.headers, ProgramIdentityPayload(call.req, {}), {}, TRUE, <<>>)

WithContext(ctx) == [vllm_xargs |-> [t |-> "obj", v |-> [agentic_context |-> [t |-> "obj", v |-> ctx, fits |-> TRUE]]]]

(* The same session, agent and parent name the same Program whether they    *)
(* come as framework headers or as the canonical context: a client that     *)
(* moves from one to the other keeps its Program, its parent and its role.  *)
SourcesNameOneProgram ==
  Calling("identity") /\ DOMAIN call.req = {} =>
    LET fw == FrameworkIdentityHeaders(call.headers)
        str(S) == [t |-> "str", v |-> CHOOSE x \in S : TRUE]
        ctx == [k \in {"session_id" : x \in fw.session} \cup {"agent_id" : x \in fw.agent}
                        \cup {"parent_agent_id" : x \in fw.parent} |->
                  CASE k = "session_id" -> str(fw.session)
                    [] k = "agent_id" -> str(fw.agent)
                    [] OTHER -> str(fw.parent)]
        plain == [n \in DOMAIN call.headers |-> Absent]
        other == FromRequest(plain, WithContext(ctx), {}, TRUE, <<>>)
    IN \A i \in Identified.got, j \in other.got :
         /\ i.program = j.program /\ i.placement = j.placement /\ i.parent = j.parent
         /\ i.role = j.role /\ i.blocks = j.blocks /\ i.resume = j.resume

(* Request and trace identifiers never become Program identifiers           *)
(* (identity.rs): two requests that differ only in them belong to the same  *)
(* Program or to none.                                                      *)
RequestIdsNameNoProgram ==
  Calling("identity") =>
    LET other == FromRequest([call.headers EXCEPT !["x-request-id"] = <<"r2">>, !["x-trace-id"] = <<"r3">>],
                             call.req, {}, TRUE, <<>>)
        named(r) == {[program |-> i.program, placement |-> i.placement, parent |-> i.parent] : i \in r.got}
    IN named(Identified) = named(other)

(* A subagent that names no parent waits for the Program its own lead is    *)
(* identified as, also when both name their Program explicitly as           *)
(* "prefix:agent" (related_program_id).                                     *)
SubagentsPointAtTheirLead ==
  Calling("identity") /\ "vllm_xargs" \in DOMAIN call.req =>
    \A c \in CanonicalContext(call.req).got, i \in Identified.got :
      LET explicit == {k \in {"program_id"} : k \in DOMAIN c}
          leadOf(k) == CASE k = "agent_id" -> Lead
                         [] k = "program_id" -> Append(Front(c[k].v), "lead")
                         [] OTHER -> <<>>
          leadCtx == [k \in (DOMAIN c \cap {"task_id", "session_id"}) \cup {"agent_id"} \cup explicit |->
                        IF k \in {"agent_id", "program_id"} THEN [t |-> "str", v |-> leadOf(k)] ELSE c[k]]
          lead == FromRequest(call.headers, WithContext(leadCtx), {}, TRUE, <<>>)
      IN ( /\ DOMAIN c \cap {"parent_program_id", "parent_id", "parent_agent_id", "agent_role"} = {}
           /\ i.role = {Subagent} /\ FrameworkIdentityHeaders(call.headers).parent = {}
           /\ \A k \in explicit : \E a \in i.agent : Len(a) = 1 /\ IsStrictSuffix(a, c[k].v) ) =>
           \A l \in lead.got : i.parent = l.program

(* Whatever is accepted is bounded in every string that outlives the        *)
(* request, and a Program that blocks its parent has one.                   *)
AcceptedIdentitiesAreSound ==
  Calling("identity") =>
    \A i \in Identified.got :
      /\ \A x \in UNION {i.program, i.placement, i.task, i.session, i.agent, i.parent, i.root, i.role,
                         i.spawn, i.request} : Len(x) <= MaxIdentity
      /\ i.blocks => i.parent # {}

=============================================================================
