---------------------------- MODULE RouterConfig ----------------------------
(***************************************************************************)
(* From command line or Python arguments to an accepted configuration:     *)
(* main.rs, lib.rs, config/types.rs and config/validation.rs.              *)
(*                                                                         *)
(* A URL is [scheme, id]; id 0 has no valid host.  Ratios are tenths.  A   *)
(* float may be NaN, for which every comparison is false, or Infinite.     *)
(* Wording of errors is left out: a validator is the set of configurations *)
(* it lets through.                                                        *)
(***************************************************************************)
EXTENDS Integers, Sequences, SequencesExt, FiniteSetsExt, Call

NaN == -1000
Infinite == 1000
Finite(v) == v # NaN /\ v # Infinite
Leq(a, b) == a # NaN /\ b # NaN /\ a <= b
Lt(a, b) == a # NaN /\ b # NaN /\ a < b
MaxU32 == 2147483647   \* stands for u32::MAX

-----------------------------------------------------------------------------
(* config/validation.rs                                                     *)

UrlsOk(urls) ==
  \A u \in ToSet(urls) : u.scheme \in {"http", "https", "grpc"} /\ u.id # 0

(* classify_worker_urls through reject_mixed_worker_urls.                   *)
NotMixed(urls) ==
  /\ \A u \in ToSet(urls) : u.scheme # "grpcs"
  /\ \A u, v \in ToSet(urls) : (u.scheme = "grpc") = (v.scheme = "grpc")

PrefillUrls(mode) == [i \in DOMAIN mode.prefill |-> mode.prefill[i].url]

PolicyOk(p) ==
  CASE p.name = "cache_aware" ->
         /\ Leq(0, p.v.threshold) /\ Leq(p.v.threshold, 10)
         /\ ~Lt(p.v.rel, 10) /\ p.v.interval # 0 /\ p.v.size # 0
    [] p.name = "kv_aware" ->
         /\ Finite(p.v.temperature) /\ p.v.temperature >= 0
         /\ Finite(p.v.penalty) /\ p.v.penalty \in 0 .. 10
    [] OTHER -> TRUE   \* power_of_two and consistent_hash get constants > 0

HasVllmDiscovery(c) == c.mode.kind = "pd" /\ c.mode.address

HasServiceDiscovery(c) == c.discovery.on \/ HasVllmDiscovery(c)

(* RoutingMode::Regular: no URL at all is allowed.                          *)
RegularModeOk(mode) == UrlsOk(mode.workers) /\ NotMixed(mode.workers)

PdModeOk(mode, discovered) ==
  /\ discovered \/ (mode.prefill # <<>> /\ mode.decode # <<>>)
  /\ UrlsOk(PrefillUrls(mode)) /\ UrlsOk(mode.decode)
  /\ NotMixed(PrefillUrls(mode) \o mode.decode)
  /\ \A i \in DOMAIN mode.prefill : mode.prefill[i].port # 0
  /\ \A p \in mode.pPolicy \cup mode.dPolicy : PolicyOk(p)

(* url::Url::parse accepts any scheme.                                      *)
OpenAIModeOk(mode) == Len(mode.workers) = 1 /\ mode.workers[1].id # 0

ModeOk(c) ==
  CASE c.mode.kind = "regular" -> RegularModeOk(c.mode)
    [] c.mode.kind = "pd" -> PdModeOk(c.mode, HasServiceDiscovery(c))
    [] c.mode.kind = "openai" -> OpenAIModeOk(c.mode)

ServerSettingsOk(c) == \A field \in DOMAIN c.server : c.server[field] # 0

WatermarksOk(ps) == Lt(0, ps.low) /\ Leq(ps.low, ps.high) /\ Leq(ps.high, 10)

ProgramSchedulingOk(ps) ==
  /\ ps.strategy = "reasoning_token_balance" => ps.capacity # {}
  /\ \A v \in {ps.queue, ps.force, ps.positive} : Finite(v) /\ v > 0
  /\ Finite(ps.nonnegative) /\ ps.nonnegative >= 0
  /\ ps.alpha \in 0 .. 10 /\ ps.count # 0 /\ 0 \notin ps.capacity
  /\ Finite(ps.headroom) /\ ps.headroom >= 10
  /\ WatermarksOk(ps)
  /\ ps.force <= ps.queue

(* consumer_zmq_addrs is a map: one entry per key.                          *)
EpdAddressesOk(addrs, urls) ==
  addrs # <<>> => /\ urls # <<>> /\ Len(addrs) = Len(urls)
                  /\ \A u \in ToSet(urls) : \E a \in ToSet(addrs) : a.url = u
                  /\ \A a \in ToSet(addrs) : a.tcp

EpdConsumers(mode) == IF mode.kind = "regular" THEN mode.workers ELSE PrefillUrls(mode)

EpdOk(c) ==
  \A epd \in c.epd :
    /\ c.mode.kind = "regular" \/ (c.mode.kind = "pd" /\ ~c.mode.address)
    /\ c.dp = 1 /\ ~c.igw
    /\ epd.encoders # <<>> /\ UrlsOk(epd.encoders)
    /\ \A u \in ToSet(epd.encoders \o EpdConsumers(c.mode)) : u.scheme \in {"http", "https"}
    /\ EpdAddressesOk(epd.addrs, EpdConsumers(c.mode))

DiscoveryOk(d, kind) ==
  d.on => /\ d.port # 0
          /\ kind # "openai"
          /\ kind = "regular" => d.selector # {}
          /\ kind = "pd" => d.prefill \cup d.decode # {}

MetricsOk(c) == \A metrics \in c.metrics : metrics.port # 0 /\ metrics.host # ""

RetryOk(r) ==
  /\ r.max >= 1 /\ r.initial # 0 /\ r.cap >= r.initial
  /\ ~Lt(r.multiplier, 10) /\ Leq(0, r.jitter) /\ Leq(r.jitter, 10)

BreakerOk(b) == b.failure >= 1 /\ b.success >= 1 /\ b.timeout # 0 /\ b.window # 0

RolePolicy(explicit, main) == IF explicit = {} THEN main ELSE CHOOSE p \in explicit : TRUE

WorkerCount(mode) ==
  CASE mode.kind = "regular" -> Len(mode.workers)
    [] mode.kind = "pd" -> Len(mode.prefill) + Len(mode.decode)
    [] mode.kind = "openai" -> 1

EnoughWorkers(c) ==
  HasServiceDiscovery(c)
    \/ /\ c.policy.name = "power_of_two" => WorkerCount(c.mode) >= 2
       /\ c.mode.kind = "pd" =>
            /\ \A p \in c.mode.pPolicy : p.name = "power_of_two" => Len(c.mode.prefill) >= 2
            /\ \A p \in c.mode.dPolicy : p.name = "power_of_two" => Len(c.mode.decode) >= 2

ConnectorAnyDiscovery(c) == c.connector = "moriio" => HasServiceDiscovery(c)   \* mutant: Kubernetes discovery is enough

(* MoRI-IO's addresses come with the registrations of vLLM discovery.       *)
ConnectorOk(c) == c.connector = "moriio" => HasVllmDiscovery(c)

CompatibilityOk(c) ==
  /\ c.scheduling # {} => c.mode.kind = "regular"
  /\ c.igw \/ /\ c.mode.kind = "pd" =>
                   \A explicit \in {c.mode.pPolicy, c.mode.dPolicy} :
                      RolePolicy(explicit, c.policy).name # "kv_aware"
              /\ EnoughWorkers(c)
              /\ ConnectorOk(c)

EffectiveRetry(c) == IF c.noRetries THEN [c.retry EXCEPT !.max = 1] ELSE c.retry

EffectiveBreaker(c) ==
  IF c.noBreaker THEN [c.breaker EXCEPT !.failure = MaxU32] ELSE c.breaker

(* ConfigValidator::validate                                                *)
Valid(c) ==
  /\ ModeOk(c) /\ PolicyOk(c.policy) /\ ServerSettingsOk(c)
  /\ \A ps \in c.scheduling : ProgramSchedulingOk(ps)
  /\ EpdOk(c) /\ DiscoveryOk(c.discovery, c.mode.kind) /\ MetricsOk(c)
  /\ CompatibilityOk(c)
  /\ RetryOk(EffectiveRetry(c)) /\ BreakerOk(EffectiveBreaker(c))

-----------------------------------------------------------------------------
(* The two front ends.  Options o are what a user may say to either; an     *)
(* optional value is a set of at most one element.  {} is no configuration. *)

(* ProgramSchedulingConfig::resolve                                         *)
Resolve(o) ==
  CASE ~o.schedule /\ o.json = {} -> {{}}
    [] ~o.schedule /\ o.json # {} -> {}
    [] o.schedule /\ o.json = {} -> {{o.defaults}}
    [] o.schedule /\ o.json # {} -> {{ps} : ps \in {j \in o.json : j.parses}}

(* CliArgs::parse_selector: an item without '=' is dropped.                 *)
ParseSelector(items) == {i \in ToSet(items) : i # "bare"}

(* parse_policy and convert_policy: the tuning flags are shared by every    *)
(* policy that has such settings.                                           *)
PolicyNames == {"random", "round_robin", "cache_aware", "kv_aware", "power_of_two",
                "consistent_hash", "rendezvous_hash"}

ParsePolicy(o, name) ==
  [name |-> IF name \in PolicyNames THEN name ELSE "round_robin", v |-> o.tuning]

ConvertPolicy(o, name) == [name |-> name, v |-> o.tuning]

NoRoles == [prefill |-> <<>>, decode |-> <<>>, pPolicy |-> {}, dPolicy |-> {}, address |-> FALSE]

RegularMode(urls) == [kind |-> "regular", workers |-> urls] @@ NoRoles

PdMode(o, convert(_, _)) ==
  [kind |-> "pd", workers |-> <<>>, prefill |-> o.prefill, decode |-> o.decode,
   pPolicy |-> {convert(o, n) : n \in o.pPolicy},
   dPolicy |-> {convert(o, n) : n \in o.dPolicy}, address |-> o.address]

(* The value_parser lists of clap: a role's policy cannot be kv_aware.      *)
ClapAccepts(o) ==
  /\ o.policy \in PolicyNames /\ o.connector # "unknown"
  /\ o.pPolicy \cup o.dPolicy \subseteq PolicyNames \ {"kv_aware"}

(* The mode the command line asks for; {} refuses it.                       *)
CliMode(o) ==
  CASE o.igw -> {RegularMode(<<>>)}
    [] ~o.igw /\ o.openai -> {[RegularMode(o.workers) EXCEPT !.kind = "openai"]}
    [] ~o.igw /\ ~o.openai /\ o.pd ->
         IF o.prefill \o o.decode # <<>> \/ o.address
            \/ (o.k8s /\ o.pSelector \o o.dSelector # <<>>)
           THEN {PdMode(o, ParsePolicy)} ELSE {}
    [] OTHER -> IF o.k8s \/ o.workers # <<>> THEN {RegularMode(o.workers)} ELSE {}

PyMode(o) ==
  CASE o.igw -> RegularMode(<<>>)
    [] ~o.igw /\ o.pd -> PdMode(o, ConvertPolicy)
    [] OTHER -> RegularMode(o.workers)

(* Both take most fields over as they are.                                  *)
Common(o) ==
  [server |-> o.server, dp |-> o.dp, retry |-> o.retry, breaker |-> o.breaker, igw |-> o.igw,
   noRetries |-> o.noRetries, noBreaker |-> o.noBreaker, connector |-> o.connector]

NoDiscovery == [on |-> FALSE, port |-> 0, selector |-> {}, prefill |-> {}, decode |-> {}]

CliDiscovery(o) ==
  IF ~o.k8s THEN NoDiscovery
  ELSE [on |-> TRUE, port |-> o.k8sPort, selector |-> ParseSelector(o.selector),
        prefill |-> ParseSelector(o.pSelector), decode |-> ParseSelector(o.dSelector)]

(* Python passes dictionaries: there is nothing to parse.                   *)
PyDiscovery(o) ==
  IF ~o.k8s THEN NoDiscovery
  ELSE [on |-> TRUE, port |-> o.k8sPort, selector |-> ToSet(o.selector),
        prefill |-> ToSet(o.pSelector), decode |-> ToSet(o.dSelector)]

(* The command line always has a metrics address, and refuses a malformed   *)
(* --epd-config.                                                            *)
CliConfig(o) ==
  IF ~ClapAccepts(o) THEN {} ELSE
  {[mode |-> mode, scheduling |-> ps, policy |-> ParsePolicy(o, o.policy),
    discovery |-> CliDiscovery(o), metrics |-> {o.metrics}, epd |-> o.epd] @@ Common(o) :
      mode \in CliMode(o), ps \in Resolve(o)}

(* Python needs both halves of it, and has no EPD nor OpenAI mode.          *)
PyConfig(o) ==
  IF o.connector = "unknown" THEN {}
  ELSE {[mode |-> PyMode(o), scheduling |-> ps, policy |-> ConvertPolicy(o, o.policy),
         discovery |-> PyDiscovery(o), epd |-> {},
         metrics |-> IF o.metrics.port = -1 \/ o.metrics.host = "unset" THEN {} ELSE {o.metrics}]
        @@ Common(o) : ps \in Resolve(o)}

CliAccepts(o) == {c \in CliConfig(o) : Valid(c)}

PyAccepts(o) == {c \in PyConfig(o) : Valid(c)}

(* What both front ends can say.                                            *)
Shared(o) ==
  /\ ~o.openai /\ o.epd = {} /\ o.policy \in PolicyNames \ {"rendezvous_hash"}
  /\ o.metrics.port # -1 /\ o.metrics.host # "unset" /\ o.connector # "unknown"
  /\ "bare" \notin ToSet(o.selector \o o.pSelector \o o.dSelector)
  /\ "kv_aware" \notin o.pPolicy \cup o.dPolicy

-----------------------------------------------------------------------------
(* split_prefill_args_from_others: --prefill takes a URL and then, maybe,   *)
(* a port or "none".  Words: "--prefill", "flag", "url", "none", "port",    *)
(* "large" (a number no u16 holds).  The state of the scan is what it has   *)
(* collected and what it expects next.                                      *)

PortWord(word) == word \in {"none", "port"}

SplitStep(s, word) ==
  CASE s.expects = "url" ->
         IF word \in {"--prefill", "flag"} THEN [s EXCEPT !.ok = FALSE]
         ELSE [s EXCEPT !.expects = "port", !.prefill = Append(@, [url |-> word, port |-> "none"])]
    [] s.expects = "port" /\ PortWord(word) ->
         [s EXCEPT !.expects = "any", !.prefill[Len(s.prefill)].port = word]
    [] OTHER -> IF word = "--prefill" THEN [s EXCEPT !.expects = "url"]
                ELSE [s EXCEPT !.expects = "any", !.other = Append(@, word)]

SplitPrefill(words) ==
  LET start == [ok |-> TRUE, expects |-> "any", prefill |-> <<>>, other |-> <<>>]
      end == FoldLeft(LAMBDA s, w : IF s.ok THEN SplitStep(s, w) ELSE s, start, words)
  IN [end EXCEPT !.ok = @ /\ end.expects # "url"]

-----------------------------------------------------------------------------
(* The two front ends accept the same options and build the same            *)
(* configuration from them, with one exception the code comments on: the    *)
(* command line refuses regular mode without workers or discovery, the      *)
(* Python binding starts such a router.                                     *)
FrontEndsAgree ==
  (Calling("config") /\ Shared(call.o)) =>
    LET o == call.o
        empty == ~o.igw /\ ~o.pd /\ ~o.k8s /\ o.workers = <<>>
    IN IF empty THEN CliAccepts(o) = {} ELSE CliAccepts(o) = PyAccepts(o)

(* An accepted PD configuration has a source of workers for each role: a    *)
(* list, registrations, or a selector of its own.  Kubernetes discovery is  *)
(* let through with the selector of one role and then needs the other role  *)
(* to be listed, which nobody checks; without any source nothing is.        *)
RolesCanBeServed ==
  Calling("config") =>
    \A c \in CliAccepts(call.o) \cup PyAccepts(call.o) :
      LET served(list, selector) == list # <<>> \/ c.mode.address \/ (c.discovery.on /\ selector # {})
          prefill == served(c.mode.prefill, c.discovery.prefill)
          decode == served(c.mode.decode, c.discovery.decode)
      IN c.mode.kind = "pd" => IF c.discovery.on THEN prefill \/ decode ELSE prefill /\ decode

(* Outside IGW a router that transfers KV by MoRI-IO hears registrations,   *)
(* and no PD role, whether its policy is its own or the main one, selects   *)
(* by KV events.                                                            *)
RolesSupportTheirSettings ==
  Calling("config") =>
    \A c \in CliAccepts(call.o) \cup PyAccepts(call.o) :
      ~c.igw => /\ c.connector = "moriio" => c.mode.kind = "pd" /\ c.mode.address
                /\ c.mode.kind = "pd" =>
                     /\ "kv_aware" \notin {p.name : p \in c.mode.pPolicy \cup c.mode.dPolicy}
                     /\ (c.mode.pPolicy = {} \/ c.mode.dPolicy = {}) => c.policy.name # "kv_aware"

(* An accepted EPD configuration with EC addresses has one for each         *)
(* embedding consumer and none for anything else, unless a consumer URL is  *)
(* listed twice.                                                            *)
EpdMapsItsConsumers ==
  Calling("config") =>
    \A c \in CliAccepts(call.o) : \A epd \in c.epd :
      LET urls == EpdConsumers(c.mode)
      IN (epd.addrs # <<>> /\ IsInjective(urls)) => {a.url : a \in ToSet(epd.addrs)} = ToSet(urls)

(* The scheduler's arithmetic gets what it relies on, NaN included: the     *)
(* low watermark is above zero and not above the high one, the force        *)
(* deadline is not after the queue deadline, token balance has a capacity;  *)
(* and the retry loop gets at least one attempt.                            *)
SchedulerSettingsAreSound ==
  Calling("config") =>
    \A c \in CliAccepts(call.o) \cup PyAccepts(call.o) :
      /\ EffectiveRetry(c).max >= 1
      /\ \A ps \in c.scheduling :
           /\ 0 < ps.low /\ ps.low <= ps.high /\ ps.high <= 10
           /\ 0 < ps.force /\ ps.force <= ps.queue /\ ps.queue # Infinite
           /\ ps.strategy = "reasoning_token_balance" => \E n \in ps.capacity : n > 0

(* Splitting loses and reorders nothing: every --prefill is followed by the *)
(* URL taken with it and by its port if the word after that is one, and the *)
(* other arguments are all the other words in their order, a number that is *)
(* no port among them.                                                      *)
SplitKeepsTheRest ==
  Calling("split") =>
    LET w == call.words
        out == SplitPrefill(w)
        heads == {i \in DOMAIN w : w[i] = "--prefill"}
        ports == {i \in DOMAIN w : i - 2 \in heads /\ PortWord(w[i])}
        taken == heads \cup {i + 1 : i \in heads} \cup ports
        head == SetToSortSeq(heads, <)
        rest == SetToSortSeq(DOMAIN w \ taken, <)
    IN /\ out.ok <=> \A i \in heads : i + 1 \in DOMAIN w /\ w[i + 1] \notin {"--prefill", "flag"}
       /\ out.ok => /\ out.other = [k \in DOMAIN rest |-> w[rest[k]]]
                    /\ out.prefill = [k \in DOMAIN head |->
                         [url |-> w[head[k] + 1],
                          port |-> IF head[k] + 2 \in ports THEN w[head[k] + 2] ELSE "none"]]
=============================================================================
