-------------------------------- MODULE MCPd ---------------------------------
(***************************************************************************)
(* Prefill-decode requests, the server API, and both kinds of discovery    *)
(* side by side: the part that moves is chosen at the start, the others    *)
(* keep one initial state.                                                 *)
(***************************************************************************)
EXTENDS PdPath, Discovery

VARIABLE part

For(clients, direct, c, on) ==
  [direct |-> direct, connector |-> c, clients |-> clients, profile |-> "profile" \in on,
   epd |-> "epd" \in on, merge |-> "merge" \in on, stream |-> "stream" \in on]
Both == PdRequests
MCPdScenes ==
  {For(Both, TRUE, "nixl", {"stream"}), For(Both, TRUE, "nixl", {"epd", "merge"}),
   For(Both, FALSE, "nixl", {}), For(Both, FALSE, "mooncake", {"profile"}),
   For({"r1"}, TRUE, "mooncake", {"profile"}),
   For({"r1"}, FALSE, "write", {"profile", "merge"}), For(Both, FALSE, "write", {"stream"}),
   For(Both, TRUE, "mooncake", {"epd"}), For(Both, TRUE, "read", {"epd"}),
   For(Both, FALSE, "read", {"stream"}), For({}, TRUE, "nixl", {})}

Announce(t, a, m) == [type |-> t, at |-> a, mode |-> m]
MCAnnouncements ==
  {Announce("P", "i", "READ"), Announce("D", "j", "READ"), Announce("D", "i", "WRITE"),
   Announce("X", "j", "WRITE"), Announce("P", "j", "?")}

(* Pods: one of each role and one that matches both.                         *)
MCPodLabels == [p |-> {"prefill", "worker"}, q |-> {"decode"}, r |-> {"prefill", "decode", "worker"}]

vars == <<part, pdVars, pdServerVars, discoveryVars, podVars>>

AtRest(p) ==
  /\ p # "path" <=> scene.clients = {}
  /\ p # "servers" => byType["decode"] = {<<"h", Bare>>}
  /\ p # "discovery" => turn = "stopped"
  /\ p # "pods" => podMode = "regular"

PartInit ==
  /\ part \in {"path", "servers", "discovery", "pods"}
  /\ PdInit /\ PdServersInit /\ DiscoveryInit /\ PodInit /\ AtRest(part)

Step(p) == part = p /\ UNCHANGED part

PathStep(A) == Step("path") /\ A /\ UNCHANGED <<pdServerVars, discoveryVars, podVars>>
DiscoveryStep(A) == Step("discovery") /\ A /\ UNCHANGED <<pdVars, pdServerVars, podVars>>

PartNext ==
  \/ PathStep(PdNext)
  \/ Step("servers") /\ PdServersNext /\ UNCHANGED <<pdVars, discoveryVars, podVars>>
  \/ DiscoveryStep(DiscoveryNext)
  \/ Step("pods") /\ PodNext /\ UNCHANGED <<pdVars, pdServerVars, discoveryVars>>

(* A handler takes its next step and a sleeping task wakes up, the discovery *)
(* loop takes its turns and time passes; nobody has to disconnect or ping.   *)
PartFairness ==
  /\ \A r \in PdRequests : WF_vars(PathStep(HandlerStep(r)))
  /\ \A t \in Timers : WF_vars(PathStep(TimerStep(t)))
  /\ WF_vars(DiscoveryStep(Handle \/ NoMessage)) /\ WF_vars(DiscoveryStep(Clean))
  /\ WF_vars(DiscoveryStep(Second))

PdSpec == PartInit /\ [][PartNext]_vars /\ PartFairness

(* Requests and profiling end, and instances that stopped pinging are     *)
(* forgotten.                                                             *)
PdSettles == ProfilingEnds /\ RequestsEnd /\ SilentInstancesGo
=============================================================================
