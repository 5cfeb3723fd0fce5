----------------------------- MODULE Discovery ------------------------------
(***************************************************************************)
(* Two ways workers are found: announcements of vLLM instances, and pods of*)
(* a Kubernetes cluster.                                                   *)
(*                                                                         *)
(* The ServiceRegistry of routers/http/vllm_service_discovery.rs: vLLM     *)
(* instances announce themselves over ZMQ, one loop handles one message a  *)
(* turn and then drops the expired entries.  The clock is the time every   *)
(* entry has left; the messages on their way may be lost, late or reordered.*)
(***************************************************************************)
EXTENDS Naturals, FiniteSets, Sequences, Functions

CONSTANTS
  Instances,      \* HTTP addresses
  PingSeconds,    \* DEFAULT_PING_SECONDS
  MoriIO,         \* the connector is MoRI-IO
  Announcements   \* the registrations that are sent, a set of Announcement

Modes == {"READ", "WRITE"}
Announcement == [type : {"P", "D", "X"}, at : Instances, mode : Modes \cup {"?"}]
Absent == 0       \* an entry that is not there; one that is has left + 1

ASSUME PingAssumption == PingSeconds \in Nat
ASSUME MoriIOAssumption == MoriIO \in BOOLEAN
ASSUME AnnouncementsAssumption == Announcements \subseteq Announcement

VARIABLES
  lease,     \* prefill_instances and decode_instances: type, address -> seconds left + 1
  mode,      \* moriio_transfer_mode, or "unset"
  wire,      \* the messages on their way
  sending,   \* the announcements still repeated by their instances
  turn,      \* where the loop is: receive, clean, or stopped
  modeOf     \* the mode the entry's instance announced

discoveryVars == <<lease, mode, wire, sending, turn, modeOf>>

Keys == {"P", "D"} \X Instances

DiscoveryInit ==
  /\ lease = [k \in Keys |-> Absent]
  /\ mode = "unset"
  /\ wire = {}
  /\ sending = Announcements
  /\ turn \in {"receive", "stopped"}     \* the bind failed: nobody listens
  /\ modeOf = [k \in Keys |-> "unset"]

(* An instance pings, and may stop for good.                                 *)
Ping ==
  /\ \E a \in sending : wire' = wire \cup {a}
  /\ UNCHANGED <<lease, mode, sending, turn, modeOf>>

Falls ==
  /\ \E a \in sending : sending' = sending \ {a}
  /\ UNCHANGED <<lease, mode, wire, turn, modeOf>>

Lose ==
  /\ \E a \in wire : wire' = wire \ {a}
  /\ UNCHANGED <<lease, mode, sending, turn, modeOf>>

-----------------------------------------------------------------------------
Unchecked(a) == TRUE   \* mutant: the announced mode is not compared

(* parse_registration                                                        *)
Parses(a) == MoriIO => a.mode \in Modes /\ mode \in {"unset", a.mode}

CommitsFirst(a) == IF MoriIO /\ mode = "unset" THEN a.mode ELSE mode   \* mutant: any type commits

(* The mode is committed once, by a valid service type.                      *)
Commit(a) == IF MoriIO /\ mode = "unset" /\ a.type \in {"P", "D"} THEN a.mode ELSE mode

(* handle_registration_message: a dropped message, an unknown type, or an    *)
(* entry that lives PingSeconds from now.                                    *)
Handle ==
  /\ turn = "receive" /\ turn' = "clean"
  /\ \E a \in wire :
       /\ wire' = wire \ {a}
       /\ mode' = IF Parses(a) THEN Commit(a) ELSE mode
       /\ IF Parses(a) /\ a.type \in {"P", "D"}
          THEN /\ lease' = [lease EXCEPT ![<<a.type, a.at>>] = PingSeconds + 1]
               /\ modeOf' = [modeOf EXCEPT ![<<a.type, a.at>>] = a.mode]
          ELSE UNCHANGED <<lease, modeOf>>
  /\ UNCHANGED sending

(* EAGAIN, or a receive error: sleep, then clean all the same.               *)
NoMessage ==
  /\ turn = "receive" /\ turn' = "clean"
  /\ UNCHANGED <<lease, mode, wire, sending, modeOf>>

(* expires_at <= current_time                                                *)
Expired(k) == lease[k] = 1

(* cleanup_expired_instances                                                 *)
Clean ==
  /\ turn = "clean" /\ turn' = "receive"
  /\ lease' = [k \in Keys |-> IF Expired(k) THEN Absent ELSE lease[k]]
  /\ modeOf' = [k \in Keys |-> IF Expired(k) THEN "unset" ELSE modeOf[k]]
  /\ UNCHANGED <<mode, wire, sending>>

(* A second passes.                                                          *)
Second ==
  /\ lease' = [k \in Keys |-> IF lease[k] > 1 THEN lease[k] - 1 ELSE lease[k]]
  /\ UNCHANGED <<mode, wire, sending, turn, modeOf>>

(* shutdown: the loop leaves before its next message.                        *)
Shutdown ==
  /\ turn = "receive" /\ turn' = "stopped"
  /\ UNCHANGED <<lease, mode, wire, sending, modeOf>>

DiscoveryNext == Ping \/ Falls \/ Lose \/ Handle \/ NoMessage \/ Clean \/ Second \/ Shutdown

DiscoverySpec == DiscoveryInit /\ [][DiscoveryNext]_discoveryVars

-----------------------------------------------------------------------------
(* Properties                                                                *)

(* "Set on first MoRI-IO registration; subsequent mismatches are rejected":  *)
(* every instance a request can be sent to announced the committed mode,     *)
(* whatever order its messages and those of other instances came in.         *)
OneTransferMode == MoriIO => \A k \in Keys : lease[k] # Absent => modeOf[k] = mode

(* "committing the transfer mode ... only after the service type has been    *)
(* validated": an unknown service type leaves no mode behind that would shut *)
(* the real instances out.                                                   *)
ModeComesFromAnInstance ==
  [][mode' # mode => \E k \in Keys : lease'[k] # Absent /\ modeOf'[k] = mode']_discoveryVars

(* An instance that no longer pings is eventually not listed, as long as the *)
(* loop runs.                                                                *)
SilentInstancesGo ==
  \A k \in Keys :
    []((\A a \in sending : <<a.type, a.at>> # k) /\ (\A a \in wire : <<a.type, a.at>> # k)
       => <>(lease[k] = Absent \/ turn = "stopped"))

-----------------------------------------------------------------------------
(***************************************************************************)
(* Kubernetes service discovery, service_discovery.rs: a watcher of pods   *)
(* whose events add workers to the router and remove them.  Events are     *)
(* handled one at a time.  The cluster and the watcher are external: the   *)
(* watcher yields a pod whenever it is applied, never its removal, and     *)
(* after a failure it lists what there is.  The delays before that are     *)
(* left out: any time may pass.                                            *)
(***************************************************************************)

CONSTANTS
  PodNames,    \* pod names
  PodIps,      \* pod addresses; a worker URL is its pod's address
  PodLabels,   \* selectors a pod matches, by name: a subset of {"prefill", "decode", "worker"}
  NoRole,      \* not a worker
  MaxPodEvents \* bound on events in flight

ASSUME NoRoleAssumption == NoRole \notin {"regular", "prefill", "decode"}
ASSUME PodNamesAssumption == IsFiniteSet(PodNames)

VARIABLES
  cluster,     \* pods by name: none or one [ip, ready, deleting]
  events,      \* pods on their way to the handler
  watching,    \* the watcher is connected
  tracked,     \* tracked_pods
  podWorkers,  \* the role each address has in the router
  podMode      \* config.pd_mode and the router it meets: "regular", "pd", or "mismatch",
               \* the PD mode with a router that is not a VllmPDRouter

podVars == <<cluster, events, watching, tracked, podWorkers, podMode>>

PodInit ==
  /\ cluster = [n \in PodNames |-> {}]
  /\ events = <<>>
  /\ watching = TRUE
  /\ tracked = {}
  /\ podWorkers = [ip \in PodIps |-> NoRole]
  /\ podMode \in {"regular", "pd", "mismatch"}

-----------------------------------------------------------------------------
(* should_include: one of the two roles, or the general selector            *)
ShouldInclude(n) == IF podMode # "regular" THEN PodLabels[n] \cap {"prefill", "decode"} # {} ELSE "worker" \in PodLabels[n]

(* from_pod, pod_type: the prefill selector is tried first                  *)
PodType(n) ==
  IF podMode = "regular" THEN "regular"
  ELSE IF "prefill" \in PodLabels[n] THEN "prefill"
  ELSE IF "decode" \in PodLabels[n] THEN "decode" ELSE "regular"

PodInfo(n, pod) == [name |-> n, ip |-> pod.ip, ready |-> pod.ready, type |-> PodType(n)]

-----------------------------------------------------------------------------
(* The cluster (external)                                                   *)
PodApplied(n, pod) ==
  /\ watching => Len(events) < MaxPodEvents
  /\ cluster' = [cluster EXCEPT ![n] = {pod}]
  /\ events' = IF watching THEN Append(events, [name |-> n, pod |-> pod]) ELSE events
  /\ UNCHANGED <<watching, tracked, podWorkers, podMode>>

PodStarts(n) ==
  /\ cluster[n] = {}
  /\ \E ip \in {x \in PodIps : \A m \in PodNames : \A p \in cluster[m] : p.ip # x} :
       PodApplied(n, [ip |-> ip, ready |-> FALSE, deleting |-> FALSE])

PodProbed(n) == \E p \in cluster[n] : ~p.deleting /\ PodApplied(n, [p EXCEPT !.ready = ~@])

PodTerminates(n) == \E p \in cluster[n] : ~p.deleting /\ PodApplied(n, [p EXCEPT !.deleting = TRUE])

PodLeaves(n) ==
  /\ \E p \in cluster[n] : p.deleting
  /\ cluster' = [cluster EXCEPT ![n] = {}]
  /\ UNCHANGED <<events, watching, tracked, podWorkers, podMode>>

WatchBreaks ==
  /\ watching
  /\ watching' = FALSE /\ events' = <<>>
  /\ UNCHANGED <<cluster, tracked, podWorkers, podMode>>

(* The loop of start_service_discovery: a new watcher, a new listing.       *)
WatchResumes ==
  /\ ~watching
  /\ watching' = TRUE
  /\ LET present == {n \in PodNames : cluster[n] # {}}
     IN \E order \in Injection(1 .. Cardinality(present), present) :
          events' = [k \in DOMAIN order |-> [name |-> order[k], pod |-> CHOOSE p \in cluster[order[k]] : TRUE]]
  /\ UNCHANGED <<cluster, tracked, podWorkers, podMode>>

-----------------------------------------------------------------------------
(* The handler *)

(* add_worker, add_prefill_server, add_decode_server: refused for a known   *)
(* address, and when the worker does not answer; all of them with the       *)
(* wrong router.                                                            *)
Accepts(info, answers) == podMode # "mismatch" /\ answers /\ podWorkers[info.ip] = NoRole

KeepsReservation(info, added) == tracked \cup {info}   \* mutant: a failed addition stays tracked

TrackedAfterAdd(info, added) == IF added THEN tracked \cup {info} ELSE tracked \ {info}

(* handle_pod_event: reserve, add, roll back                                *)
HandlePodEvent(info, answers) ==
  LET added == Accepts(info, answers) IN
  IF ~info.ready \/ info \in tracked THEN UNCHANGED <<tracked, podWorkers>>
  ELSE /\ tracked' = TrackedAfterAdd(info, added)
       /\ podWorkers' = IF added THEN [podWorkers EXCEPT ![info.ip] = info.type] ELSE podWorkers

(* handle_pod_deletion                                                      *)
HandlePodDeletion(info) ==
  /\ tracked' = tracked \ {info}
  /\ podWorkers' = IF info \in tracked THEN [podWorkers EXCEPT ![info.ip] = NoRole] ELSE podWorkers

(* One item of the stream: filtered, converted and handled.                 *)
HandleNext(answers) ==
  /\ events # <<>>
  /\ LET n == Head(events).name
         pod == Head(events).pod
     IN IF ~ShouldInclude(n) THEN UNCHANGED <<tracked, podWorkers>>
        ELSE IF pod.deleting THEN HandlePodDeletion(PodInfo(n, pod))
        ELSE HandlePodEvent(PodInfo(n, pod), answers)
  /\ events' = Tail(events)
  /\ UNCHANGED <<cluster, watching, podMode>>

PodNext ==
  \/ \E n \in PodNames : PodStarts(n) \/ PodProbed(n) \/ PodTerminates(n) \/ PodLeaves(n)
  \/ WatchBreaks \/ WatchResumes
  \/ \E answers \in BOOLEAN : HandleNext(answers)

PodSpec == PodInit /\ [][PodNext]_podVars

-----------------------------------------------------------------------------
(* handle_pod_event and handle_pod_deletion: through failed additions,      *)
(* reused addresses, repeated listings and lost events, the addresses of    *)
(* tracked pods are the router's workers, each in the role of its pod.      *)
TrackingMatchesTheRouter ==
  /\ \A ip \in PodIps : podWorkers[ip] # NoRole <=> \E info \in tracked : info.ip = ip
  /\ \A info \in tracked : podWorkers[info.ip] = info.type

(* handle_pod_deletion, "if it wasn't tracked (and thus not added)": a pod  *)
(* whose deletion finds it untracked has no worker at its address.          *)
UntrackedPodsWereNotAdded ==
  [][\A e \in {events[k] : k \in DOMAIN events \cap {1}} :
       /\ watching' /\ Len(events') < Len(events)
       /\ ShouldInclude(e.name) /\ e.pod.deleting
       /\ PodInfo(e.name, e.pod) \notin tracked
       => podWorkers[e.pod.ip] = NoRole]_podVars
=============================================================================
