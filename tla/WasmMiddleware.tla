--------------------------- MODULE WasmMiddleware ---------------------------
(***************************************************************************)
(* The WASM OnRequest middleware, wasm_middleware.rs: requests on attached *)
(* routes are handed to a pool of worker threads through a bounded channel *)
(* guarded by permits, and go on only as the guest decides.  The guest is  *)
(* external; the epoch deadline ends every call of it.  What its answers   *)
(* do to a request's headers is Gateway.                                   *)
(***************************************************************************)
EXTENDS Naturals, Sequences, FiniteSets

CONSTANTS
  OnRequests,   \* the requests
  Attached,     \* those of them on attached routes
  WasmWorkers,  \* the worker threads
  WasmQueue,    \* queue_capacity
  Idle          \* a worker without a request

ASSUME IdleAssumption == Idle \notin OnRequests
ASSUME AttachedAssumption == Attached \subseteq OnRequests
ASSUME WasmQueueAssumption == WasmQueue \in Nat \ {0}

VARIABLES
  hook,         \* request -> [pc, permit: whether it holds one, verdict]
  permits,      \* queue_permits
  invocations,  \* the channel: requests in order
  running,      \* worker -> the request it executes
  guest         \* request -> what the guest made of it; for the properties

wasmVars == <<hook, permits, invocations, running, guest>>

(* What execute_once returns.  mangle is a modify whose headers are not     *)
(* valid, error a trap, a timeout, an invalid status or too large a body.   *)
Verdicts == {"continue", "modify", "mangle", "reject", "error"}

WasmInit ==
  /\ hook = [r \in OnRequests |-> [pc |-> "start", permit |-> FALSE, verdict |-> "none"]]
  /\ permits = WasmQueue
  /\ invocations = <<>>
  /\ running = [w \in WasmWorkers |-> Idle]
  /\ guest = [r \in OnRequests |-> "none"]

HookGoes(r, pc) == hook' = [hook EXCEPT ![r].pc = pc]

(* The request ends or goes on, and its permit is dropped.                  *)
Leave(r, pc) ==
  /\ hook' = [hook EXCEPT ![r] = [@ EXCEPT !.pc = pc, !.permit = FALSE]]
  /\ permits' = IF hook[r].permit THEN permits + 1 ELSE permits

-----------------------------------------------------------------------------
(* wasm_on_request_middleware and handle_request                            *)

MatchRoute(r) ==
  /\ hook[r].pc = "start"
  /\ HookGoes(r, IF r \in Attached THEN "read" ELSE "next")
  /\ UNCHANGED <<permits, invocations, running, guest>>

(* The body is read up to the limit; 413 or 400 otherwise.                  *)
ReadBody(r, ok) ==
  /\ hook[r].pc = "read"
  /\ HookGoes(r, IF ok THEN "acquire" ELSE "answered")
  /\ UNCHANGED <<permits, invocations, running, guest>>

(* try_acquire_owned, or 503.                                               *)
TryAcquirePermit(r) ==
  /\ hook[r].pc = "acquire"
  /\ \/ /\ permits > 0
        /\ permits' = permits - 1
        /\ hook' = [hook EXCEPT ![r] = [@ EXCEPT !.pc = "send", !.permit = TRUE]]
     \/ /\ permits = 0
        /\ HookGoes(r, "answered")
        /\ UNCHANGED permits
  /\ UNCHANGED <<invocations, running, guest>>

QueueIsFull == Len(invocations) >= WasmQueue

(* try_send, or 503 with the permit dropped.                                *)
TrySend(r) ==
  /\ hook[r].pc = "send"
  /\ \/ /\ ~QueueIsFull
        /\ invocations' = Append(invocations, r)
        /\ HookGoes(r, "await")
        /\ UNCHANGED permits
     \/ /\ QueueIsFull
        /\ Leave(r, "answered")
        /\ UNCHANGED invocations
  /\ UNCHANGED <<running, guest>>

(* A request goes on unchanged or modified; everything else is answered     *)
(* with the guest's status or 500.                                          *)
Allows(verdict) == verdict \in {"continue", "modify"}

TakeVerdict(r) ==
  /\ hook[r].pc = "await" /\ hook[r].verdict # "none"
  /\ Leave(r, IF Allows(hook[r].verdict) THEN "next" ELSE "answered")
  /\ UNCHANGED <<invocations, running, guest>>

GoneKeepsPermit(r) ==   \* mutant: a dropped request keeps its permit
  /\ hook[r].pc \in {"read", "await"}
  /\ HookGoes(r, "gone")
  /\ UNCHANGED <<permits, invocations, running, guest>>

(* The client goes away at one of the awaits.  Its invocation stays queued. *)
HookDropped(r) ==
  /\ hook[r].pc \in {"read", "await"}
  /\ Leave(r, "gone")
  /\ UNCHANGED <<invocations, running, guest>>

-----------------------------------------------------------------------------
(* worker_loop                                                              *)

ReceiveInvocation(w) ==
  /\ running[w] = Idle /\ invocations # <<>>
  /\ running' = [running EXCEPT ![w] = Head(invocations)]
  /\ invocations' = Tail(invocations)
  /\ UNCHANGED <<hook, permits, guest>>

(* The oneshot channel: an answer nobody waits for is dropped.              *)
Delivered(r, verdict) ==
  IF hook[r].pc = "await" THEN [hook EXCEPT ![r].verdict = verdict] ELSE hook

Execute(w, verdict) ==
  /\ running[w] # Idle
  /\ hook' = Delivered(running[w], verdict)
  /\ guest' = [guest EXCEPT ![running[w]] = verdict]
  /\ running' = [running EXCEPT ![w] = Idle]
  /\ UNCHANGED <<permits, invocations>>

HookStep(r) ==
  MatchRoute(r) \/ (\E ok \in BOOLEAN : ReadBody(r, ok)) \/ TryAcquirePermit(r) \/ TrySend(r) \/ TakeVerdict(r)

WorkerStep(w) == ReceiveInvocation(w) \/ \E v \in Verdicts : Execute(w, v)

WasmNext ==
  \/ \E r \in OnRequests : HookStep(r) \/ HookDropped(r)
  \/ \E w \in WasmWorkers : WorkerStep(w)

WasmSpec == WasmInit /\ [][WasmNext]_wasmVars

-----------------------------------------------------------------------------
(* The permits that are out are those of the requests between their         *)
(* acquisition and their end, however they ended: a leaked one would shrink *)
(* the pool for good, a surplus one would overfill the channel.             *)
PermitsAreExact ==
  permits + Cardinality({r \in OnRequests : hook[r].pc \in {"send", "await"}}) = WasmQueue

(* A request that holds a permit finds the channel full only because of     *)
(* invocations whose clients have gone: permits and channel have the same   *)
(* capacity, and a permit is held until the verdict is there.               *)
FullOnlyByTheGone ==
  \A r \in OnRequests : hook[r].pc = "send" /\ QueueIsFull =>
    \E i \in 1 .. Len(invocations) : hook[invocations[i]].pc = "gone"

(* "Failures are fail-closed (no silent bypass)" (wasm_middleware.rs:6): a  *)
(* request on an attached route goes on only if the guest has run for this  *)
(* very request and let it, whatever was queued, dropped or answered late.  *)
FailsClosed ==
  \A r \in Attached : hook[r].pc = "next" => guest[r] \in {"continue", "modify"}

(* Every request that was handed over gets its answer, so that in the end   *)
(* none waits: workers outlive failed calls and calls nobody waits for any  *)
(* more.                                                                    *)
HooksAreAnswered == <>[](\A r \in OnRequests : hook[r].pc # "await")

(* The pool of the middleware keeps its permits, finds room for who holds *)
(* one, and lets nobody pass unasked.                                     *)
PoolIsSound == PermitsAreExact /\ FullOnlyByTheGone /\ FailsClosed
=============================================================================
