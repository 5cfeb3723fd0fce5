------------------------------ MODULE MCGuards ------------------------------
(***************************************************************************)
(* Five components that share no state, for TLC: the circuit breaker, the  *)
(* Program runtime, the pool of the WASM middleware, the response store    *)
(* and the concurrency limiter.  One run explores them side by side, each  *)
(* with the others at rest.                                                *)
(***************************************************************************)
EXTENDS CircuitBreaker, ProgramRuntime, WasmMiddleware, ResponseStore, RequestLimiter

CONSTANTS t1, t2

VARIABLE part     \* which component moves

guardVars == <<part, breakerVars, vars, wasmVars, storeVars, limiterVars>>

(* A conversation of three responses, of which the first and the second are *)
(* also stored a second time: for another user, and leading back to later   *)
(* responses.                                                               *)
Response(id, prev, user, created) == [id |-> id, prev |-> prev, user |-> user, created |-> created]

Conversations ==
  {Response(1, 0, "u", 2), Response(2, 1, "u", 3), Response(3, 2, "v", 1),
   Response(1, 3, "v", 2), Response(2, 3, "nobody", 1)}

GuardInit ==
  /\ part \in {"breaker", "runtime", "wasm", "store", "limiter"}
  /\ BreakerInit /\ Init /\ WasmInit /\ StoreInit /\ LimiterInit

OfBreaker == part = "breaker" /\ UNCHANGED <<part, vars, wasmVars, storeVars, limiterVars>>
OfRuntime == part = "runtime" /\ UNCHANGED <<part, breakerVars, wasmVars, storeVars, limiterVars>>
OfWasm == part = "wasm" /\ UNCHANGED <<part, breakerVars, vars, storeVars, limiterVars>>
OfStore == part = "store" /\ UNCHANGED <<part, breakerVars, vars, wasmVars, limiterVars>>
OfLimiter == part = "limiter" /\ UNCHANGED <<part, breakerVars, vars, wasmVars, storeVars>>

GuardNext ==
  \/ OfBreaker /\ BreakerNext
  \/ OfRuntime /\ Next
  \/ OfWasm /\ WasmNext
  \/ OfStore /\ StoreNext
  \/ OfLimiter /\ LimiterNext

(* The runtime polls every task of the breaker, the middleware and the     *)
(* limiter, time passes, and the worker threads run: the epoch deadline     *)
(* ends every call of the guest.  Clients and backends owe nothing.         *)
GuardSpec ==
  /\ GuardInit /\ [][GuardNext]_guardVars
  /\ <>[][~\E t \in Threads : Intervenes(t)]_guardVars
  /\ WF_guardVars(OfBreaker /\ TimeoutElapses)
  /\ \A t \in Threads : WF_guardVars(OfBreaker /\ GoesOn(t))
  /\ WF_guardVars(OfWasm /\ \E r \in OnRequests : HookStep(r))
  /\ WF_guardVars(OfWasm /\ \E w \in WasmWorkers : WorkerStep(w))
  /\ WF_guardVars(OfLimiter /\ Receive)
  /\ WF_guardVars(OfLimiter /\ Tick)
  /\ \A r \in Requests :
       /\ WF_guardVars(OfLimiter /\ (Enqueue(r) \/ TooManyRequests(r)))
       /\ WF_guardVars(OfLimiter /\ (FirstTry(r) \/ ComputeWait(r) \/ Expire(r)))
       /\ WF_guardVars(OfLimiter /\ Deliver(r))

(* The circuit of a worker that answers again closes, every request       *)
(* handed to the pool is answered, and so is every request that waits for *)
(* a permit of the limiter.                                               *)
GuardsRecover == RecoversWhenHealthy /\ HooksAreAnswered /\ WaitersAreAnswered
=============================================================================
