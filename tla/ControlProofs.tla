---------------------------- MODULE ControlProofs ---------------------------
(***************************************************************************)
(* Proofs about what decides whether a request goes on, and where.  The    *)
(* circuit breaker, for any tasks and thresholds; the pool of the WASM     *)
(* middleware, for any requests, workers and capacity; the two ways        *)
(* instances are discovered, for any instances, pods, addresses and        *)
(* labels, whatever is lost, repeated or reordered; and the concurrency    *)
(* limit, for any capacity, rate and queue: where its waiters are, that    *)
(* the gauges count them, and that the lazily refilled bucket implements   *)
(* the ideal one.                                                          *)
(***************************************************************************)
EXTENDS CircuitBreaker, WasmMiddleware, Discovery, RequestLimiter,
        FiniteSetTheorems, SequenceTheorems, TLAPS

(* A saturated count stays a natural number within its bound.              *)
LEMMA SaturateBounds ==
  ASSUME NEW max \in Nat, NEW n \in Nat
  PROVE  Saturate(n, max) \in 0..max
BY DEF Saturate

(* The fields of the breaker and the locals of its callers keep their      *)
(* types.                                                                  *)
THEOREM TypeCorrect == BreakerSpec => []BreakerTypeOK
<1>1. BreakerInit => BreakerTypeOK
  <2> SUFFICES ASSUME BreakerInit PROVE BreakerTypeOK
    BY Zenon
  <2>1. failures \in 0..FailureThreshold /\ successes \in 0..SuccessThreshold
    BY FailureThresholdAssumption, SuccessThresholdAssumption DEF BreakerInit
  <2>2. elapsed \in BOOLEAN /\ healthy \in BOOLEAN /\ cb \in CircuitStates
    BY Zenon DEF BreakerInit, CircuitStates
  <2>3. pc \in [Threads -> Steps] /\ count \in [Threads -> Nat]
    BY Zenon DEF BreakerInit, Steps, Returns
  <2>4. goal \in [Threads -> CircuitStates] /\ ret \in [Threads -> Returns]
    BY Zenon DEF BreakerInit, CircuitStates, Returns
  <2> QED BY <2>1, <2>2, <2>3, <2>4, Zenon DEF BreakerInit, BreakerTypeOK
<1>2. BreakerTypeOK /\ [BreakerNext]_breakerVars => BreakerTypeOK'
  <2> SUFFICES ASSUME BreakerTypeOK, [BreakerNext]_breakerVars PROVE BreakerTypeOK'
    BY Zenon
  <2> USE FailureThresholdAssumption, SuccessThresholdAssumption
      DEF BreakerTypeOK, CircuitStates, Steps, Returns, Goto, Call, Forget
  <2>1. CASE Environment
    BY <2>1, Zenon DEF Environment, TimeoutElapses, WorkerFails, WorkerRecovers
  <2>2. ASSUME NEW t \in Threads, ThreadStep(t) PROVE BreakerTypeOK'
    <3>1. CASE BeginCheck(t) BY <3>1, Zenon DEF BeginCheck
    <3>2. CASE CheckState(t) BY <3>2, Zenon DEF CheckState
    <3>3. CASE CheckTimeout(t) BY <3>3, Zenon DEF CheckTimeout
    <3>4. CASE CanExecute(t) BY <3>4, Zenon DEF CanExecute
    <3>5. CASE RecordOutcome(t) BY <3>5, Zenon DEF RecordOutcome
    <3>6. CASE SuccessReset(t) BY <3>6 DEF SuccessReset
    <3>7. CASE SuccessAdd(t)
      <4>1. successes' \in 0..SuccessThreshold
        BY <3>7, SaturateBounds DEF SuccessAdd
      <4> QED BY <3>7, <4>1 DEF SuccessAdd
    <3>8. CASE SuccessRead(t) BY <3>8, Zenon DEF SuccessRead
    <3>9. CASE FailureReset(t) BY <3>9 DEF FailureReset
    <3>10. CASE FailureAdd(t)
      <4>1. failures' \in 0..FailureThreshold
        BY <3>10, SaturateBounds DEF FailureAdd
      <4> QED BY <3>10, <4>1 DEF FailureAdd
    <3>11. CASE FailureRead(t) BY <3>11 DEF FailureRead
    <3>12. CASE Transition(t) BY <3>12, Zenon DEF Transition
    <3>13. CASE ResetCounters(t) BY <3>13 DEF ResetCounters
    <3> QED
      BY <2>2, <3>1, <3>2, <3>3, <3>4, <3>5, <3>6, <3>7, <3>8, <3>9, <3>10,
         <3>11, <3>12, <3>13, Zenon DEF ThreadStep
  <2>3. ASSUME NEW t \in Threads, ManualStep(t) PROVE BreakerTypeOK'
    <3>1. CASE BeginProbe(t) BY <3>1, Zenon DEF BeginProbe
    <3>2. CASE ProbeAnswer(t) BY <3>2, Zenon DEF ProbeAnswer
    <3>3. CASE Reset(t) BY <3>3, Zenon DEF Reset
    <3>4. CASE ResetStore(t) BY <3>4 DEF ResetStore
    <3>5. CASE ForceOpen(t) BY <3>5, Zenon DEF ForceOpen
    <3> QED BY <2>3, <3>1, <3>2, <3>3, <3>4, <3>5, Zenon DEF ManualStep
  <2>4. CASE UNCHANGED breakerVars
    BY <2>4, Zenon DEF breakerVars
  <2> QED BY <2>1, <2>2, <2>3, <2>4, Zenon DEF BreakerNext
<1> QED BY <1>1, <1>2, PTL DEF BreakerSpec

(* However the threads interleave, a closed circuit that has counted       *)
(* failure_threshold consecutive failures is about to be opened, and a     *)
(* half-open one that has counted success_threshold successes is about to  *)
(* be closed.  Each of the two formulas is inductive given the types: the  *)
(* thread that brings the counter to its threshold is the witness until    *)
(* its transition_to takes the lock, and transition_to resets the counter  *)
(* before it lets the lock go.                                             *)
THEOREM ThresholdsAreServed == BreakerSpec => [](ThresholdReachedOpens /\ ThresholdReachedCloses)
<1> DEFINE Served == ThresholdReachedOpens /\ ThresholdReachedCloses
<1>1. BreakerInit => Served
  BY FailureThresholdAssumption, SuccessThresholdAssumption
  DEF BreakerInit, ThresholdReachedOpens, ThresholdReachedCloses
<1>2. BreakerTypeOK /\ Served /\ [BreakerNext]_breakerVars => Served'
  <2> SUFFICES ASSUME BreakerTypeOK, Served, [BreakerNext]_breakerVars PROVE Served'
    BY Zenon
  <2> USE FailureThresholdAssumption, SuccessThresholdAssumption, NoThreadAssumption
      DEF BreakerTypeOK, CircuitStates, ThresholdReachedOpens, ThresholdReachedCloses,
          WillOpen, WillClose, Lock, Goto, Call, Forget
  <2>1. CASE Environment
    BY <2>1, Zenon DEF Environment, TimeoutElapses, WorkerFails, WorkerRecovers
  <2>2. ASSUME NEW t \in Threads, ThreadStep(t) PROVE Served'
    <3>1. CASE BeginCheck(t) BY <3>1, Zenon DEF BeginCheck
    <3>2. CASE CheckState(t) BY <3>2, Zenon DEF CheckState
    <3>3. CASE CheckTimeout(t) BY <3>3, Zenon DEF CheckTimeout
    <3>4. CASE CanExecute(t) BY <3>4, Zenon DEF CanExecute
    <3>5. CASE RecordOutcome(t) BY <3>5, Zenon DEF RecordOutcome
    <3>6. CASE SuccessReset(t) BY <3>6 DEF SuccessReset
    <3>7. CASE SuccessAdd(t) BY <3>7, Zenon DEF SuccessAdd
    <3>8. CASE SuccessRead(t) BY <3>8, Zenon DEF SuccessRead
    <3>9. CASE FailureReset(t) BY <3>9 DEF FailureReset
    <3>10. CASE FailureAdd(t) BY <3>10, Zenon DEF FailureAdd
    <3>11. CASE FailureRead(t) BY <3>11 DEF FailureRead
    <3>12. CASE Transition(t) BY <3>12, Zenon DEF Transition
    <3>13. CASE ResetCounters(t) BY <3>13 DEF ResetCounters
    <3> QED
      BY <2>2, <3>1, <3>2, <3>3, <3>4, <3>5, <3>6, <3>7, <3>8, <3>9, <3>10,
         <3>11, <3>12, <3>13, Zenon DEF ThreadStep
  <2>3. ASSUME NEW t \in Threads, ManualStep(t) PROVE Served'
    <3>1. CASE BeginProbe(t) BY <3>1, Zenon DEF BeginProbe
    <3>2. CASE ProbeAnswer(t) BY <3>2, Zenon DEF ProbeAnswer
    <3>3. CASE Reset(t) BY <3>3, Zenon DEF Reset
    <3>4. CASE ResetStore(t) BY <3>4 DEF ResetStore
    <3>5. CASE ForceOpen(t) BY <3>5, Zenon DEF ForceOpen
    <3> QED BY <2>3, <3>1, <3>2, <3>3, <3>4, <3>5, Zenon DEF ManualStep
  <2>4. CASE UNCHANGED breakerVars
    BY <2>4, Zenon DEF breakerVars
  <2> QED BY <2>1, <2>2, <2>3, <2>4, Zenon DEF BreakerNext
<1> QED BY <1>1, <1>2, TypeCorrect, PTL DEF BreakerSpec

(* The breaker keeps its types and is never stuck in a state it has counted *)
(* itself out of: the group of invariants checked on small instances holds  *)
(* for any number of tasks and any thresholds (record_success,              *)
(* record_failure and the transitions of circuit_breaker.rs).               *)
THEOREM BreakerIsNeverStuck == BreakerSpec => []BreakerNeverStuck
BY TypeCorrect, ThresholdsAreServed, PTL DEF BreakerNeverStuck

-----------------------------------------------------------------------------
(* The WASM middleware.                                                     *)
HookPcs == {"start", "read", "acquire", "send", "await", "next", "answered", "gone"}
Hooks == [pc : HookPcs, permit : BOOLEAN, verdict : Verdicts \cup {"none"}]

WasmTypeOK ==
  /\ hook \in [OnRequests -> Hooks]
  /\ permits \in Nat
  /\ invocations \in Seq(OnRequests)
  /\ running \in [WasmWorkers -> OnRequests \cup {Idle}]
  /\ guest \in [OnRequests -> Verdicts \cup {"none"}]

Holding == {"send", "await"}
Holders == {r \in OnRequests : hook[r].pc \in Holding}

(* The permit is dropped exactly when the request leaves the pool.          *)
PermitsAreHeld == \A r \in OnRequests : hook[r].permit <=> hook[r].pc \in Holding

(* A request is queued or executed once, and only before its verdict.       *)
Undecided(r) == hook[r].pc \in {"await", "gone"} /\ hook[r].verdict = "none"

OnePlace ==
  /\ \A i \in 1 .. Len(invocations) : Undecided(invocations[i])
  /\ \A w \in WasmWorkers : running[w] # Idle => Undecided(running[w])
  /\ \A i, j \in 1 .. Len(invocations) : i # j => invocations[i] # invocations[j]
  /\ \A w, v \in WasmWorkers : w # v /\ running[w] # Idle => running[w] # running[v]
  /\ \A i \in 1 .. Len(invocations), w \in WasmWorkers : invocations[i] # running[w]

(* The verdict a request reads is what the guest made of it, and there is   *)
(* none before the request was sent.                                        *)
Unsent == {"start", "read", "acquire", "send"}

VerdictsAreTheGuests ==
  \A r \in OnRequests :
    /\ hook[r].verdict # "none" => guest[r] = hook[r].verdict
    /\ hook[r].pc \in Unsent => hook[r].verdict = "none"

WasmInv ==
  /\ WasmTypeOK /\ IsFiniteSet(Holders) /\ PermitsAreExact /\ PermitsAreHeld
  /\ OnePlace /\ VerdictsAreTheGuests /\ FailsClosed

(* The pool starts sound.                                                   *)
LEMMA WasmInitEstablishes == WasmInit => WasmInv
<1> SUFFICES ASSUME WasmInit PROVE WasmInv
  BY Zenon
<1>1. hook \in [OnRequests -> Hooks]
  <2>1. [pc |-> "start", permit |-> FALSE, verdict |-> "none"] \in Hooks
    BY Zenon DEF Hooks, HookPcs
  <2> QED BY <2>1, Zenon DEF WasmInit
<1>2. WasmTypeOK
  BY <1>1, WasmQueueAssumption DEF WasmInit, WasmTypeOK
<1>3. \A r \in OnRequests : hook[r].pc = "start" /\ hook[r].verdict = "none" /\ ~hook[r].permit
  BY Zenon DEF WasmInit
<1>4. Holders = {}
  BY <1>3, Zenon DEF Holders, Holding
<1>5. IsFiniteSet(Holders) /\ permits + Cardinality(Holders) = WasmQueue
  BY <1>4, FS_EmptySet, WasmQueueAssumption DEF WasmInit
<1>6. PermitsAreExact
  BY <1>5, Zenon DEF PermitsAreExact, Holders, Holding
<1>7. PermitsAreHeld
  <2>1. "start" \notin Holding
    BY Zenon DEF Holding
  <2> QED BY <1>3, <2>1, Zenon DEF PermitsAreHeld
<1>8. OnePlace
  BY DEF OnePlace, WasmInit
<1>9. VerdictsAreTheGuests /\ FailsClosed
  BY <1>3, AttachedAssumption, Zenon DEF VerdictsAreTheGuests, FailsClosed
<1> QED BY <1>2, <1>5, <1>6, <1>7, <1>8, <1>9, Zenon DEF WasmInv

(* Request r goes to p and nothing else is touched but its permit.          *)
Moves(r, p) ==
  /\ hook' \in [OnRequests -> Hooks]
  /\ hook'[r].pc = p /\ hook'[r].verdict = hook[r].verdict
  /\ \A q \in OnRequests : q # r => hook'[q] = hook[q]

(* A hook that only goes on keeps its permit.                               *)
LEMMA GoesMoves ==
  ASSUME WasmTypeOK, NEW r \in OnRequests, NEW p \in HookPcs, HookGoes(r, p)
  PROVE  Moves(r, p) /\ hook'[r].permit = hook[r].permit
<1>1. hook[r] \in Hooks
  BY Zenon DEF WasmTypeOK
<1>2. [hook[r] EXCEPT !.pc = p] \in Hooks
  BY <1>1, Zenon DEF Hooks
<1>3. hook' = [hook EXCEPT ![r] = [hook[r] EXCEPT !.pc = p]]
  BY Zenon DEF HookGoes
<1>4. hook'[r] = [hook[r] EXCEPT !.pc = p] /\ \A q \in OnRequests : q # r => hook'[q] = hook[q]
  BY <1>3, Zenon DEF WasmTypeOK
<1>5. hook' \in [OnRequests -> Hooks]
  BY <1>2, <1>3, Zenon DEF WasmTypeOK
<1>6. /\ [hook[r] EXCEPT !.pc = p].pc = p
      /\ [hook[r] EXCEPT !.pc = p].verdict = hook[r].verdict
      /\ [hook[r] EXCEPT !.pc = p].permit = hook[r].permit
  BY <1>1, Zenon DEF Hooks
<1> QED BY <1>4, <1>5, <1>6, Zenon DEF Moves

(* A hook that takes or gives back its permit moves alone.                  *)
LEMMA PermitMoves ==
  ASSUME WasmTypeOK, NEW r \in OnRequests, NEW p \in HookPcs, NEW b \in BOOLEAN,
         hook' = [hook EXCEPT ![r] = [@ EXCEPT !.pc = p, !.permit = b]]
  PROVE  Moves(r, p) /\ hook'[r].permit = b
<1>1. hook[r] \in Hooks
  BY Zenon DEF WasmTypeOK
<1>2. [hook[r] EXCEPT !.pc = p, !.permit = b] \in Hooks
  BY <1>1, Zenon DEF Hooks
<1>3. hook' = [hook EXCEPT ![r] = [hook[r] EXCEPT !.pc = p, !.permit = b]]
  BY Zenon
<1>4. /\ hook'[r] = [hook[r] EXCEPT !.pc = p, !.permit = b]
      /\ \A q \in OnRequests : q # r => hook'[q] = hook[q]
  BY <1>3, Zenon DEF WasmTypeOK
<1>5. hook' \in [OnRequests -> Hooks]
  BY <1>2, <1>3, Zenon DEF WasmTypeOK
<1>6. /\ [hook[r] EXCEPT !.pc = p, !.permit = b].pc = p
      /\ [hook[r] EXCEPT !.pc = p, !.permit = b].verdict = hook[r].verdict
      /\ [hook[r] EXCEPT !.pc = p, !.permit = b].permit = b
  BY <1>1, Zenon DEF Hooks
<1> QED BY <1>4, <1>5, <1>6, Zenon DEF Moves

(* A request that moves keeps everybody in their one place, unless it       *)
(* leaves the pool undecided.                                               *)
LEMMA PlacesKept ==
  ASSUME WasmInv, NEW r \in OnRequests, NEW p, Moves(r, p), UNCHANGED <<invocations, running, guest>>,
         Undecided(r) => p \in {"await", "gone"}, p \in Unsent => hook[r].pc \in Unsent,
         p = "next" /\ r \in Attached => hook[r].verdict \in {"continue", "modify"}
  PROVE  OnePlace' /\ VerdictsAreTheGuests' /\ FailsClosed'
<1> USE DEF WasmInv, WasmTypeOK, Moves
<1>1. \A q \in OnRequests : Undecided(q) => Undecided(q)'
  BY Zenon DEF Undecided
<1>2. OnePlace'
  BY <1>1 DEF OnePlace
<1>3. \A q \in OnRequests : hook'[q].verdict = hook[q].verdict
  BY Zenon
<1>4. VerdictsAreTheGuests'
  BY <1>3 DEF VerdictsAreTheGuests
<1>5. FailsClosed'
  BY AttachedAssumption, Zenon DEF FailsClosed, VerdictsAreTheGuests
<1> QED BY <1>2, <1>4, <1>5, Zenon

(* The permits stay exact if one is taken by a request that comes to hold   *)
(* one and given back by one that leaves.                                   *)
LEMMA PermitsKept ==
  ASSUME WasmInv, NEW r \in OnRequests, NEW p, Moves(r, p),
         \/ p \in Holding /\ hook[r].pc \notin Holding /\ permits > 0 /\ permits' = permits - 1
         \/ p \notin Holding /\ hook[r].pc \in Holding /\ permits' = permits + 1
         \/ (p \in Holding <=> hook[r].pc \in Holding) /\ permits' = permits
  PROVE  permits' \in Nat /\ IsFiniteSet(Holders') /\ PermitsAreExact'
<1>1. permits \in Nat /\ IsFiniteSet(Holders) /\ permits + Cardinality(Holders) = WasmQueue /\ Cardinality(Holders) \in Nat
  BY FS_CardinalityType, Zenon DEF WasmInv, WasmTypeOK, PermitsAreExact, Holders, Holding
<1>2. permits' \in Nat /\ IsFiniteSet(Holders') /\ permits' + Cardinality(Holders') = WasmQueue
  <2>1. CASE p \in Holding /\ hook[r].pc \notin Holding /\ permits > 0 /\ permits' = permits - 1
    <3>1. Holders' = Holders \cup {r} /\ r \notin Holders
      BY <2>1, Zenon DEF Holders, Moves
    <3>2. IsFiniteSet(Holders') /\ Cardinality(Holders') = Cardinality(Holders) + 1
      BY <1>1, <3>1, FS_AddElement, Zenon
    <3> QED BY <1>1, <2>1, <3>2
  <2>2. CASE p \notin Holding /\ hook[r].pc \in Holding /\ permits' = permits + 1
    <3>1. Holders' = Holders \ {r} /\ r \in Holders
      BY <2>2, Zenon DEF Holders, Moves
    <3>2. IsFiniteSet(Holders') /\ Cardinality(Holders') = Cardinality(Holders) - 1
      BY <1>1, <3>1, FS_RemoveElement, Zenon
    <3> QED BY <1>1, <2>2, <3>2
  <2>3. CASE (p \in Holding <=> hook[r].pc \in Holding) /\ permits' = permits
    <3>1. Holders' = Holders
      BY <2>3, ZenonT(40) DEF Holders, Moves
    <3> QED BY <1>1, <2>3, <3>1, Zenon
  <2> QED BY <2>1, <2>2, <2>3, Zenon
<1> QED BY <1>2, Zenon DEF PermitsAreExact, Holders, Holding

(* A move of one hook that leaves the queue and the workers alone.          *)
LEMMA MovePreserves ==
  ASSUME WasmInv, NEW r \in OnRequests, NEW p \in HookPcs, Moves(r, p),
         UNCHANGED <<invocations, running, guest>>,
         Undecided(r) => p \in {"await", "gone"}, p \in Unsent => hook[r].pc \in Unsent,
         p = "next" /\ r \in Attached => hook[r].verdict \in {"continue", "modify"},
         hook'[r].permit <=> p \in Holding,
         \/ p \in Holding /\ hook[r].pc \notin Holding /\ permits > 0 /\ permits' = permits - 1
         \/ p \notin Holding /\ hook[r].pc \in Holding /\ permits' = permits + 1
         \/ (p \in Holding <=> hook[r].pc \in Holding) /\ permits' = permits
  PROVE  WasmInv'
<1>1. OnePlace' /\ VerdictsAreTheGuests' /\ FailsClosed'
  BY PlacesKept, Zenon
<1>2. permits' \in Nat /\ IsFiniteSet(Holders') /\ PermitsAreExact'
  BY PermitsKept, Zenon
<1>3. PermitsAreHeld'
  BY Zenon DEF WasmInv, PermitsAreHeld, Moves
<1>4. WasmTypeOK'
  BY <1>2, Zenon DEF WasmInv, WasmTypeOK, Moves
<1> QED BY <1>1, <1>2, <1>3, <1>4, Zenon DEF WasmInv

(* What the permit is worth before the step.                                *)
LEMMA PermitOf ==
  ASSUME WasmInv, NEW r \in OnRequests
  PROVE  hook[r].permit <=> hook[r].pc \in Holding
BY Zenon DEF WasmInv, PermitsAreHeld

(* Matching the route.                                                      *)
LEMMA MatchStep == ASSUME WasmInv, NEW r \in OnRequests, MatchRoute(r) PROVE WasmInv'
<1> DEFINE p == IF r \in Attached THEN "read" ELSE "next"
<1>1. p \in HookPcs /\ p \notin Holding /\ "start" \notin Holding /\ "start" \in Unsent /\ (p = "next" => r \notin Attached)
  BY Zenon DEF HookPcs, Holding, Unsent
<1>2. hook[r].pc = "start" /\ HookGoes(r, p) /\ UNCHANGED <<permits, invocations, running, guest>>
  BY Zenon DEF MatchRoute
<1> HIDE DEF p
<1>3. Moves(r, p) /\ hook'[r].permit = hook[r].permit
  BY <1>1, <1>2, GoesMoves, Zenon DEF WasmInv
<1>4. hook'[r].permit <=> p \in Holding
  BY <1>1, <1>2, <1>3, PermitOf, Zenon
<1>5. ~Undecided(r)
  BY <1>2, Zenon DEF Undecided
<1> QED BY <1>1, <1>2, <1>3, <1>4, <1>5, MovePreserves, Zenon

(* Reading the body of the request.                                         *)
LEMMA ReadStep == ASSUME WasmInv, NEW r \in OnRequests, NEW ok \in BOOLEAN, ReadBody(r, ok) PROVE WasmInv'
<1>1. PICK p \in {"acquire", "answered"} : HookGoes(r, p)
  BY Zenon DEF ReadBody
<1>2. p \in HookPcs /\ p \notin Holding /\ "read" \notin Holding /\ "read" \in Unsent /\ p # "next"
  BY Zenon DEF HookPcs, Holding, Unsent
<1>3. hook[r].pc = "read" /\ UNCHANGED <<permits, invocations, running, guest>>
  BY Zenon DEF ReadBody
<1>4. Moves(r, p) /\ hook'[r].permit = hook[r].permit
  BY <1>1, <1>2, GoesMoves, Zenon DEF WasmInv
<1>5. hook'[r].permit <=> p \in Holding
  BY <1>2, <1>3, <1>4, PermitOf, Zenon
<1>6. ~Undecided(r)
  BY <1>3, Zenon DEF Undecided
<1> QED BY <1>2, <1>3, <1>4, <1>5, <1>6, MovePreserves, Zenon

(* Trying to take a permit of the semaphore.                                *)
LEMMA AcquireStep == ASSUME WasmInv, NEW r \in OnRequests, TryAcquirePermit(r) PROVE WasmInv'
<1>1. /\ {"send", "answered"} \subseteq HookPcs /\ "send" \in Holding /\ "answered" \notin Holding
      /\ "acquire" \notin Holding /\ "acquire" \in Unsent
  BY Zenon DEF HookPcs, Holding, Unsent
<1>2. hook[r].pc = "acquire" /\ UNCHANGED <<invocations, running, guest>>
  BY Zenon DEF TryAcquirePermit
<1>3. ~Undecided(r)
  BY <1>2, Zenon DEF Undecided
<1>4. CASE permits > 0 /\ permits' = permits - 1 /\ hook' = [hook EXCEPT ![r] = [@ EXCEPT !.pc = "send", !.permit = TRUE]]
  <2>1. Moves(r, "send") /\ hook'[r].permit = TRUE
    BY <1>1, <1>4, PermitMoves, Zenon DEF WasmInv
  <2>2. hook'[r].permit <=> "send" \in Holding
    BY <1>1, <2>1, Zenon
  <2> QED BY <1>1, <1>2, <1>3, <1>4, <2>1, <2>2, MovePreserves, Zenon
<1>5. CASE permits = 0 /\ HookGoes(r, "answered") /\ UNCHANGED permits
  <2>1. Moves(r, "answered") /\ hook'[r].permit = hook[r].permit
    BY <1>1, <1>5, GoesMoves, Zenon DEF WasmInv
  <2>2. hook'[r].permit <=> "answered" \in Holding
    BY <1>1, <1>2, <2>1, PermitOf, Zenon
  <2> QED BY <1>1, <1>2, <1>3, <1>5, <2>1, <2>2, MovePreserves, Zenon DEF Unsent
<1> QED BY <1>4, <1>5, Zenon DEF TryAcquirePermit

(* Leave gives back the permit of a request that holds one.                 *)
LEMMA LeaveStep ==
  ASSUME WasmInv, NEW r \in OnRequests, NEW p \in HookPcs \ Holding, Leave(r, p), UNCHANGED <<invocations, running, guest>>,
         Undecided(r) => p = "gone", p \notin Unsent,
         p = "next" /\ r \in Attached => hook[r].verdict \in {"continue", "modify"}
  PROVE  WasmInv'
<1>1. Moves(r, p) /\ hook'[r].permit = FALSE
  BY PermitMoves, Zenon DEF WasmInv, Leave
<1>2. hook'[r].permit <=> p \in Holding
  BY <1>1, Zenon
<1>3. CASE hook[r].pc \in Holding
  <2>1. permits' = permits + 1
    BY <1>3, PermitOf, Zenon DEF Leave
  <2> QED BY <1>1, <1>2, <1>3, <2>1, MovePreserves, Zenon
<1>4. CASE hook[r].pc \notin Holding
  <2>1. permits' = permits
    BY <1>4, PermitOf, Zenon DEF Leave
  <2> QED BY <1>1, <1>2, <1>4, <2>1, MovePreserves, Zenon
<1> QED BY <1>3, <1>4, Zenon

(* Trying to queue the invocation.                                          *)
LEMMA SendStep == ASSUME WasmInv, NEW r \in OnRequests, TrySend(r) PROVE WasmInv'
<1>1. /\ {"await", "answered"} \subseteq HookPcs /\ "answered" \notin Holding /\ "answered" \notin Unsent
      /\ "send" \in Holding /\ "await" \in Holding /\ "send" \in Unsent /\ "await" \notin Unsent
  BY Zenon DEF HookPcs, Holding, Unsent
<1>2. hook[r].pc = "send" /\ UNCHANGED <<running, guest>>
  BY Zenon DEF TrySend
<1>3. ~Undecided(r)
  BY <1>2, Zenon DEF Undecided
<1>4. CASE QueueIsFull /\ Leave(r, "answered") /\ UNCHANGED invocations
  BY <1>1, <1>2, <1>3, <1>4, LeaveStep, Zenon
<1>5. CASE invocations' = Append(invocations, r) /\ HookGoes(r, "await") /\ UNCHANGED permits
  <2>1. Moves(r, "await") /\ hook'[r].permit = hook[r].permit
    BY <1>1, <1>5, GoesMoves, Zenon DEF WasmInv
  <2>2. permits' \in Nat /\ IsFiniteSet(Holders') /\ PermitsAreExact'
    BY <1>1, <1>2, <1>5, <2>1, PermitsKept, Zenon
  <2>3. PermitsAreHeld'
    BY <1>1, <1>2, <2>1, Zenon DEF WasmInv, PermitsAreHeld, Moves
  <2>4. invocations \in Seq(OnRequests) /\ invocations' \in Seq(OnRequests)
    BY <1>5 DEF WasmInv, WasmTypeOK
  <2>5. WasmTypeOK'
    BY <1>2, <2>1, <2>2, <2>4, Zenon DEF WasmInv, WasmTypeOK, Moves
  <2>6. hook[r].verdict = "none"
    BY <1>1, <1>2, Zenon DEF WasmInv, VerdictsAreTheGuests
  <2>7. VerdictsAreTheGuests' /\ FailsClosed'
    BY <1>1, <1>2, <2>1, <2>6, AttachedAssumption, Zenon DEF WasmInv, VerdictsAreTheGuests, FailsClosed, Moves
  <2>8. \A q \in OnRequests : Undecided(q) => Undecided(q)'
    BY <1>3, <2>1, Zenon DEF Moves, Undecided
  <2>9. Undecided(r)'
    BY <2>1, <2>6, Zenon DEF Moves, Undecided
  <2>10. /\ Len(invocations') = Len(invocations) + 1 /\ Len(invocations) \in Nat
         /\ \A i \in 1 .. Len(invocations) : invocations'[i] = invocations[i] /\ invocations[i] \in OnRequests
         /\ invocations'[Len(invocations) + 1] = r
    BY <1>5, <2>4
  <2>11. /\ \A i \in 1 .. Len(invocations) : invocations[i] # r
         /\ \A w \in WasmWorkers : running[w] # r
    BY <1>3, IdleAssumption, Zenon DEF WasmInv, OnePlace
  <2>12. OnePlace'
    <3> USE <2>10
    <3>1. \A i \in 1 .. Len(invocations') : Undecided(invocations[i])'
      BY <2>8, <2>9 DEF WasmInv, OnePlace, Undecided
    <3>2. \A w \in WasmWorkers : running'[w] # Idle => Undecided(running[w])'
      BY <1>2, <2>8 DEF WasmInv, WasmTypeOK, OnePlace, Undecided
    <3>3. \A i, j \in 1 .. Len(invocations') : i # j => invocations'[i] # invocations'[j]
      BY <2>11 DEF WasmInv, OnePlace
    <3>4. \A w, v \in WasmWorkers : w # v /\ running'[w] # Idle => running'[w] # running'[v]
      BY <1>2, Zenon DEF WasmInv, OnePlace
    <3>5. \A i \in 1 .. Len(invocations'), w \in WasmWorkers : invocations'[i] # running'[w]
      BY <1>2, <2>11 DEF WasmInv, OnePlace
    <3> QED BY <3>1, <3>2, <3>3, <3>4, <3>5, Zenon DEF OnePlace
  <2> QED BY <2>2, <2>3, <2>5, <2>7, <2>12, Zenon DEF WasmInv
<1> QED BY <1>4, <1>5, Zenon DEF TrySend

(* Taking the verdict of the module.                                        *)
LEMMA VerdictStep == ASSUME WasmInv, NEW r \in OnRequests, TakeVerdict(r) PROVE WasmInv'
<1> DEFINE p == IF Allows(hook[r].verdict) THEN "next" ELSE "answered"
<1>1. p \in HookPcs \ Holding /\ p \notin Unsent
  BY Zenon DEF HookPcs, Holding, Unsent
<1>2. Leave(r, p) /\ UNCHANGED <<invocations, running, guest>> /\ ~Undecided(r)
  BY Zenon DEF TakeVerdict, Undecided
<1>3. p = "next" => hook[r].verdict \in {"continue", "modify"}
  BY Zenon DEF Allows
<1> HIDE DEF p
<1> QED BY <1>1, <1>2, <1>3, LeaveStep, Zenon

(* The client leaves and the hook is dropped.                               *)
LEMMA DropStep == ASSUME WasmInv, NEW r \in OnRequests, HookDropped(r) PROVE WasmInv'
<1>1. "gone" \in HookPcs \ Holding /\ "gone" \notin Unsent
  BY Zenon DEF HookPcs, Holding, Unsent
<1> QED BY <1>1, LeaveStep, Zenon DEF HookDropped

(* A worker thread takes an invocation.                                     *)
LEMMA ReceiveStep == ASSUME WasmInv, NEW w \in WasmWorkers, ReceiveInvocation(w) PROVE WasmInv'
<1>1. /\ running[w] = Idle /\ invocations # <<>> /\ UNCHANGED <<hook, permits, guest>>
      /\ running' = [running EXCEPT ![w] = invocations[1]] /\ invocations' = Tail(invocations)
  BY DEF ReceiveInvocation, WasmInv, WasmTypeOK
<1>2. /\ invocations \in Seq(OnRequests) /\ invocations' \in Seq(OnRequests)
      /\ Len(invocations) \in Nat \ {0} /\ Len(invocations') = Len(invocations) - 1
      /\ \A i \in 1 .. Len(invocations') : invocations'[i] = invocations[i + 1]
      /\ \A i \in 1 .. Len(invocations) : invocations[i] \in OnRequests
  BY <1>1 DEF WasmInv, WasmTypeOK
<1>3. WasmTypeOK'
  BY <1>1, <1>2 DEF WasmInv, WasmTypeOK
<1>4. /\ running'[w] = invocations[1] /\ \A v \in WasmWorkers : v # w => running'[v] = running[v]
  BY <1>1, Zenon DEF WasmInv, WasmTypeOK
<1>6. OnePlace'
  <2>1. OnePlace
    BY Zenon DEF WasmInv
  <2>2. /\ 1 \in 1 .. Len(invocations)
        /\ \A i \in 1 .. Len(invocations') : i + 1 \in 1 .. Len(invocations) /\ i + 1 # 1
        /\ \A i, j \in 1 .. Len(invocations') : i # j => i + 1 # j + 1
    BY <1>2
  <2>3. \A i \in 1 .. Len(invocations') : Undecided(invocations[i])'
    BY <1>1, <1>2, <2>1, <2>2 DEF OnePlace, Undecided
  <2>4. \A v \in WasmWorkers : running'[v] # Idle => Undecided(running[v])'
    BY <1>1, <1>4, <2>1, <2>2 DEF OnePlace, Undecided
  <2>5. \A i, j \in 1 .. Len(invocations') : i # j => invocations'[i] # invocations'[j]
    BY <1>2, <2>1, <2>2 DEF OnePlace
  <2>6. \A u, v \in WasmWorkers : u # v /\ running'[u] # Idle => running'[u] # running'[v]
    BY <1>2, <1>4, <2>1, <2>2 DEF OnePlace
  <2>7. \A i \in 1 .. Len(invocations'), v \in WasmWorkers : invocations'[i] # running'[v]
    BY <1>2, <1>4, <2>1, <2>2 DEF OnePlace
  <2> QED BY <2>3, <2>4, <2>5, <2>6, <2>7, Zenon DEF OnePlace
<1>7. Holders' = Holders /\ PermitsAreExact' /\ PermitsAreHeld' /\ VerdictsAreTheGuests' /\ FailsClosed'
  BY <1>1, Zenon DEF Holders, WasmInv, PermitsAreExact, PermitsAreHeld, VerdictsAreTheGuests, FailsClosed
<1> QED BY <1>3, <1>6, <1>7, Zenon DEF WasmInv

(* A worker thread runs the module and answers.                             *)
LEMMA ExecuteStep == ASSUME WasmInv, NEW w \in WasmWorkers, NEW v \in Verdicts, Execute(w, v) PROVE WasmInv'
<1> DEFINE r == running[w]
<1>1. r \in OnRequests /\ Undecided(r) /\ v # "none"
  BY Zenon DEF Execute, WasmInv, WasmTypeOK, OnePlace, Verdicts
<1>2. /\ hook' = Delivered(r, v) /\ guest' = [guest EXCEPT ![r] = v]
      /\ running' = [running EXCEPT ![w] = Idle] /\ UNCHANGED <<permits, invocations>>
  BY Zenon DEF Execute
<1>3. /\ \A q \in WasmWorkers : q # w => running[q] # r
      /\ \A i \in 1 .. Len(invocations) : invocations[i] # r
  BY <1>1, IdleAssumption, Zenon DEF WasmInv, OnePlace
<1> HIDE DEF r
<1>4. hook[r] \in Hooks
  BY <1>1, Zenon DEF WasmInv, WasmTypeOK
<1>5. /\ [hook[r] EXCEPT !.verdict = v] \in Hooks /\ [hook[r] EXCEPT !.verdict = v].verdict = v
      /\ [hook[r] EXCEPT !.verdict = v].pc = hook[r].pc /\ [hook[r] EXCEPT !.verdict = v].permit = hook[r].permit
  BY <1>4, Zenon DEF Hooks
<1>6. /\ hook' \in [OnRequests -> Hooks]
      /\ \A q \in OnRequests : q # r => hook'[q] = hook[q]
      /\ hook'[r] = IF hook[r].pc = "await" THEN [hook[r] EXCEPT !.verdict = v] ELSE hook[r]
  <2>1. CASE hook[r].pc = "await"
    <3>1. hook' = [hook EXCEPT ![r] = [hook[r] EXCEPT !.verdict = v]]
      BY <1>2, <2>1, Zenon DEF Delivered
    <3> QED BY <1>1, <1>5, <2>1, <3>1, Zenon DEF WasmInv, WasmTypeOK
  <2>2. CASE hook[r].pc # "await"
    <3>1. hook' = hook
      BY <1>2, <2>2, Zenon DEF Delivered
    <3> QED BY <1>1, <2>2, <3>1, Zenon DEF WasmInv, WasmTypeOK
  <2> QED BY <2>1, <2>2, Zenon
<1>7. /\ hook'[r].pc = hook[r].pc /\ hook'[r].permit = hook[r].permit
      /\ hook'[r].verdict \in {v, "none"}
  BY <1>1, <1>5, <1>6, Zenon DEF Undecided
<1>8. \A q \in OnRequests : hook'[q].pc = hook[q].pc /\ hook'[q].permit = hook[q].permit
  BY <1>6, <1>7, Zenon
<1>9. Holders' = Holders
  BY <1>8, Zenon DEF Holders
<1>10. PermitsAreExact'
  BY <1>2, <1>9, Zenon DEF WasmInv, PermitsAreExact, Holders, Holding
<1>11. PermitsAreHeld'
  BY <1>8, Zenon DEF WasmInv, PermitsAreHeld
<1>12. WasmTypeOK'
  BY <1>1, <1>2, <1>6, Zenon DEF WasmInv, WasmTypeOK
<1>13. guest'[r] = v /\ \A q \in OnRequests : q # r => guest'[q] = guest[q]
  BY <1>1, <1>2, Zenon DEF WasmInv, WasmTypeOK
<1>14. VerdictsAreTheGuests'
  BY <1>1, <1>6, <1>7, <1>8, <1>13, ZenonT(30) DEF WasmInv, VerdictsAreTheGuests, Undecided, Unsent
<1>15. FailsClosed'
  BY <1>1, <1>8, <1>13, AttachedAssumption, Zenon DEF WasmInv, FailsClosed, Undecided
<1>16. running'[w] = Idle /\ \A q \in WasmWorkers : q # w => running'[q] = running[q]
  BY <1>2, Zenon DEF WasmInv, WasmTypeOK
<1>17. OnePlace'
  <2>1. OnePlace /\ \A i \in 1 .. Len(invocations) : invocations[i] \in OnRequests
    BY DEF WasmInv, WasmTypeOK
  <2>2. \A q \in WasmWorkers : running[q] \in OnRequests \cup {Idle}
    BY Zenon DEF WasmInv, WasmTypeOK
  <2>3. \A i \in 1 .. Len(invocations') : Undecided(invocations[i])'
    BY <1>2, <1>3, <1>6, <2>1 DEF OnePlace, Undecided
  <2>4. \A q \in WasmWorkers : running'[q] # Idle => Undecided(running[q])'
    BY <1>3, <1>6, <1>16, <2>1, <2>2 DEF OnePlace, Undecided
  <2>5. \A p, q \in WasmWorkers : p # q /\ running'[p] # Idle => running'[p] # running'[q]
    BY <1>16, <2>1, Zenon DEF OnePlace
  <2>6. \A i \in 1 .. Len(invocations'), q \in WasmWorkers : invocations'[i] # running'[q]
    BY <1>2, <1>16, <2>1, IdleAssumption DEF OnePlace
  <2>7. \A i, j \in 1 .. Len(invocations') : i # j => invocations'[i] # invocations'[j]
    BY <1>2, <2>1, Zenon DEF OnePlace
  <2> QED BY <2>3, <2>4, <2>5, <2>6, <2>7, Zenon DEF OnePlace
<1>18. IsFiniteSet(Holders')
  BY <1>9, Zenon DEF WasmInv
<1> QED BY <1>10, <1>11, <1>12, <1>14, <1>15, <1>17, <1>18, Zenon DEF WasmInv

(* Every step of the middleware keeps the pool sound.                       *)
LEMMA WasmNextPreserves == WasmInv /\ [WasmNext]_wasmVars => WasmInv'
<1>1. ASSUME WasmInv, UNCHANGED wasmVars PROVE WasmInv'
  <2>1. Holders' = Holders /\ UNCHANGED <<hook, permits, invocations, running, guest>>
    BY <1>1, Zenon DEF wasmVars, Holders
  <2> QED
    BY <1>1, <2>1
    DEF WasmInv, WasmTypeOK, PermitsAreExact, PermitsAreHeld, OnePlace, Undecided, VerdictsAreTheGuests, FailsClosed
<1> QED
  BY <1>1, MatchStep, ReadStep, AcquireStep, SendStep, VerdictStep, DropStep, ReceiveStep, ExecuteStep, Zenon
  DEF WasmNext, HookStep, WorkerStep

(* If nobody who is queued has gone, the invocations and the sender need    *)
(* more permits than there are.                                             *)
LEMMA RoomForHolders == WasmInv => FullOnlyByTheGone
<1> SUFFICES ASSUME WasmInv, NEW r \in OnRequests, hook[r].pc = "send", QueueIsFull,
                    \A i \in 1 .. Len(invocations) : hook[invocations[i]].pc # "gone"
             PROVE  FALSE
  BY Zenon DEF FullOnlyByTheGone
<1> DEFINE T == Holders \ {r}
<1>1. permits \in Nat /\ IsFiniteSet(Holders) /\ permits + Cardinality(Holders) = WasmQueue /\ Cardinality(Holders) \in Nat
  BY FS_CardinalityType, Zenon DEF WasmInv, WasmTypeOK, PermitsAreExact, Holders, Holding
<1>2. r \in Holders
  BY Zenon DEF Holders, Holding
<1>3. IsFiniteSet(T) /\ Cardinality(T) = Cardinality(Holders) - 1
  BY <1>1, <1>2, FS_RemoveElement, Zenon
<1>4. /\ Len(invocations) \in Nat /\ Len(invocations) >= WasmQueue /\ invocations \in [1 .. Len(invocations) -> OnRequests]
  BY DEF WasmInv, WasmTypeOK, QueueIsFull
<1>5. \A i \in 1 .. Len(invocations) : invocations[i] \in T
  BY <1>4, Zenon DEF WasmInv, OnePlace, Undecided, Holders, Holding
<1>6. invocations \in [1 .. Len(invocations) -> T]
  BY <1>4, <1>5, Zenon
<1>7. IsFiniteSet(1 .. Len(invocations)) /\ Cardinality(1 .. Len(invocations)) = Len(invocations)
  <2>1. ASSUME NEW n \in Nat PROVE IsFiniteSet(1 .. n) /\ Cardinality(1 .. n) = n
    BY FS_Interval
  <2> QED BY <1>4, <2>1, Zenon
<1> HIDE DEF T
<1>8. Cardinality(T) < Cardinality(1 .. Len(invocations))
  BY <1>1, <1>3, <1>4, <1>7, WasmQueueAssumption
<1>9. \E i, j \in 1 .. Len(invocations) : i # j /\ invocations[i] = invocations[j]
  BY <1>3, <1>6, <1>7, <1>8, FS_PigeonHole
<1> QED BY <1>9, Zenon DEF WasmInv, OnePlace

(* The pool of the WASM middleware, for any requests, workers and queue     *)
(* capacity, in whatever order clients leave and workers answer: permits    *)
(* are neither leaked nor doubled, a permit is worth a place in the channel *)
(* unless clients have gone, and no attached request goes on without the    *)
(* guest's consent (wasm_middleware.rs: handle_request, worker_loop).       *)
THEOREM PoolStaysSound == WasmSpec => []PoolIsSound
<1>1. WasmInv => PoolIsSound
  BY RoomForHolders, Zenon DEF WasmInv, PoolIsSound
<1> QED BY <1>1, WasmInitEstablishes, WasmNextPreserves, PTL DEF WasmSpec

-----------------------------------------------------------------------------
(* Discovery.                                                               *)

DiscoveryTypeOK ==
  /\ lease \in [Keys -> Nat]
  /\ modeOf \in [Keys -> Modes \cup {"?", "unset"}]
  /\ mode \in Modes \cup {"unset"}
  /\ wire \subseteq Announcement /\ sending \subseteq Announcement

(* While the mode is unset nobody is listed, so the first registration     *)
(* that commits it contradicts nobody.                                     *)
ListedModesAreKnown == MoriIO => \A k \in Keys : lease[k] # Absent => modeOf[k] \in Modes

DiscoveryInv == DiscoveryTypeOK /\ ListedModesAreKnown /\ OneTransferMode

(* An announcement that parses leaves its own mode committed, or none has  *)
(* to be: a transfer mode exists under MoRI-IO only.                       *)
LEMMA ParsedMode ==
  ASSUME MoriIO, DiscoveryTypeOK, NEW a \in Announcement, Parses(a), a.type \in {"P", "D"}
  PROVE  a.mode \in Modes /\ Commit(a) = a.mode /\ (mode # "unset" => mode = a.mode)
BY Zenon DEF Parses, Commit, DiscoveryTypeOK, Announcement, Modes

(* Handling one announcement.                                               *)
LEMMA AnnouncementStep == ASSUME DiscoveryInv, Handle PROVE DiscoveryInv'
<1> USE DEF DiscoveryInv
<1>1. PICK a \in wire :
        /\ wire' = wire \ {a}
        /\ mode' = IF Parses(a) THEN Commit(a) ELSE mode
        /\ IF Parses(a) /\ a.type \in {"P", "D"}
           THEN /\ lease' = [lease EXCEPT ![<<a.type, a.at>>] = PingSeconds + 1]
                /\ modeOf' = [modeOf EXCEPT ![<<a.type, a.at>>] = a.mode]
           ELSE UNCHANGED <<lease, modeOf>>
  BY Zenon DEF Handle
<1>2. a \in Announcement /\ sending' = sending
  BY Zenon DEF Handle, DiscoveryTypeOK
<1>3. CASE Parses(a) /\ a.type \in {"P", "D"}
  <2> DEFINE x == <<a.type, a.at>>
  <2>1. x \in Keys /\ a.mode \in Modes \cup {"?"}
    BY <1>2, <1>3, Zenon DEF Keys, Announcement
  <2>2. lease' = [lease EXCEPT ![x] = PingSeconds + 1] /\ modeOf' = [modeOf EXCEPT ![x] = a.mode] /\ mode' = Commit(a)
    BY <1>1, <1>3, Zenon
  <2> HIDE DEF x
  <2>3. mode' \in Modes \cup {"unset"}
    BY <2>2, <1>3, ParsedMode, Zenon DEF Commit, DiscoveryTypeOK
  <2>4. DiscoveryTypeOK'
    BY <1>1, <1>2, <2>1, <2>2, <2>3, PingAssumption DEF DiscoveryTypeOK
  <2>5. ASSUME MoriIO, NEW k \in Keys, lease'[k] # Absent
        PROVE  modeOf'[k] \in Modes /\ modeOf'[k] = mode'
    <3>1. a.mode \in Modes /\ mode' = a.mode /\ (mode # "unset" => mode = a.mode)
      BY <2>2, <2>5, <1>2, <1>3, ParsedMode, Zenon
    <3>2. CASE k = x
      BY <3>1, <3>2, <2>1, <2>2, Zenon DEF DiscoveryTypeOK
    <3>3. CASE k # x
      <4>1. lease[k] # Absent /\ modeOf'[k] = modeOf[k]
        BY <3>3, <2>1, <2>2, <2>5, Zenon DEF DiscoveryTypeOK
      <4>2. modeOf[k] \in Modes /\ modeOf[k] = mode
        BY <4>1, <2>5, Zenon DEF ListedModesAreKnown, OneTransferMode
      <4> QED BY <4>1, <4>2, <3>1, Zenon DEF Modes
    <3> QED BY <3>2, <3>3, Zenon
  <2> QED BY <2>4, <2>5, Zenon DEF ListedModesAreKnown, OneTransferMode
<1>4. CASE ~(Parses(a) /\ a.type \in {"P", "D"})
  <2>1. UNCHANGED <<lease, modeOf, mode>>
    BY <1>1, <1>4, Zenon DEF Commit
  <2> QED BY <1>1, <1>2, <2>1, Zenon DEF DiscoveryTypeOK, ListedModesAreKnown, OneTransferMode
<1> QED BY <1>3, <1>4, Zenon

(* Every step of the registry keeps its invariant.                          *)
LEMMA DiscoveryNextPreserves == DiscoveryInv /\ [DiscoveryNext]_discoveryVars => DiscoveryInv'
<1> SUFFICES ASSUME DiscoveryInv, [DiscoveryNext]_discoveryVars PROVE DiscoveryInv'
  BY Zenon
<1> USE DEF DiscoveryInv, DiscoveryTypeOK, ListedModesAreKnown, OneTransferMode
<1>1. CASE Ping BY <1>1, Zenon DEF Ping
<1>2. CASE Falls BY <1>2, Zenon DEF Falls
<1>3. CASE Lose BY <1>3, Zenon DEF Lose
<1>4. CASE Handle BY <1>4, AnnouncementStep, Zenon
<1>5. CASE NoMessage BY <1>5, Zenon DEF NoMessage
<1>6. CASE Clean BY <1>6, Zenon DEF Clean, Expired, Absent
<1>7. CASE Second BY <1>7 DEF Second, Absent
<1>8. CASE Shutdown BY <1>8, Zenon DEF Shutdown
<1>9. CASE UNCHANGED discoveryVars BY <1>9, Zenon DEF discoveryVars
<1> QED BY <1>1, <1>2, <1>3, <1>4, <1>5, <1>6, <1>7, <1>8, <1>9, Zenon DEF DiscoveryNext

(* The registry starts empty and consistent.                                *)
LEMMA DiscoveryInitEstablishes == DiscoveryInit => DiscoveryInv
BY AnnouncementsAssumption
   DEF DiscoveryInit, DiscoveryInv, DiscoveryTypeOK, ListedModesAreKnown, OneTransferMode, Absent

(* parse_registration and handle_registration_message: whatever instances  *)
(* announce, and however messages are lost, repeated or reordered, all     *)
(* listed instances share the committed transfer mode.                     *)
THEOREM TransferModesAgree == DiscoverySpec => []OneTransferMode
<1>1. DiscoveryInv => OneTransferMode
  BY Zenon DEF DiscoveryInv
<1> QED BY <1>1, DiscoveryInitEstablishes, DiscoveryNextPreserves, PTL DEF DiscoverySpec

(* handle_registration_message: the step that commits a mode lists an      *)
(* instance with that mode, so an unknown service type commits nothing.    *)
THEOREM ModesComeFromInstances == DiscoverySpec => ModeComesFromAnInstance
<1>1. ASSUME DiscoveryInv, DiscoveryNext, mode' # mode
      PROVE  \E k \in Keys : lease'[k] # Absent /\ modeOf'[k] = mode'
  <2>1. Handle
    BY <1>1, Zenon DEF DiscoveryNext, Ping, Falls, Lose, NoMessage, Clean, Second, Shutdown
  <2>2. PICK a \in wire :
          /\ mode' = IF Parses(a) THEN Commit(a) ELSE mode
          /\ Parses(a) /\ a.type \in {"P", "D"} =>
               /\ lease' = [lease EXCEPT ![<<a.type, a.at>>] = PingSeconds + 1]
               /\ modeOf' = [modeOf EXCEPT ![<<a.type, a.at>>] = a.mode]
    BY <2>1, Zenon DEF Handle
  <2>3. Parses(a) /\ a.type \in {"P", "D"} /\ mode' = a.mode /\ a \in Announcement
    BY <1>1, <2>2, Zenon DEF Commit, DiscoveryInv, DiscoveryTypeOK
  <2> DEFINE x == <<a.type, a.at>>
  <2>4. x \in Keys
    BY <2>3, Zenon DEF Keys, Announcement
  <2>5. lease' = [lease EXCEPT ![x] = PingSeconds + 1] /\ modeOf' = [modeOf EXCEPT ![x] = a.mode]
    BY <2>2, <2>3, Zenon
  <2> HIDE DEF x
  <2>6. lease'[x] = PingSeconds + 1 /\ modeOf'[x] = a.mode
    BY <2>4, <2>5, <1>1, Zenon DEF DiscoveryInv, DiscoveryTypeOK
  <2> QED BY <2>3, <2>4, <2>6, PingAssumption DEF Absent
<1>2. DiscoveryInv /\ [DiscoveryNext]_discoveryVars
        => [mode' # mode => \E k \in Keys : lease'[k] # Absent /\ modeOf'[k] = mode']_discoveryVars
  BY <1>1, Zenon
<1> QED BY <1>2, DiscoveryInitEstablishes, DiscoveryNextPreserves, PTL
        DEF DiscoverySpec, ModeComesFromAnInstance


Pod == [ip : PodIps, ready : BOOLEAN, deleting : BOOLEAN]
Event == [name : PodNames, pod : Pod]
Infos == [name : PodNames, ip : PodIps, ready : BOOLEAN, type : {"regular", "prefill", "decode"}]
Roles == {"regular", "prefill", "decode", NoRole}

PodTypeOK ==
  /\ cluster \in [PodNames -> SUBSET Pod]
  /\ events \in Seq(Event)
  /\ tracked \subseteq Infos
  /\ podWorkers \in [PodIps -> Roles]

(* Without it a deletion could take away the worker of another tracked pod. *)
OnePodPerAddress == \A i, j \in tracked : i.ip = j.ip => i = j

PodInv == PodTypeOK /\ OnePodPerAddress /\ TrackingMatchesTheRouter

(* What the watcher reads from a pod.                                       *)
LEMMA InfoTypes ==
  ASSUME NEW n \in PodNames, NEW pod \in Pod
  PROVE  PodInfo(n, pod) \in Infos
<1>1. PodType(n) \in {"regular", "prefill", "decode"}
  BY Zenon DEF PodType
<1> QED BY <1>1, Zenon DEF PodInfo, Pod, Infos

(* What the handler touches stays consistent.                               *)
Kept == tracked \subseteq Infos /\ podWorkers \in [PodIps -> Roles] /\ OnePodPerAddress /\ TrackingMatchesTheRouter

(* A pod was applied.                                                       *)
LEMMA EventStep ==
  ASSUME Kept, NEW info \in Infos, NEW answers, HandlePodEvent(info, answers)
  PROVE  Kept'
<1> USE DEF Kept
<1>0. info.ip \in PodIps /\ info.type \in {"regular", "prefill", "decode"} /\ info.type # NoRole
  BY NoRoleAssumption, Zenon DEF Infos
<1>1. CASE UNCHANGED <<tracked, podWorkers>>
  BY <1>1, Zenon DEF OnePodPerAddress, TrackingMatchesTheRouter
<1>2. CASE /\ Accepts(info, answers) /\ tracked' = tracked \cup {info}
           /\ podWorkers' = [podWorkers EXCEPT ![info.ip] = info.type]
  <2>1. \A j \in tracked : j.ip # info.ip
    BY <1>0, <1>2, Zenon DEF Accepts, TrackingMatchesTheRouter
  <2>2. podWorkers' \in [PodIps -> Roles] /\ podWorkers'[info.ip] = info.type
        /\ \A ip \in PodIps \ {info.ip} : podWorkers'[ip] = podWorkers[ip]
    BY <1>0, <1>2, Zenon DEF Roles
  <2>3. OnePodPerAddress'
    BY <1>2, <2>1, Zenon DEF OnePodPerAddress
  <2>4. \A j \in tracked : j.ip \in PodIps
    BY Zenon DEF Infos
  <2>5. TrackingMatchesTheRouter'
    BY <1>0, <1>2, <2>1, <2>2, <2>4 DEF TrackingMatchesTheRouter
  <2> QED BY <1>2, <2>2, <2>3, <2>5, Zenon
<1>3. CASE ~Accepts(info, answers) /\ tracked' = tracked \ {info} /\ podWorkers' = podWorkers /\ info \notin tracked
  BY <1>3, Zenon DEF OnePodPerAddress, TrackingMatchesTheRouter
<1> QED BY <1>1, <1>2, <1>3, Zenon DEF HandlePodEvent, TrackedAfterAdd

(* A pod was deleted.                                                       *)
LEMMA DeletionStep ==
  ASSUME Kept, NEW info \in Infos, HandlePodDeletion(info)
  PROVE  Kept'
<1> USE DEF Kept
<1>0. info.ip \in PodIps
  BY Zenon DEF Infos
<1>1. CASE info \notin tracked
  <2>1. tracked' = tracked /\ podWorkers' = podWorkers
    BY <1>1, Zenon DEF HandlePodDeletion
  <2> QED BY <2>1, Zenon DEF OnePodPerAddress, TrackingMatchesTheRouter
<1>2. CASE info \in tracked
  <2>1. tracked' = tracked \ {info} /\ podWorkers' = [podWorkers EXCEPT ![info.ip] = NoRole]
    BY <1>2, Zenon DEF HandlePodDeletion
  <2>2. \A j \in tracked' : j.ip # info.ip /\ j.ip \in PodIps
    BY <1>2, <2>1, Zenon DEF OnePodPerAddress, Infos
  <2>3. podWorkers' \in [PodIps -> Roles] /\ podWorkers'[info.ip] = NoRole
        /\ \A ip \in PodIps \ {info.ip} : podWorkers'[ip] = podWorkers[ip]
    BY <1>0, <2>1, Zenon DEF Roles
  <2>4. OnePodPerAddress'
    BY <2>1, Zenon DEF OnePodPerAddress
  <2>5. TrackingMatchesTheRouter'
    BY <1>0, <2>1, <2>2, <2>3, Zenon DEF TrackingMatchesTheRouter
  <2> QED BY <2>1, <2>3, <2>4, <2>5, Zenon
<1> QED BY <1>1, <1>2, Zenon

(* The cluster changes a pod and the event is on its way.                   *)
LEMMA ClusterStep ==
  ASSUME PodInv, NEW n \in PodNames, NEW pod \in Pod, PodApplied(n, pod)
  PROVE  PodInv'
<1>1. [name |-> n, pod |-> pod] \in Event
  BY Zenon DEF Event
<1>2. events' \in Seq(Event)
  BY <1>1 DEF PodApplied, PodInv, PodTypeOK
<1>3. cluster' \in [PodNames -> SUBSET Pod]
  BY Zenon DEF PodApplied, PodInv, PodTypeOK
<1> QED BY <1>2, <1>3, Zenon DEF PodApplied, PodInv, PodTypeOK, OnePodPerAddress, TrackingMatchesTheRouter

(* The watch is opened again and lists the pods.                            *)
LEMMA ResumeStep == ASSUME PodInv, WatchResumes PROVE PodInv'
<1> DEFINE S == {n \in PodNames : cluster[n] # {}}
<1>1. PICK order \in Injection(1 .. Cardinality(S), S) :
        events' = [k \in DOMAIN order |-> [name |-> order[k], pod |-> CHOOSE p \in cluster[order[k]] : TRUE]]
  BY Zenon DEF WatchResumes
<1>2. Cardinality(S) \in Nat
  BY PodNamesAssumption, FS_Subset, FS_CardinalityType, Zenon
<1>3. order \in [1 .. Cardinality(S) -> S]
  BY <1>1, Zenon DEF Injection
<1>4. ASSUME NEW k \in 1 .. Cardinality(S)
      PROVE  [name |-> order[k], pod |-> CHOOSE p \in cluster[order[k]] : TRUE] \in Event
  <2>1. order[k] \in PodNames /\ cluster[order[k]] # {} /\ cluster[order[k]] \subseteq Pod
    BY <1>3, Zenon DEF PodInv, PodTypeOK
  <2>2. (CHOOSE p \in cluster[order[k]] : TRUE) \in cluster[order[k]]
    BY <2>1, Zenon
  <2> QED BY <2>1, <2>2, Zenon DEF Event
<1>5. events' \in [1 .. Cardinality(S) -> Event]
  BY <1>1, <1>3, <1>4, Zenon
<1>6. events' \in Seq(Event)
  <2> HIDE DEF S
  <2> QED BY <1>2, <1>5, SeqDef
<1> QED BY <1>6, Zenon DEF WatchResumes, PodInv, PodTypeOK, OnePodPerAddress, TrackingMatchesTheRouter

(* The watcher handles its next event.                                      *)
LEMMA PodEventStep == ASSUME PodInv, NEW answers \in BOOLEAN, HandleNext(answers) PROVE PodInv'
<1> DEFINE n == Head(events).name
           pod == Head(events).pod
<1>1. events # <<>> /\ events' = Tail(events) /\ UNCHANGED <<cluster, watching, podMode>>
  BY Zenon DEF HandleNext
<1>2. Head(events) \in Event /\ events' \in Seq(Event)
  BY <1>1 DEF PodInv, PodTypeOK
<1>3. PodInfo(n, pod) \in Infos
  BY <1>2, InfoTypes, Zenon DEF Event
<1>4. \/ UNCHANGED <<tracked, podWorkers>>
      \/ HandlePodDeletion(PodInfo(n, pod))
      \/ HandlePodEvent(PodInfo(n, pod), answers)
  BY Zenon DEF HandleNext
<1>5. Kept
  BY Zenon DEF PodInv, PodTypeOK, Kept
<1> HIDE DEF n, pod
<1>6. Kept'
  <2>1. CASE UNCHANGED <<tracked, podWorkers>>
    BY <1>5, <2>1, Zenon DEF Kept, OnePodPerAddress, TrackingMatchesTheRouter
  <2> QED BY <1>3, <1>4, <1>5, <2>1, DeletionStep, EventStep, Zenon
<1> QED BY <1>1, <1>2, <1>6, Zenon DEF PodInv, PodTypeOK, Kept

(* Every step of the watcher keeps its invariant.                           *)
LEMMA PodNextPreserves == PodInv /\ [PodNext]_podVars => PodInv'
<1> SUFFICES ASSUME PodInv, [PodNext]_podVars PROVE PodInv'
  BY Zenon
<1>1. ASSUME NEW n \in PodNames, PodStarts(n) PROVE PodInv'
  BY <1>1, ClusterStep, Zenon DEF PodStarts, Pod
<1>2. ASSUME NEW n \in PodNames, PodProbed(n) PROVE PodInv'
  <2>1. PICK p \in cluster[n] : PodApplied(n, [p EXCEPT !.ready = ~@])
    BY <1>2, Zenon DEF PodProbed
  <2>2. p \in Pod
    BY Zenon DEF PodInv, PodTypeOK
  <2>3. [p EXCEPT !.ready = ~@] \in Pod
    <3>1. (~p.ready) \in BOOLEAN
      BY Zenon
    <3>2. ASSUME NEW b \in BOOLEAN PROVE [p EXCEPT !.ready = b] \in Pod
      BY <2>2, Zenon DEF Pod
    <3> QED BY <3>1, <3>2, Zenon
  <2> QED BY <2>1, <2>3, ClusterStep, Zenon
<1>3. ASSUME NEW n \in PodNames, PodTerminates(n) PROVE PodInv'
  <2>1. PICK p \in cluster[n] : PodApplied(n, [p EXCEPT !.deleting = TRUE])
    BY <1>3, Zenon DEF PodTerminates
  <2>2. p \in Pod
    BY Zenon DEF PodInv, PodTypeOK
  <2>3. [p EXCEPT !.deleting = TRUE] \in Pod
    BY <2>2, Zenon DEF Pod
  <2> QED BY <2>1, <2>3, ClusterStep, Zenon
<1>4. ASSUME NEW n \in PodNames, PodLeaves(n) PROVE PodInv'
  BY <1>4, Zenon DEF PodLeaves, PodInv, PodTypeOK, OnePodPerAddress, TrackingMatchesTheRouter
<1>5. CASE WatchBreaks
  BY <1>5 DEF WatchBreaks, PodInv, PodTypeOK, OnePodPerAddress, TrackingMatchesTheRouter
<1>6. CASE WatchResumes
  BY <1>6, ResumeStep, Zenon
<1>7. ASSUME NEW answers \in BOOLEAN, HandleNext(answers) PROVE PodInv'
  BY <1>7, PodEventStep, Zenon
<1>8. CASE UNCHANGED podVars
  BY <1>8, Zenon DEF podVars, PodInv, PodTypeOK, OnePodPerAddress, TrackingMatchesTheRouter
<1> QED BY <1>1, <1>2, <1>3, <1>4, <1>5, <1>6, <1>7, <1>8, Zenon DEF PodNext

(* The watcher starts with nothing tracked.                                 *)
LEMMA PodInitEstablishes == PodInit => PodInv
BY DEF PodInit, PodInv, PodTypeOK, Roles, OnePodPerAddress, TrackingMatchesTheRouter

(* handle_pod_event and handle_pod_deletion: for any pods and addresses,    *)
(* through failed additions, reused addresses, new listings and lost        *)
(* events, the tracked pods are exactly the router's workers.               *)
THEOREM TrackerIsTheRouter == PodSpec => []TrackingMatchesTheRouter
<1>1. PodInv => TrackingMatchesTheRouter
  BY Zenon DEF PodInv
<1> QED BY <1>1, PodInitEstablishes, PodNextPreserves, PTL DEF PodSpec

-----------------------------------------------------------------------------
(* The concurrency limit                                                     *)

Buckets == [tokens : 0 .. Capacity, since : 0 .. FillTime]

(* The refill for some elapsed time is a natural number of units.          *)
LEMMA RefillIsNat ==
  ASSUME NEW n \in Nat
  PROVE  Rate * n \in Nat /\ Rate * (n + 1) = Rate * n + Rate
BY BucketAssumption

(* A quotient of naturals is one.                                          *)
LEMMA QuotientIsNat ==
  ASSUME NEW m \in Nat, NEW d \in Nat \ {0}
  PROVE  m \div d \in Nat
OBVIOUS

(* The operations of the bucket return buckets.                            *)
LEMMA BucketOperations ==
  ASSUME NEW b \in Buckets
  PROVE  /\ New \in Buckets
         /\ Refill(b) \in Buckets
         /\ TryAcquire(b) \in Buckets
         /\ ReturnTokens(b) \in Buckets
         /\ Elapse(b) \in Buckets
<1>1. b.tokens \in 0 .. Capacity /\ b.since \in 0 .. FillTime
  BY Zenon DEF Buckets
<1>2. Rate * b.since \in Nat
  BY <1>1, RefillIsNat, BucketAssumption
<1>3. Refill(b) \in Buckets
  BY <1>1, <1>2, BucketAssumption DEF Refill, Capped, Buckets
<1>4. New \in Buckets
  BY BucketAssumption DEF New, Buckets
<1>5. TryAcquire(b) \in Buckets
  BY <1>3, BucketAssumption DEF TryAcquire, TryAcquireOk, Buckets
<1>6. ReturnTokens(b) \in Buckets
  BY <1>1, BucketAssumption DEF ReturnTokens, Capped, Buckets
<1>7. Elapse(b) \in Buckets
  BY <1>1, BucketAssumption DEF Elapse, Buckets
<1>8. QED
  BY <1>3, <1>4, <1>5, <1>6, <1>7, Zenon

(* Looking at the bucket does not change what it is worth, a token taken   *)
(* or returned changes it by one token, and a tick by one refill.          *)
LEMMA LevelSteps ==
  ASSUME NEW b \in Buckets
  PROVE  /\ Level(New) = Capacity
         /\ Level(Refill(b)) = Level(b)
         /\ TryAcquireOk(b) <=> Level(b) >= One
         /\ TryAcquireOk(b) => Level(TryAcquire(b)) = Level(b) - One
         /\ ~TryAcquireOk(b) => Level(TryAcquire(b)) = Level(b)
         /\ Level(ReturnTokens(b)) = Capped(Level(b) + One)
         /\ Level(Elapse(b)) = Capped(Level(b) + Rate)
<1>1. b.tokens \in 0 .. Capacity /\ b.since \in 0 .. FillTime
  BY Zenon DEF Buckets
<1> DEFINE x == Rate * b.since
<1>2. x \in Nat /\ Rate * (b.since + 1) = x + Rate /\ Rate * 0 = 0
  BY <1>1, RefillIsNat, BucketAssumption
<1>3. Level(b) \in 0 .. Capacity /\ Level(b) = Capped(b.tokens + x)
  BY <1>1, <1>2, BucketAssumption DEF Level, Capped
<1>4. Refill(b) = [tokens |-> Level(b), since |-> 0]
  BY Zenon DEF Refill, Level
<1>5. ASSUME NEW t \in 0 .. Capacity
      PROVE  Level([tokens |-> t, since |-> 0]) = t
  BY <1>2, BucketAssumption DEF Level, Capped
<1>6. Level(New) = Capacity
  BY <1>5, BucketAssumption DEF New
<1>7. Level(Refill(b)) = Level(b)
  BY <1>3, <1>4, <1>5, Zenon
<1>8. TryAcquireOk(b) <=> Level(b) >= One
  BY <1>4 DEF TryAcquireOk
<1>9. TryAcquireOk(b) => Level(TryAcquire(b)) = Level(b) - One
  <2> SUFFICES ASSUME TryAcquireOk(b) PROVE Level(TryAcquire(b)) = Level(b) - One
    BY Zenon
  <2>1. TryAcquire(b) = [tokens |-> Level(b) - One, since |-> 0]
    BY <1>4 DEF TryAcquire
  <2>2. Level(b) - One \in 0 .. Capacity
    BY <1>3, <1>8, BucketAssumption
  <2> QED
    BY <2>1, <2>2, <1>5, Zenon
<1>10. ~TryAcquireOk(b) => Level(TryAcquire(b)) = Level(b)
  BY <1>7, Zenon DEF TryAcquire
<1>11. Level(ReturnTokens(b)) = Capped(Level(b) + One)
  <2>1. ReturnTokens(b).tokens = Capped(b.tokens + One) /\ ReturnTokens(b).since = b.since
    BY <1>1, Zenon DEF ReturnTokens, Buckets
  <2>2. Level(ReturnTokens(b)) = Capped(Capped(b.tokens + One) + x)
    BY <2>1, Zenon DEF Level
  <2> HIDE DEF x
  <2> QED
    BY <2>2, <1>1, <1>2, <1>3, BucketAssumption DEF Capped
<1>12. Level(Elapse(b)) = Capped(Level(b) + Rate)
  <2>1. CASE b.since < FillTime
    <3>1. Elapse(b).tokens = b.tokens /\ Elapse(b).since = b.since + 1
      BY <2>1, Zenon DEF Elapse, Buckets
    <3>2. Level(Elapse(b)) = Capped(b.tokens + (x + Rate))
      BY <3>1, <1>2, Zenon DEF Level
    <3> HIDE DEF x
    <3> QED
      BY <3>2, <1>1, <1>2, <1>3, BucketAssumption DEF Capped
  <2>2. CASE ~(b.since < FillTime)
    <3>1. Elapse(b) = b
      BY <2>2, <1>1, Zenon DEF Elapse, Buckets
    <3>2. b.since = FillTime /\ x >= Capacity
      BY <2>2, <1>1, BucketAssumption
    <3> HIDE DEF x
    <3> QED
      BY <3>1, <3>2, <1>1, <1>2, <1>3, BucketAssumption DEF Capped
  <2> QED
    BY <2>1, <2>2, Zenon
<1> QED
  BY <1>6, <1>7, <1>8, <1>9, <1>10, <1>11, <1>12, Zenon
-----------------------------------------------------------------------------
(* Initially everything has its type.                                      *)
LEMMA TypeInit == LimiterInit => LimiterTypeOK
BY BucketAssumption, LimiterAssumption, BucketOperations
DEF LimiterInit, LimiterTypeOK, Handlers, Entries, Permits, New, Buckets

(* An answer keeps the types of what it changes.                           *)
LEMMA AnswerType ==
  ASSUME LimiterTypeOK, NEW r \in Requests, NEW result \in {"granted", "timeout"}, Answer(r, result)
  PROVE  /\ entry' \in [Requests -> Entries]
         /\ permit' \in [Requests -> Permits]
         /\ age' \in [Requests -> 0 .. QueueTimeout]
         /\ left' \in [Requests -> Nat]
BY LimiterAssumption DEF LimiterTypeOK, Answer, Entries, Permits

(* Every step keeps the types.                                             *)
LEMMA TypeStep == LimiterTypeOK /\ [LimiterNext]_limiterVars => LimiterTypeOK'
<1> SUFFICES ASSUME LimiterTypeOK, [LimiterNext]_limiterVars PROVE LimiterTypeOK'
  BY Zenon
<1>0. /\ bucket \in Buckets
      /\ handler \in [Requests -> Handlers]
      /\ queue \in Seq(Requests) /\ Len(queue) <= QueueSize
      /\ entry \in [Requests -> Entries]
      /\ age \in [Requests -> 0 .. QueueTimeout]
      /\ left \in [Requests -> Nat]
      /\ permit \in [Requests -> Permits]
      /\ waiting \in Int /\ embeddings \in Int
      /\ cancels \in 0 .. MaxCancels
  BY Zenon DEF LimiterTypeOK, Buckets
<1>B. /\ TryAcquire(bucket) \in Buckets
      /\ Refill(bucket) \in Buckets
      /\ ReturnTokens(bucket) \in Buckets
      /\ Elapse(bucket) \in Buckets
  BY <1>0, BucketOperations, Zenon
<1> USE LimiterAssumption
<1>1. ASSUME NEW r \in Requests, Arrive(r) PROVE LimiterTypeOK'
  BY <1>0, <1>1, <1>B, Zenon DEF Arrive, LimiterTypeOK, Buckets, Handlers
<1>2. ASSUME NEW r \in Requests, Enqueue(r) PROVE LimiterTypeOK'
  <2>1. queue' \in Seq(Requests) /\ Len(queue') <= QueueSize
    BY <1>0, <1>2 DEF Enqueue
  <2> QED
    BY <1>0, <1>2, <2>1 DEF Enqueue, LimiterTypeOK, Buckets, Handlers, Entries
<1>3. ASSUME NEW r \in Requests, TooManyRequests(r) PROVE LimiterTypeOK'
  BY <1>0, <1>3, <1>B, Zenon DEF TooManyRequests, LimiterTypeOK, Buckets, Handlers
<1>4. ASSUME NEW r \in Requests, FirstTry(r) PROVE LimiterTypeOK'
  <2>1. /\ entry' \in [Requests -> Entries]
        /\ permit' \in [Requests -> Permits]
        /\ age' \in [Requests -> 0 .. QueueTimeout]
        /\ left' \in [Requests -> Nat]
    <3>1. CASE TryAcquireOk(bucket)
      BY <1>4, <3>1, AnswerType, Zenon DEF FirstTry
    <3>2. CASE ~TryAcquireOk(bucket)
      BY <1>0, <1>4, <3>2, Zenon DEF FirstTry, Entries
    <3> QED
      BY <3>1, <3>2, Zenon
  <2> QED
    BY <1>0, <1>4, <1>B, <2>1, Zenon DEF FirstTry, LimiterTypeOK, Buckets
<1>5. ASSUME NEW r \in Requests, ComputeWait(r) PROVE LimiterTypeOK'
  <2>1. WaitTime(bucket) \in Nat
    <3> DEFINE missing == IF One > bucket.tokens THEN One - bucket.tokens ELSE 0
    <3>1. missing + Rate - 1 \in Nat
      BY <1>0, BucketAssumption, SMTT(30) DEF Buckets
    <3> QED
      BY <3>1, QuotientIsNat, BucketAssumption, Zenon DEF WaitTime
  <2> QED
    BY <1>0, <1>5, <2>1, Zenon DEF ComputeWait, LimiterTypeOK, Buckets, Entries
<1>6. ASSUME NEW r \in Requests, Poll(r) PROVE LimiterTypeOK'
  <2>1. /\ entry' \in [Requests -> Entries]
        /\ permit' \in [Requests -> Permits]
        /\ age' \in [Requests -> 0 .. QueueTimeout]
        /\ left' \in [Requests -> Nat]
    <3>1. CASE TryAcquireOk(bucket)
      BY <1>6, <3>1, AnswerType, Zenon DEF Poll
    <3>2. CASE ~TryAcquireOk(bucket)
      BY <1>0, <1>6, <3>2, Zenon DEF Poll
    <3> QED
      BY <3>1, <3>2, Zenon
  <2> QED
    BY <1>0, <1>6, <1>B, <2>1, Zenon DEF Poll, LimiterTypeOK, Buckets
<1>7. ASSUME NEW r \in Requests, Expire(r) PROVE LimiterTypeOK'
  BY <1>0, <1>7, AnswerType, Zenon DEF Expire, LimiterTypeOK, Buckets
<1>8. ASSUME NEW r \in Requests, Deliver(r) PROVE LimiterTypeOK'
  BY <1>0, <1>8, SMTT(30) DEF Deliver, Dequeue, LimiterTypeOK, Buckets, Handlers, Permits
<1>9. ASSUME NEW r \in Requests, Finish(r) PROVE LimiterTypeOK'
  BY <1>0, <1>9, <1>B, Zenon DEF Finish, LimiterTypeOK, Buckets, Handlers
<1>10. ASSUME NEW r \in Requests, Withdraw(r) PROVE LimiterTypeOK'
  BY <1>0, <1>10 DEF Withdraw, LimiterTypeOK, Buckets, Handlers, Permits
<1>11. ASSUME Receive PROVE LimiterTypeOK'
  <2> DEFINE r == Head(queue)
  <2>1. r \in Requests /\ Tail(queue) \in Seq(Requests) /\ Len(Tail(queue)) <= QueueSize
    BY <1>0, <1>11, HeadTailProperties DEF Receive
  <2>2. /\ entry' \in [Requests -> Entries]
        /\ permit' \in [Requests -> Permits]
        /\ age' \in [Requests -> 0 .. QueueTimeout]
        /\ left' \in [Requests -> Nat]
    <3>1. CASE Answer(r, "timeout")
      BY <2>1, <3>1, AnswerType, Zenon
    <3>2. CASE Answer(r, "granted")
      BY <2>1, <3>2, AnswerType, Zenon
    <3>3. CASE /\ entry' = [entry EXCEPT ![r] = "spawned"]
               /\ UNCHANGED <<permit, age, left>>
      BY <1>0, <2>1, <3>3, Zenon DEF Entries
    <3> QED
      BY <1>11, <3>1, <3>2, <3>3, Zenon DEF Receive
  <2> QED
    BY <1>0, <1>11, <1>B, <2>1, <2>2, Zenon DEF Receive, LimiterTypeOK, Buckets
<1>12. ASSUME Tick PROVE LimiterTypeOK'
  <2>1. age' \in [Requests -> 0 .. QueueTimeout] /\ left' \in [Requests -> Nat]
    BY <1>0, <1>12 DEF Tick, AtMost
  <2> QED
    BY <1>0, <1>12, <1>B, <2>1, Zenon DEF Tick, LimiterTypeOK, Buckets
<1>13. CASE UNCHANGED limiterVars
  BY <1>13, Zenon DEF limiterVars, LimiterTypeOK
<1> QED
  BY <1>1, <1>2, <1>3, <1>4, <1>5, <1>6, <1>7, <1>8, <1>9, <1>10, <1>11, <1>12, <1>13, Zenon DEF LimiterNext
-----------------------------------------------------------------------------
(* The clauses of EveryWaiterIsServed about one request, and what makes    *)
(* them inductive: a request that is about to be queued has no entry yet.  *)
Served(r) ==
  /\ handler[r] = "refused" => entry[r] = "none"
  /\ handler[r] = "awaiting" => (entry[r] = "none" <=> permit[r] # "none")
  /\ permit[r] # "none" => handler[r] = "awaiting"

QueueExact ==
  /\ \A r \in Requests : entry[r] = "queued" => \E i \in 1 .. Len(queue) : queue[i] = r
  /\ \A i \in 1 .. Len(queue) : entry[queue[i]] = "queued"
  /\ \A i, j \in 1 .. Len(queue) : i # j => queue[i] # queue[j]

(* A step that leaves the queue alone, and takes no entry into it or out   *)
(* of it, keeps it exact.                                                  *)
LEMMA QueueKept ==
  ASSUME LimiterTypeOK, QueueExact, queue' = queue,
         \A r \in Requests : entry'[r] = "queued" <=> entry[r] = "queued"
  PROVE  QueueExact'
<1>1. \A i \in 1 .. Len(queue) : queue[i] \in Requests
  BY DEF LimiterTypeOK
<1> QED
  BY <1>1, Zenon DEF QueueExact

(* Initially nobody waits.                                                 *)
LEMMA ServedInit == LimiterInit => QueueExact /\ \A r \in Requests : Served(r)
BY DEF LimiterInit, QueueExact, Served

(* A step that changes the state of one request only serves the others     *)
(* as before.                                                              *)
LEMMA OthersServed ==
  ASSUME NEW r \in Requests, LimiterTypeOK, \A s \in Requests : Served(s),
         \A s \in Requests \ {r} :
            handler'[s] = handler[s] /\ entry'[s] = entry[s] /\ permit'[s] = permit[s],
         Served(r)'
  PROVE  \A s \in Requests : Served(s)'
BY Zenon DEF Served

(* Every step keeps the queue exact and every waiter served.               *)
LEMMA ServedStep ==
  LimiterTypeOK /\ QueueExact /\ (\A r \in Requests : Served(r)) /\ [LimiterNext]_limiterVars
    => QueueExact' /\ \A r \in Requests : Served(r)'
<1> SUFFICES ASSUME LimiterTypeOK, QueueExact, \A r \in Requests : Served(r), [LimiterNext]_limiterVars
             PROVE  QueueExact' /\ \A r \in Requests : Served(r)'
  BY Zenon
<1>0. /\ handler \in [Requests -> Handlers]
      /\ queue \in Seq(Requests)
      /\ entry \in [Requests -> Entries]
      /\ permit \in [Requests -> Permits]
  BY Zenon DEF LimiterTypeOK
<1>1. ASSUME NEW r \in Requests, Arrive(r)
      PROVE  QueueExact' /\ \A s \in Requests : Served(s)'
  BY <1>0, <1>1, QueueKept, OthersServed, Zenon DEF Arrive, Served
<1>2. ASSUME NEW r \in Requests, Enqueue(r)
      PROVE  QueueExact' /\ \A s \in Requests : Served(s)'
  <2>1. /\ Len(queue') = Len(queue) + 1 /\ Len(queue) \in Nat
        /\ queue'[Len(queue) + 1] = r
        /\ \A i \in 1 .. Len(queue) : queue'[i] = queue[i] /\ queue[i] \in Requests
    BY <1>0, <1>2 DEF Enqueue
  <2>2. entry[r] # "queued"
    BY <1>2, <1>0, Zenon DEF Enqueue, Served
  <2>3. /\ entry'[r] = "queued"
        /\ \A s \in Requests \ {r} : entry'[s] = entry[s]
    BY <1>0, <1>2, Zenon DEF Enqueue
  <2>4. QueueExact'
    BY <2>1, <2>2, <2>3, SMTT(30) DEF QueueExact
  <2>5. \A s \in Requests : Served(s)'
    BY <1>0, <1>2, OthersServed, Zenon DEF Enqueue, Served
  <2> QED
    BY <2>4, <2>5, Zenon
<1>3. ASSUME NEW r \in Requests, TooManyRequests(r)
      PROVE  QueueExact' /\ \A s \in Requests : Served(s)'
  BY <1>0, <1>3, QueueKept, OthersServed, Zenon DEF TooManyRequests, Served
<1>4. ASSUME NEW r \in Requests, NEW result \in {"granted", "timeout"},
             Answer(r, result), handler' = handler, queue' = queue,
             entry[r] \in {"spawned", "short", "polling"}
      PROVE  QueueExact' /\ \A s \in Requests : Served(s)'
  <2>1. QueueExact'
    BY <1>0, <1>4, QueueKept, Zenon DEF Answer
  <2>2. Served(r)'
    BY <1>0, <1>4, Zenon DEF Answer, Served
  <2>3. \A s \in Requests : Served(s)'
    BY <1>0, <1>4, <2>2, OthersServed, Zenon DEF Answer
  <2> QED
    BY <2>1, <2>3, Zenon
<1>5. ASSUME NEW r \in Requests, FirstTry(r)
      PROVE  QueueExact' /\ \A s \in Requests : Served(s)'
  <2>1. CASE TryAcquireOk(bucket)
    BY <1>5, <2>1, <1>4, Zenon DEF FirstTry
  <2>2. CASE ~TryAcquireOk(bucket)
    BY <1>0, <1>5, <2>2, QueueKept, OthersServed, Zenon DEF FirstTry, Served
  <2> QED
    BY <2>1, <2>2, Zenon
<1>6. ASSUME NEW r \in Requests, ComputeWait(r)
      PROVE  QueueExact' /\ \A s \in Requests : Served(s)'
  BY <1>0, <1>6, QueueKept, OthersServed, Zenon DEF ComputeWait, Served
<1>7. ASSUME NEW r \in Requests, Poll(r)
      PROVE  QueueExact' /\ \A s \in Requests : Served(s)'
  <2>1. CASE TryAcquireOk(bucket)
    BY <1>7, <2>1, <1>4, Zenon DEF Poll
  <2>2. CASE ~TryAcquireOk(bucket)
    BY <1>0, <1>7, <2>2, QueueKept, Zenon DEF Poll, Served
  <2> QED
    BY <2>1, <2>2, Zenon
<1>8. ASSUME NEW r \in Requests, Expire(r)
      PROVE  QueueExact' /\ \A s \in Requests : Served(s)'
  BY <1>8, <1>4, Zenon DEF Expire
<1>9. ASSUME NEW r \in Requests, Deliver(r)
      PROVE  QueueExact' /\ \A s \in Requests : Served(s)'
  BY <1>0, <1>9, QueueKept, OthersServed, Zenon DEF Deliver, Served
<1>10. ASSUME NEW r \in Requests, Finish(r)
       PROVE  QueueExact' /\ \A s \in Requests : Served(s)'
  BY <1>0, <1>10, QueueKept, OthersServed, Zenon DEF Finish, Served
<1>11. ASSUME NEW r \in Requests, Withdraw(r)
       PROVE  QueueExact' /\ \A s \in Requests : Served(s)'
  BY <1>0, <1>11, QueueKept, OthersServed, Zenon DEF Withdraw, Served
<1>12. ASSUME Receive
       PROVE  QueueExact' /\ \A s \in Requests : Served(s)'
  <2>0. PICK r \in Requests : r = Head(queue)
    BY <1>0, <1>12, HeadTailProperties, Zenon DEF Receive
  <2>1. /\ Len(queue) \in Nat \ {0} /\ Len(queue') = Len(queue) - 1
        /\ \A i \in 1 .. Len(queue') : queue'[i] = queue[i + 1]
        /\ r = queue[1] /\ r \in Requests
        /\ \A i \in 1 .. Len(queue) : queue[i] \in Requests
    BY <1>0, <1>12, <2>0, HeadTailProperties DEF Receive
  <2>2. entry[r] = "queued"
    BY <2>1 DEF QueueExact
  <2>3. /\ entry'[r] \in {"none", "spawned"}
        /\ \A s \in Requests \ {r} :
             handler'[s] = handler[s] /\ entry'[s] = entry[s] /\ permit'[s] = permit[s]
    BY <1>0, <1>12, <2>0, Zenon DEF Receive, Answer
  <2>4. QueueExact'
    <3>1. ASSUME NEW s \in Requests, entry'[s] = "queued"
          PROVE  \E i \in 1 .. Len(queue') : queue'[i] = s
      <4>1. s # r /\ entry[s] = "queued"
        BY <3>1, <2>3, Zenon
      <4>2. PICK i \in 1 .. Len(queue) : queue[i] = s
        BY <4>1, Zenon DEF QueueExact
      <4>3. i # 1 /\ i - 1 \in 1 .. Len(queue') /\ queue'[i - 1] = s
        BY <4>1, <4>2, <2>1
      <4> QED
        BY <4>3, Zenon
    <3>2. \A i \in 1 .. Len(queue') :
            queue'[i] \in Requests \ {r} /\ entry[queue'[i]] = "queued"
      <4> SUFFICES ASSUME NEW i \in 1 .. Len(queue')
                   PROVE  queue'[i] \in Requests \ {r} /\ entry[queue'[i]] = "queued"
        BY Zenon
      <4>1. i + 1 \in 1 .. Len(queue) /\ 1 \in 1 .. Len(queue) /\ i + 1 # 1 /\ queue'[i] = queue[i + 1]
        BY <2>1
      <4> QED
        BY <4>1, <2>1 DEF QueueExact
    <3>3. \A i, j \in 1 .. Len(queue') : i # j => queue'[i] # queue'[j]
      BY <2>1, SMTT(30) DEF QueueExact
    <3>4. \A i \in 1 .. Len(queue') : entry'[queue'[i]] = "queued"
      BY <3>2, <2>3, Zenon
    <3> QED
      BY <3>1, <3>3, <3>4, Zenon DEF QueueExact
  <2>5. Served(r)'
    <3>1. handler' = handler /\ Served(r)
      BY <1>12, <2>1, Zenon DEF Receive
    <3>2. CASE \E result \in {"granted", "timeout"} : Answer(r, result)
      <4>1. entry'[r] = "none" /\ (handler[r] = "awaiting" => permit'[r] # "none")
                             /\ (handler[r] # "awaiting" => permit' = permit)
        BY <1>0, <2>1, <3>2, Zenon DEF Answer
      <4> QED
        BY <4>1, <3>1, <2>2, Zenon DEF Served
    <3>3. CASE entry' = [entry EXCEPT ![r] = "spawned"] /\ UNCHANGED permit
      <4>1. entry'[r] = "spawned" /\ permit'[r] = permit[r]
        BY <1>0, <2>1, <3>3, Zenon
      <4> QED
        BY <4>1, <3>1, <2>2, Zenon DEF Served
    <3> QED
      BY <1>12, <2>0, <3>2, <3>3, Zenon DEF Receive
  <2>6. \A s \in Requests : Served(s)'
    BY <2>1, <2>3, <2>5, OthersServed, Zenon
  <2> QED
    BY <2>4, <2>6, Zenon
<1>13. CASE Tick
  BY <1>13, QueueKept, Zenon DEF Tick, Served
<1>14. CASE UNCHANGED limiterVars
  BY <1>14, QueueKept, Zenon DEF limiterVars, Served
<1> QED
  BY <1>1, <1>2, <1>3, <1>5, <1>6, <1>7, <1>8, <1>9, <1>10, <1>11, <1>12, <1>13, <1>14, Zenon DEF LimiterNext

(* The limiter keeps its types, and every request that awaits a permit is  *)
(* in the channel, with a spawned task or answered, for any number of      *)
(* connections, any channel and any bucket.                                *)
THEOREM WaitersAreServed == LimiterSpec => [](LimiterTypeOK /\ EveryWaiterIsServed)
<1> DEFINE IInv == LimiterTypeOK /\ QueueExact /\ \A r \in Requests : Served(r)
<1>1. LimiterInit => IInv
  BY TypeInit, ServedInit, Zenon
<1>2. IInv /\ [LimiterNext]_limiterVars => IInv'
  BY TypeStep, ServedStep, Zenon
<1>3. IInv => LimiterTypeOK /\ EveryWaiterIsServed
  BY Zenon DEF QueueExact, Served, EveryWaiterIsServed
<1> QED
  BY <1>1, <1>2, <1>3, PTL DEF LimiterSpec
-----------------------------------------------------------------------------
(* T has one element more than S: r; and so have their parts in E if r is  *)
(* there.                                                                  *)
OneMore(S, T, r, E) ==
  /\ IsFiniteSet(S) /\ IsFiniteSet(T)
  /\ Cardinality(S) \in Nat /\ Cardinality(S \cap E) \in Nat
  /\ Cardinality(T) = Cardinality(S) + 1
  /\ Cardinality(T \cap E) = IF r \in E THEN Cardinality(S \cap E) + 1 ELSE Cardinality(S \cap E)

(* A set with one more element, and its part in E, counted.                  *)
LEMMA CountOneMore ==
  ASSUME NEW S, NEW T, NEW E, NEW r, r \notin S, T = S \cup {r}, IsFiniteSet(S) \/ IsFiniteSet(T)
  PROVE  OneMore(S, T, r, E)
<1>1. S \in SUBSET T /\ S \cap E \in SUBSET S
  BY Zenon
<1>2. IsFiniteSet(S)
  BY <1>1, FS_Subset, Zenon
<1>3. IsFiniteSet(T) /\ Cardinality(T) = Cardinality(S) + 1 /\ Cardinality(S) \in Nat
  BY <1>2, FS_AddElement, FS_CardinalityType, Zenon
<1>4. IsFiniteSet(S \cap E)
  BY <1>1, <1>2, FS_Subset, Zenon
<1>5. Cardinality(S \cap E) \in Nat
  BY <1>4, FS_CardinalityType, Zenon
<1>6. ASSUME r \in E PROVE Cardinality(T \cap E) = Cardinality(S \cap E) + 1
  <2>1. T \cap E = (S \cap E) \cup {r} /\ r \notin S \cap E
    BY <1>6, Zenon
  <2>2. Cardinality((S \cap E) \cup {r}) = Cardinality(S \cap E) + 1
    BY <1>4, <2>1, FS_AddElement, Zenon
  <2> QED BY <2>1, <2>2, Zenon
<1>7. ASSUME r \notin E PROVE Cardinality(T \cap E) = Cardinality(S \cap E)
  <2>1. T \cap E = S \cap E
    BY <1>7, Zenon
  <2> QED BY <2>1, Zenon
<1> QED BY <1>2, <1>3, <1>5, <1>6, <1>7, Zenon DEF OneMore

(* The gauges only mean something while the waiters can be counted; there  *)
(* are never more of them than steps have been taken.                      *)
GaugesInv == IsFiniteSet(Waiters) /\ GaugesAgree

(* A fresh limiter has no waiters, and its gauges say so.                    *)
LEMMA GaugesInit == LimiterInit => GaugesInv
<1> SUFFICES ASSUME LimiterInit PROVE GaugesInv
  BY Zenon
<1>1. Waiters = {} /\ Waiters \cap Embeddings = {}
  BY Zenon DEF LimiterInit, Waiters
<1>2. IsFiniteSet({}) /\ Cardinality({}) = 0
  BY FS_EmptySet, Zenon
<1> QED BY <1>1, <1>2 DEF LimiterInit, GaugesInv, GaugesAgree

(* Steps that move no waiter leave the gauges alone.                       *)
LEMMA GaugesKept ==
  ASSUME GaugesInv, Waiters' = Waiters, UNCHANGED <<waiting, embeddings, cancels>>
  PROVE  GaugesInv'
BY Zenon DEF GaugesInv, GaugesAgree

(* Every step of the limiter keeps the gauges equal to its waiters.          *)
LEMMA GaugesStep ==
  ASSUME LimiterTypeOK, GaugesInv, [LimiterNext]_limiterVars
  PROVE  GaugesInv'
<1> USE DEF Handlers
<1>1. ASSUME NEW r \in Requests, Arrive(r) PROVE GaugesInv'
  <2>1. Waiters' = Waiters
    BY <1>1, Zenon DEF Arrive, Waiters, LimiterTypeOK
  <2> QED BY <1>1, <2>1, GaugesKept, Zenon DEF Arrive
<1>2. ASSUME NEW r \in Requests, Enqueue(r) PROVE GaugesInv'
  <2>1. r \notin Waiters /\ Waiters' = Waiters \cup {r}
    BY <1>2, Zenon DEF Enqueue, Waiters, LimiterTypeOK
  <2>2. OneMore(Waiters, Waiters', r, Embeddings)
    BY <2>1, CountOneMore, Zenon DEF GaugesInv
  <2>3. /\ waiting' = waiting + 1 /\ cancels' = cancels
        /\ embeddings' = IF r \in Embeddings THEN embeddings + 1 ELSE embeddings
    BY <1>2, Zenon DEF Enqueue
  <2> QED BY <2>2, <2>3 DEF OneMore, GaugesInv, GaugesAgree, LimiterTypeOK
<1>3. ASSUME NEW r \in Requests, TooManyRequests(r) PROVE GaugesInv'
  <2>1. Waiters' = Waiters
    BY <1>3, Zenon DEF TooManyRequests, Waiters, LimiterTypeOK
  <2> QED BY <1>3, <2>1, GaugesKept, Zenon DEF TooManyRequests
<1>4. ASSUME UNCHANGED <<handler, waiting, embeddings, cancels>> PROVE GaugesInv'
  <2>1. Waiters' = Waiters
    BY <1>4, Zenon DEF Waiters
  <2> QED BY <1>4, <2>1, GaugesKept, Zenon
<1>5. ASSUME NEW r \in Requests, handler[r] = "awaiting", NEW h \in Handlers \ {"awaiting"},
             handler' = [handler EXCEPT ![r] = h]
      PROVE  OneMore(Waiters', Waiters, r, Embeddings)
  <2>1. r \notin Waiters' /\ Waiters = Waiters' \cup {r}
    BY <1>5, Zenon DEF Waiters, LimiterTypeOK
  <2> QED BY <2>1, CountOneMore, Zenon DEF GaugesInv
<1>6. ASSUME NEW r \in Requests, Deliver(r) PROVE GaugesInv'
  <2>1. \E h \in Handlers \ {"awaiting"} : handler' = [handler EXCEPT ![r] = h]
    <3>1. CASE permit[r] = "granted"
      <4>1. handler' = [handler EXCEPT ![r] = "running"]
        BY <1>6, <3>1, Zenon DEF Deliver
      <4> QED BY <4>1, Zenon
    <3>2. CASE permit[r] # "granted"
      <4>1. handler' = [handler EXCEPT ![r] = "idle"]
        BY <1>6, <3>2, Zenon DEF Deliver
      <4> QED BY <4>1, Zenon
    <3> QED BY <3>1, <3>2, Zenon
  <2>2. handler[r] = "awaiting"
    BY <1>6, Zenon DEF Deliver
  <2>3. /\ waiting' = waiting - 1 /\ cancels' = cancels
        /\ embeddings' = IF r \in Embeddings THEN embeddings - 1 ELSE embeddings
    BY <1>6, Zenon DEF Deliver, Dequeue
  <2>4. OneMore(Waiters', Waiters, r, Embeddings)
    BY <1>5, <2>1, <2>2, Zenon
  <2> QED BY <2>3, <2>4, SMTT(30) DEF OneMore, GaugesInv, GaugesAgree, LimiterTypeOK
<1>7. ASSUME NEW r \in Requests, Finish(r) PROVE GaugesInv'
  <2>1. Waiters' = Waiters
    BY <1>7, Zenon DEF Finish, Waiters, LimiterTypeOK
  <2> QED BY <1>7, <2>1, GaugesKept, Zenon DEF Finish
<1>8. ASSUME NEW r \in Requests, Withdraw(r) PROVE GaugesInv'
  <2>1. handler' = [handler EXCEPT ![r] = "idle"] /\ cancels' = cancels + 1 /\ embeddings' = embeddings
    BY <1>8, Zenon DEF Withdraw
  <2>2. CASE handler[r] = "awaiting"
    <3>1. waiting' = waiting - 1
      BY <1>8, <2>2, Zenon DEF Withdraw
    <3>2. OneMore(Waiters', Waiters, r, Embeddings)
      BY <1>5, <2>1, <2>2, Zenon
    <3> QED BY <2>1, <3>1, <3>2 DEF OneMore, GaugesInv, GaugesAgree, LimiterTypeOK
  <2>3. CASE handler[r] # "awaiting"
    <3>1. waiting' = waiting
      BY <1>8, <2>3, Zenon DEF Withdraw
    <3>2. Waiters' = Waiters
      BY <2>1, <2>3, Zenon DEF Waiters, LimiterTypeOK
    <3>3. Cardinality(Waiters \cap Embeddings) \in Nat
      BY FS_Subset, FS_CardinalityType, Zenon DEF GaugesInv
    <3> QED BY <2>1, <3>1, <3>2, <3>3, SMTT(30) DEF GaugesInv, GaugesAgree, LimiterTypeOK
  <2> QED BY <2>2, <2>3, Zenon
<1> QED
  BY <1>1, <1>2, <1>3, <1>4, <1>6, <1>7, <1>8, Zenon
  DEF LimiterNext, FirstTry, ComputeWait, Poll, Expire, Receive, Tick, limiterVars

(* The limiter as a whole, for any connections, channel and bucket and      *)
(* however clients come and go: its types, one place for every waiter, and  *)
(* gauges that count the waiters (concurrency_limit_middleware and          *)
(* QueueProcessor::run).                                                    *)
THEOREM LimiterStaysExact == LimiterSpec => []LimiterIsExact
<1>1. GaugesInv => GaugesAgree
  BY Zenon DEF GaugesInv
<1> QED
  BY <1>1, GaugesInit, GaugesStep, WaitersAreServed, PTL DEF LimiterSpec, LimiterIsExact

-----------------------------------------------------------------------------
Held == {r \in Requests : handler[r] = "running" \/ permit[r] = "granted"}

(* Taking a token lowers the level by one token.                           *)
LEMMA TakeStep ==
  ASSUME LimiterTypeOK, TryAcquireOk(bucket), bucket' = TryAcquire(bucket)
  PROVE  Level(bucket) >= One /\ Level(bucket)' = Level(bucket) - One
BY LevelSteps, Zenon DEF LimiterTypeOK, Buckets

(* Looking at the bucket, with or without a refill, leaves its level.      *)
LEMMA LookStep ==
  ASSUME LimiterTypeOK,
         bucket' = bucket \/ bucket' = Refill(bucket)
           \/ (~TryAcquireOk(bucket) /\ bucket' = TryAcquire(bucket))
  PROVE  Level(bucket)' = Level(bucket)
<1>1. CASE bucket' = bucket
  BY <1>1, Zenon DEF Level
<1>2. CASE bucket' = Refill(bucket)
  BY <1>2, LevelSteps, Zenon DEF LimiterTypeOK, Buckets
<1>3. CASE ~TryAcquireOk(bucket) /\ bucket' = TryAcquire(bucket)
  BY <1>3, LevelSteps, Zenon DEF LimiterTypeOK, Buckets
<1> QED
  BY <1>1, <1>2, <1>3, Zenon

(* A granted answer takes a token for a request that had none, or wastes   *)
(* it on a client that is gone.                                            *)
LEMMA GrantStep ==
  ASSUME LimiterTypeOK, \A s \in Requests : Served(s),
         NEW r \in Requests, entry[r] # "none", handler' = handler,
         TryAcquireOk(bucket), bucket' = TryAcquire(bucket), Answer(r, "granted")
  PROVE  Ideal!Take(r) \/ Ideal!Waste
<1>1. Level(bucket) >= One /\ Level(bucket)' = Level(bucket) - One
  BY TakeStep, Zenon
<1>2. CASE handler[r] = "awaiting"
  <2>1. permit[r] = "none" /\ permit' = [permit EXCEPT ![r] = "granted"]
    BY <1>2, Zenon DEF Served, Answer
  <2>2. r \notin Held /\ Held' = Held \union {r}
    BY <1>2, <2>1, Zenon DEF Held, LimiterTypeOK
  <2> QED
    BY <1>1, <2>2, Zenon DEF Ideal!Take, Held
<1>3. CASE handler[r] # "awaiting"
  <2>1. Held' = Held
    BY <1>3, Zenon DEF Held, Answer
  <2> QED
    BY <1>1, <2>1, Zenon DEF Ideal!Waste, Held
<1> QED
  BY <1>2, <1>3, Zenon

(* A step that neither grants nor moves the bucket's level is a stutter of *)
(* the ideal limiter.                                                      *)
LEMMA StutterStep ==
  ASSUME LimiterTypeOK,
         bucket' = bucket \/ bucket' = Refill(bucket)
           \/ (~TryAcquireOk(bucket) /\ bucket' = TryAcquire(bucket)),
         Held' = Held
  PROVE  UNCHANGED Ideal!vars
BY LookStep, Zenon DEF Ideal!vars, Held

(* Every step of the limiter is a step of the ideal one, or a stutter.     *)
LEMMA IdealStep ==
  LimiterTypeOK /\ QueueExact /\ (\A r \in Requests : Served(r)) /\ [LimiterNext]_limiterVars
    => [Ideal!Next]_(Ideal!vars)
<1> SUFFICES ASSUME LimiterTypeOK, QueueExact, \A r \in Requests : Served(r), [LimiterNext]_limiterVars
             PROVE  [Ideal!Next]_(Ideal!vars)
  BY Zenon
<1>0. /\ handler \in [Requests -> Handlers]
      /\ queue \in Seq(Requests)
      /\ permit \in [Requests -> Permits]
      /\ bucket \in Buckets
  BY Zenon DEF LimiterTypeOK, Buckets
<1>1. ASSUME NEW r \in Requests, Arrive(r) PROVE [Ideal!Next]_(Ideal!vars)
  <2>0. r \notin Held
    BY <1>1, Zenon DEF Arrive, Held, Served
  <2>1. CASE TryAcquireOk(bucket)
    <3>1. Held' = Held \union {r}
      BY <1>0, <1>1, <2>1, Zenon DEF Arrive, Held
    <3>2. Level(bucket) >= One /\ Level(bucket)' = Level(bucket) - One
      BY <1>1, <2>1, TakeStep, Zenon DEF Arrive
    <3> QED
      BY <2>0, <3>1, <3>2, Zenon DEF Ideal!Take, Ideal!Next, Held
  <2>2. CASE ~TryAcquireOk(bucket)
    <3>1. Held' = Held
      BY <1>0, <1>1, <2>0, <2>2, Zenon DEF Arrive, Held
    <3> QED
      BY <1>1, <2>2, <3>1, StutterStep, Zenon DEF Arrive
  <2> QED
    BY <2>1, <2>2, Zenon
<1>2. ASSUME NEW r \in Requests, Enqueue(r) \/ TooManyRequests(r)
      PROVE  [Ideal!Next]_(Ideal!vars)
  <2>1. Held' = Held
    BY <1>0, <1>2, Zenon DEF Enqueue, TooManyRequests, Held
  <2> QED
    BY <1>2, <2>1, StutterStep, Zenon DEF Enqueue, TooManyRequests
<1>3. ASSUME NEW r \in Requests, FirstTry(r) \/ Poll(r)
      PROVE  [Ideal!Next]_(Ideal!vars)
  <2>1. CASE TryAcquireOk(bucket)
    BY <1>3, <2>1, GrantStep, Zenon DEF FirstTry, Poll, Ideal!Next
  <2>2. CASE ~TryAcquireOk(bucket)
    <3>1. Held' = Held
      BY <1>3, <2>2, Zenon DEF FirstTry, Poll, Held
    <3> QED
      BY <1>3, <2>2, <3>1, StutterStep, Zenon DEF FirstTry, Poll
  <2> QED
    BY <2>1, <2>2, Zenon
<1>4. ASSUME NEW r \in Requests, ComputeWait(r) PROVE [Ideal!Next]_(Ideal!vars)
  BY <1>4, StutterStep, Zenon DEF ComputeWait, Held
<1>5. ASSUME NEW r \in Requests, bucket' = bucket, handler' = handler, Answer(r, "timeout"),
             entry[r] # "none"
      PROVE  [Ideal!Next]_(Ideal!vars)
  <2>1. Held' = Held
    BY <1>0, <1>5, Zenon DEF Answer, Held, Served
  <2> QED
    BY <1>5, <2>1, StutterStep, Zenon
<1>6. ASSUME NEW r \in Requests, Expire(r) PROVE [Ideal!Next]_(Ideal!vars)
  BY <1>5, <1>6, Zenon DEF Expire
<1>7. ASSUME NEW r \in Requests, Deliver(r) PROVE [Ideal!Next]_(Ideal!vars)
  <2>1. Held' = Held
    BY <1>0, <1>7, Zenon DEF Deliver, Held, Permits
  <2> QED
    BY <1>7, <2>1, StutterStep, Zenon DEF Deliver
<1>8. ASSUME NEW r \in Requests, Finish(r) PROVE [Ideal!Next]_(Ideal!vars)
  <2>1. r \in Held /\ Held' = Held \ {r}
    BY <1>0, <1>8, Zenon DEF Finish, Held, Served
  <2>2. Level(bucket)' = Capped(Level(bucket) + One)
    BY <1>0, <1>8, LevelSteps, Zenon DEF Finish
  <2> QED
    BY <2>1, <2>2, Zenon DEF Ideal!GiveBack, Ideal!Next, Held, Capped
<1>9. ASSUME NEW r \in Requests, Withdraw(r) PROVE [Ideal!Next]_(Ideal!vars)
  <2>1. Held' = Held \ {r} /\ bucket' = bucket
    BY <1>0, <1>9, Zenon DEF Withdraw, Held
  <2>2. CASE r \in Held
    BY <2>1, <2>2, LookStep, Zenon DEF Ideal!Lose, Ideal!Next, Held
  <2>3. CASE r \notin Held
    BY <2>1, <2>3, StutterStep, Zenon
  <2> QED
    BY <2>2, <2>3, Zenon
<1>10. ASSUME Receive PROVE [Ideal!Next]_(Ideal!vars)
  <2>1. PICK r \in Requests : r = Head(queue)
    BY <1>0, <1>10, HeadTailProperties, Zenon DEF Receive
  <2>2. entry[r] # "none"
    BY <1>0, <1>10, <2>1, HeadTailProperties DEF Receive, QueueExact
  <2>3. CASE age[r] >= QueueTimeout /\ Answer(r, "timeout") /\ UNCHANGED bucket
    BY <1>5, <1>10, <2>2, <2>3, Zenon DEF Receive
  <2>4. CASE bucket' = TryAcquire(bucket) /\ TryAcquireOk(bucket) /\ Answer(r, "granted")
    BY <1>10, <2>2, <2>4, GrantStep, Zenon DEF Receive, Ideal!Next
  <2>5. CASE bucket' = TryAcquire(bucket) /\ ~TryAcquireOk(bucket) /\ UNCHANGED permit
    BY <1>10, <2>5, StutterStep, Zenon DEF Receive, Held
  <2> QED
    BY <1>10, <2>1, <2>3, <2>4, <2>5, Zenon DEF Receive
<1>11. CASE Tick
  <2>1. Level(bucket)' = Capped(Level(bucket) + Rate)
    BY <1>0, <1>11, LevelSteps, Zenon DEF Tick
  <2> QED
    BY <1>11, <2>1, Zenon DEF Tick, Ideal!Tick, Ideal!Next, Capped
<1>12. CASE UNCHANGED limiterVars
  BY <1>12, StutterStep, Zenon DEF limiterVars, Held
<1> QED
  BY <1>1, <1>2, <1>3, <1>4, <1>6, <1>7, <1>8, <1>9, <1>10, <1>11, <1>12, Zenon DEF LimiterNext

(* The limiter implements the ideal one, for any number of connections,    *)
(* any capacity, refill rate, channel and timeout: requests run on tokens  *)
(* of their own, and no interleaving of the middleware, the processor, the *)
(* spawned tasks and closing connections mints a token.                    *)
THEOREM LimiterIsIdeal == LimiterSpec => ImplementsIdeal
<1> DEFINE IInv == LimiterTypeOK /\ QueueExact /\ \A r \in Requests : Served(r)
<1>1. LimiterInit => IInv /\ Ideal!Init
  <2>1. LimiterInit => Level(bucket) = Capacity
    BY LevelSteps, BucketOperations, BucketAssumption, TypeInit, Zenon DEF LimiterInit, LimiterTypeOK, Buckets
  <2> QED
    BY <2>1, TypeInit, ServedInit, Zenon DEF LimiterInit, Ideal!Init
<1>2. IInv /\ [LimiterNext]_limiterVars => IInv' /\ [Ideal!Next]_(Ideal!vars)
  BY TypeStep, ServedStep, IdealStep, Zenon
<1> QED
  BY <1>1, <1>2, PTL DEF LimiterSpec, ImplementsIdeal, Ideal!Spec
=============================================================================
