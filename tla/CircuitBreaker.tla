--------------------------- MODULE CircuitBreaker ---------------------------
(***************************************************************************)
(* The per-worker circuit breaker of core/circuit_breaker.rs, at the grain *)
(* of its atomics and of its two read/write locks.  Threads are the tasks  *)
(* of the router that consult a breaker before they pick a worker and      *)
(* record the outcome of the request afterwards; every read of the state   *)
(* and every later transition is a step of its own, so a decision may be   *)
(* stale when it is applied.                                               *)
(*                                                                         *)
(* Left out: the totals and last_failure_time (statistics only), logging,  *)
(* and window_duration, which no line of the code reads.                   *)
(***************************************************************************)
EXTENDS Naturals

CONSTANTS
  Threads,           \* tasks sharing the breaker
  NoThread,          \* no task: the state write lock is free
  FailureThreshold,  \* CircuitBreakerConfig::failure_threshold
  SuccessThreshold   \* CircuitBreakerConfig::success_threshold

ASSUME NoThreadAssumption == NoThread \notin Threads
ASSUME FailureThresholdAssumption == FailureThreshold \in Nat \ {0}
ASSUME SuccessThresholdAssumption == SuccessThreshold \in Nat \ {0}

VARIABLES
  cb,         \* CircuitState
  failures,   \* consecutive_failures, saturated at FailureThreshold
  successes,  \* consecutive_successes, saturated at SuccessThreshold
  elapsed,    \* last_state_change.elapsed() >= timeout_duration
  writer,     \* the thread inside transition_to, holding the state write lock
  healthy,    \* does the worker behind the breaker answer requests
  pc,         \* next step of each thread
  count,      \* the thread's local result of its fetch_add
  goal,       \* argument of the thread's pending transition_to
  ret         \* step that follows the thread's transition_to

breakerVars == <<cb, failures, successes, elapsed, writer, healthy, pc, count, goal, ret>>

CircuitStates == {"Closed", "Open", "HalfOpen"}

(* What follows check_and_update_state or transition_to in their callers.  *)
Returns == {"idle", "answer", "probe_success", "probe_failure", "reset_store"}

Steps == Returns \cup {"check", "timeout", "run",
          "success_reset", "success_add", "success_read",
          "failure_reset", "failure_add", "failure_read",
          "transition", "counters"}

(* Only the comparison with the threshold is ever made on the counters, so *)
(* counting beyond the threshold is the same as staying there.             *)
Saturate(n, max) == IF n < max THEN n ELSE max

Lock == writer = NoThread

Goto(t, step) == pc' = [pc EXCEPT ![t] = step]

(* A local of thread t that nothing reads any more takes its initial value. *)
Forget(t, local, value) == [local EXCEPT ![t] = value]

(* transition_to(new_state) is entered: its write lock is taken later.     *)
Call(t, new_state, after) ==
  /\ Goto(t, "transition")
  /\ goal' = [goal EXCEPT ![t] = new_state]
  /\ ret' = [ret EXCEPT ![t] = after]

BreakerInit ==
  /\ cb = "Closed"
  /\ failures = 0 /\ successes = 0
  /\ elapsed = FALSE
  /\ writer = NoThread
  /\ healthy = TRUE
  /\ pc = [t \in Threads |-> "idle"]
  /\ count = [t \in Threads |-> 0]
  /\ goal = [t \in Threads |-> "Closed"]
  /\ ret = [t \in Threads |-> "idle"]

-----------------------------------------------------------------------------
(* A task asks whether the worker may be used: can_execute.                *)
BeginCheck(t) ==
  /\ pc[t] = "idle"
  /\ ret' = [ret EXCEPT ![t] = "answer"]
  /\ Goto(t, "check")
  /\ UNCHANGED <<cb, failures, successes, elapsed, writer, healthy, count, goal>>

(* A health probe has an outcome and calls record_test_success or          *)
(* record_test_failure, which ask is_half_open first.                      *)
BeginProbe(t) ==
  /\ pc[t] = "idle"
  /\ ret' = [ret EXCEPT ![t] = IF healthy THEN "probe_success" ELSE "probe_failure"]
  /\ Goto(t, "check")
  /\ UNCHANGED <<cb, failures, successes, elapsed, writer, healthy, count, goal>>

(* check_and_update_state: first read of the state.                        *)
CheckState(t) ==
  /\ pc[t] = "check" /\ Lock
  /\ Goto(t, IF cb = "Open" THEN "timeout" ELSE ret[t])
  /\ UNCHANGED <<cb, failures, successes, elapsed, writer, healthy, count, goal, ret>>

(* Mutant: elapsed and timeout_duration are compared the wrong way round.  *)
CheckTimeoutReversed(t) ==
  /\ pc[t] = "timeout" /\ Lock
  /\ IF ~elapsed THEN Call(t, "HalfOpen", ret[t])
                 ELSE Goto(t, ret[t]) /\ UNCHANGED <<goal, ret>>
  /\ UNCHANGED <<cb, failures, successes, elapsed, writer, healthy, count>>

(* check_and_update_state: last_state_change is read under its own lock,   *)
(* after the state was read and released.                                  *)
CheckTimeout(t) ==
  /\ pc[t] = "timeout" /\ Lock
  /\ IF elapsed THEN Call(t, "HalfOpen", ret[t])
                ELSE Goto(t, ret[t]) /\ UNCHANGED <<goal, ret>>
  /\ UNCHANGED <<cb, failures, successes, elapsed, writer, healthy, count>>

(* can_execute: second read of the state; Closed and HalfOpen admit.       *)
CanExecute(t) ==
  /\ pc[t] = "answer" /\ Lock
  /\ Goto(t, IF cb = "Open" THEN "idle" ELSE "run")
  /\ ret' = Forget(t, ret, "idle")
  /\ UNCHANGED <<cb, failures, successes, elapsed, writer, healthy, count, goal>>

(* record_test_success and record_test_failure: the outcome of the probe   *)
(* is recorded only if the state read now is HalfOpen.                     *)
ProbeAnswer(t) ==
  /\ pc[t] \in {"probe_success", "probe_failure"} /\ Lock
  /\ Goto(t, CASE cb # "HalfOpen" -> "idle"
               [] cb = "HalfOpen" /\ pc[t] = "probe_success" -> "success_reset"
               [] cb = "HalfOpen" /\ pc[t] = "probe_failure" -> "failure_reset")
  /\ ret' = Forget(t, ret, "idle")
  /\ UNCHANGED <<cb, failures, successes, elapsed, writer, healthy, count, goal>>

(* record_outcome: the request or the probe has finished.                  *)
RecordOutcome(t) ==
  /\ pc[t] = "run"
  /\ Goto(t, IF healthy THEN "success_reset" ELSE "failure_reset")
  /\ UNCHANGED <<cb, failures, successes, elapsed, writer, healthy, count, goal, ret>>

-----------------------------------------------------------------------------
SuccessReset(t) ==
  /\ pc[t] = "success_reset"
  /\ failures' = 0
  /\ Goto(t, "success_add")
  /\ UNCHANGED <<cb, successes, elapsed, writer, healthy, count, goal, ret>>

SuccessAdd(t) ==
  /\ pc[t] = "success_add"
  /\ successes' = Saturate(successes + 1, SuccessThreshold)
  /\ count' = [count EXCEPT ![t] = successes']
  /\ Goto(t, "success_read")
  /\ UNCHANGED <<cb, failures, elapsed, writer, healthy, goal, ret>>

(* The state is read after the counter was bumped; only HalfOpen with      *)
(* enough successes calls transition_to(Closed).                           *)
SuccessRead(t) ==
  /\ pc[t] = "success_read" /\ Lock
  /\ IF cb = "HalfOpen" /\ count[t] >= SuccessThreshold
       THEN Call(t, "Closed", "idle")
       ELSE Goto(t, "idle") /\ UNCHANGED <<goal, ret>>
  /\ count' = Forget(t, count, 0)
  /\ UNCHANGED <<cb, failures, successes, elapsed, writer, healthy>>

FailureReset(t) ==
  /\ pc[t] = "failure_reset"
  /\ successes' = 0
  /\ Goto(t, "failure_add")
  /\ UNCHANGED <<cb, failures, elapsed, writer, healthy, count, goal, ret>>

FailureAdd(t) ==
  /\ pc[t] = "failure_add"
  /\ failures' = Saturate(failures + 1, FailureThreshold)
  /\ count' = [count EXCEPT ![t] = failures']
  /\ Goto(t, "failure_read")
  /\ UNCHANGED <<cb, successes, elapsed, writer, healthy, goal, ret>>

(* Mutant: the Closed arm of record_failure does nothing.                  *)
FailureReadNeverOpens(t) ==
  /\ pc[t] = "failure_read" /\ Lock
  /\ IF cb = "HalfOpen"
       THEN Call(t, "Open", "idle")
       ELSE Goto(t, "idle") /\ UNCHANGED <<goal, ret>>
  /\ count' = Forget(t, count, 0)
  /\ UNCHANGED <<cb, failures, successes, elapsed, writer, healthy>>

FailureRead(t) ==
  /\ pc[t] = "failure_read" /\ Lock
  /\ IF \/ cb = "Closed" /\ count[t] >= FailureThreshold
        \/ cb = "HalfOpen"
       THEN Call(t, "Open", "idle")
       ELSE Goto(t, "idle") /\ UNCHANGED <<goal, ret>>
  /\ count' = Forget(t, count, 0)
  /\ UNCHANGED <<cb, failures, successes, elapsed, writer, healthy>>

-----------------------------------------------------------------------------
(* transition_to: take the write lock; if the state differs, set it and    *)
(* last_state_change, and keep the lock until the counters are reset.      *)
Transition(t) ==
  /\ pc[t] = "transition" /\ Lock
  /\ IF cb = goal[t]
       THEN Goto(t, ret[t]) /\ UNCHANGED <<cb, elapsed, writer>>
       ELSE /\ cb' = goal[t]
            /\ elapsed' = FALSE
            /\ writer' = t
            /\ Goto(t, "counters")
  /\ goal' = Forget(t, goal, "Closed")
  /\ UNCHANGED <<failures, successes, healthy, count, ret>>

(* transition_to: the counters of the new state, then the lock is dropped. *)
ResetCounters(t) ==
  /\ pc[t] = "counters"
  /\ failures' = IF cb = "Open" THEN failures ELSE 0
  /\ successes' = 0
  /\ writer' = NoThread
  /\ Goto(t, ret[t])
  /\ UNCHANGED <<cb, elapsed, healthy, count, goal, ret>>

(* reset(): transition_to(Closed), then both counters are stored again     *)
(* outside the lock.                                                       *)
Reset(t) ==
  /\ pc[t] = "idle"
  /\ Call(t, "Closed", "reset_store")
  /\ UNCHANGED <<cb, failures, successes, elapsed, writer, healthy, count>>

ResetStore(t) ==
  /\ pc[t] = "reset_store"
  /\ failures' = 0 /\ successes' = 0
  /\ Goto(t, "idle")
  /\ ret' = Forget(t, ret, "idle")
  /\ UNCHANGED <<cb, elapsed, writer, healthy, count, goal>>

ForceOpen(t) ==
  /\ pc[t] = "idle"
  /\ Call(t, "Open", "idle")
  /\ UNCHANGED <<cb, failures, successes, elapsed, writer, healthy, count>>

-----------------------------------------------------------------------------
(* timeout_duration has passed since the last state change.                *)
TimeoutElapses ==
  /\ ~elapsed
  /\ elapsed' = TRUE
  /\ UNCHANGED <<cb, failures, successes, writer, healthy, pc, count, goal, ret>>

(* The worker starts or stops answering.                                   *)
WorkerFails ==
  /\ healthy
  /\ healthy' = FALSE
  /\ UNCHANGED <<cb, failures, successes, elapsed, writer, pc, count, goal, ret>>

WorkerRecovers ==
  /\ ~healthy
  /\ healthy' = TRUE
  /\ UNCHANGED <<cb, failures, successes, elapsed, writer, pc, count, goal, ret>>

(* The steps of a task that uses the breaker for routing.                  *)
ThreadStep(t) ==
  \/ BeginCheck(t) \/ CheckState(t) \/ CheckTimeout(t) \/ CanExecute(t)
  \/ RecordOutcome(t)
  \/ SuccessReset(t) \/ SuccessAdd(t) \/ SuccessRead(t)
  \/ FailureReset(t) \/ FailureAdd(t) \/ FailureRead(t)
  \/ Transition(t) \/ ResetCounters(t)

(* The rest of the public interface: health probes, manual intervention.   *)
ManualStep(t) ==
  \/ BeginProbe(t) \/ ProbeAnswer(t)
  \/ Reset(t) \/ ResetStore(t) \/ ForceOpen(t)

Environment == TimeoutElapses \/ WorkerFails \/ WorkerRecovers

BreakerNext == Environment \/ \E t \in Threads : ThreadStep(t) \/ ManualStep(t)

BreakerSpec == BreakerInit /\ [][BreakerNext]_breakerVars

(* Tasks are scheduled by the runtime and keep coming, time passes, and    *)
(* manual intervention ends: outside tests nothing in src/ calls reset(),  *)
(* force_open() or the record_test functions.                              *)
Intervenes(t) == BeginProbe(t) \/ Reset(t) \/ ForceOpen(t)
GoesOn(t) == ThreadStep(t) \/ ProbeAnswer(t) \/ ResetStore(t)

-----------------------------------------------------------------------------
(* Types of the breaker's fields and of the threads' local variables.      *)
BreakerTypeOK ==
  /\ cb \in CircuitStates
  /\ failures \in 0..FailureThreshold
  /\ successes \in 0..SuccessThreshold
  /\ elapsed \in BOOLEAN
  /\ writer \in Threads \cup {NoThread}
  /\ healthy \in BOOLEAN
  /\ pc \in [Threads -> Steps]
  /\ count \in [Threads -> Nat]
  /\ goal \in [Threads -> CircuitStates]
  /\ ret \in [Threads -> Returns]

(* A thread that is about to open the circuit, or that will when it reads  *)
(* the state it finds now.                                                 *)
WillOpen(t) ==
  \/ pc[t] = "failure_read" /\ count[t] >= FailureThreshold
  \/ pc[t] = "transition" /\ goal[t] = "Open"

WillClose(t) ==
  \/ pc[t] = "success_read" /\ count[t] >= SuccessThreshold
  \/ pc[t] = "transition" /\ goal[t] = "Closed"

(* The circuit never gets stuck closed: whenever record_failure has        *)
(* counted failure_threshold consecutive failures and the circuit is       *)
(* Closed, some thread is still on its way to open it, however the         *)
(* counters, the state reads and the transitions of other threads          *)
(* interleaved.                                                            *)
ThresholdReachedOpens ==
  cb = "Closed" /\ Lock /\ failures >= FailureThreshold => \E t \in Threads : WillOpen(t)

(* Nor does it get stuck half-open: once record_success has counted        *)
(* success_threshold successes in HalfOpen, some thread is on its way to   *)
(* close it.                                                               *)
ThresholdReachedCloses ==
  cb = "HalfOpen" /\ Lock /\ successes >= SuccessThreshold => \E t \in Threads : WillClose(t)

(* Recovery: if the worker answers from some point on, the circuit is      *)
(* closed from some point on; requests that were in flight over several    *)
(* state changes, and lost counter updates, do not keep it open.           *)
RecoversWhenHealthy == <>[]healthy => <>[](cb = "Closed")

(* A breaker whose threshold is reached changes its state, whatever       *)
(* record_success, record_failure and the state changes of other threads  *)
(* interleave: it is stuck neither closed nor half-open.                  *)
BreakerNeverStuck ==
  /\ BreakerTypeOK
  /\ ThresholdReachedOpens
  /\ ThresholdReachedCloses
=============================================================================
