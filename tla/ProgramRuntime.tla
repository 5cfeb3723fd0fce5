---------------------------- MODULE ProgramRuntime ----------------------------
(***************************************************************************)
(* ProgramRuntime of program_scheduling/runtime.rs with the RequestPool it *)
(* owns: Program generations, retained requests, and the transitions of a  *)
(* Program between Paused and Active.                                      *)
(*                                                                         *)
(* The whole runtime is one record, and every method is an operator from   *)
(* runtime states to runtime states, so that the scheduler, which calls    *)
(* several methods under one lock, can compose them.  The specification    *)
(* below lets an arbitrary policy call any method at any time, and lets    *)
(* the holders of dispatches complete them at any time and in any order.   *)
(*                                                                         *)
(* Left out: expected_resume and estimated_context_tokens (data that the   *)
(* scheduling policy reads), routing text, hints and timestamps.           *)
(***************************************************************************)
EXTENDS Integers, FiniteSets

CONSTANTS
  Keys,         \* RuntimeKey: (model pool, program id)
  Targets,      \* target ids
  NoTarget,     \* placement: None
  MaxRequests,  \* bound on the requests that ever arrive
  MaxEpochs     \* bound on the placement epochs ever handed out

ASSUME NoTargetAssumption == NoTarget \notin Targets
ASSUME BoundsAssumption == MaxRequests \in Nat /\ MaxEpochs \in Nat

VARIABLES
  rt,         \* the ProgramRuntime
  dispatched  \* ProgramDispatch values held by requests in flight

vars == <<rt, dispatched>>

ProgramState == {"Active", "Paused"}
ProgramStatus == {"Reasoning", "Acting"}

(* RuntimeProgram; live says that the map holds the key at all.            *)
RuntimeProgram ==
  [live : BOOLEAN, gen : Nat, state : ProgramState, status : ProgramStatus,
   placement : Targets \cup {NoTarget}, epoch : Nat, pending : BOOLEAN, inFlight : Nat]

(* A retained request and the handle that names it: the exact generation   *)
(* of its Program and the id RequestPool gave it.  Ids grow with every     *)
(* retain, so the FIFO order of one Program's requests is their id order.  *)
Request == [key : Keys, gen : Nat, id : Nat]

Dispatch ==
  [key : Keys, gen : Nat, id : Nat, target : Targets, epoch : Nat, start : BOOLEAN]

(* No generation of the key is remembered in last_generations.             *)
NoGeneration == -1

Runtime ==
  [prog : [Keys -> RuntimeProgram], lastGen : [Keys -> Nat \cup {NoGeneration}],
   released : SUBSET Keys, pool : SUBSET Request, nextId : Nat, nextEpoch : Nat]

NoProgram ==
  [live |-> FALSE, gen |-> 0, state |-> "Paused", status |-> "Acting",
   placement |-> NoTarget, epoch |-> 0, pending |-> FALSE, inFlight |-> 0]

EmptyRuntime ==
  [prog |-> [k \in Keys |-> NoProgram], lastGen |-> [k \in Keys |-> NoGeneration],
   released |-> {}, pool |-> {}, nextId |-> 0, nextEpoch |-> 0]

-----------------------------------------------------------------------------
(* program.reference equals the reference (k, g) of a handle or dispatch.  *)
Current(s, k, g) == s.prog[k].live /\ s.prog[k].gen = g

(* RequestPool: the requests of one exact generation, and their front.     *)
Waiting(s, k, g) == {r \in s.pool : r.key = k /\ r.gen = g}

(* Mutant: any retained request is taken for the front one.                *)
IsFrontAny(s, r) == r \in s.pool

IsFront(s, r) == r \in s.pool /\ \A q \in Waiting(s, r.key, r.gen) : r.id <= q.id

SetProgram(s, k, p) == [s EXCEPT !.prog = [@ EXCEPT ![k] = p]]

(* retain_request: materialise the Program if need be, then push the       *)
(* request at the tail.                                                    *)
RetainRequest(s, k) ==
  LET old == s.prog[k]
      gen == IF old.live THEN old.gen ELSE s.lastGen[k] + 1
      fresh == [NoProgram EXCEPT !.live = TRUE, !.gen = gen]
      new == [(IF old.live THEN old ELSE fresh) EXCEPT !.status = "Reasoning"]
  IN [SetProgram(s, k, new) EXCEPT
               !.lastGen = [@ EXCEPT ![k] = gen],
               !.released = @ \ {k},
               !.nextId = @ + 1,
               !.pool = @ \cup {[key |-> k, gen |-> gen, id |-> s.nextId + 1]}]

(* admit_front decides to go on: the reference is current and an active    *)
(* Program stays on its target.                                            *)
Admits(s, r, t) ==
  /\ Current(s, r.key, r.gen)
  /\ s.prog[r.key].state = "Active" => s.prog[r.key].placement = t

(* The Program after admit_front has placed it, before the front request   *)
(* is taken.                                                               *)
PlacedForAdmission(s, r, t) ==
  IF s.prog[r.key].state = "Paused"
  THEN [s.prog[r.key] EXCEPT !.state = "Active", !.placement = t,
                             !.epoch = s.nextEpoch + 1, !.pending = FALSE]
  ELSE [s.prog[r.key] EXCEPT !.pending = FALSE]

(* admit_front: a paused Program starts a new placement even when the      *)
(* handle turns out not to be the front.                                   *)
AdmitFront(s, r, t) ==
  LET placed == PlacedForAdmission(s, r, t)
      after == IF IsFront(s, r)
               THEN [placed EXCEPT !.status = "Reasoning", !.inFlight = @ + 1]
               ELSE placed
  IN IF ~Admits(s, r, t) THEN s
     ELSE [SetProgram(s, r.key, after) EXCEPT
             !.nextEpoch = IF s.prog[r.key].state = "Paused" THEN @ + 1 ELSE @,
             !.pool = IF IsFront(s, r) THEN @ \ {r} ELSE @]

(* The ProgramDispatch values admit_front returns: none or one.            *)
DispatchOf(s, r, t) ==
  IF Admits(s, r, t) /\ IsFront(s, r)
  THEN {[key |-> r.key, gen |-> r.gen, id |-> r.id, target |-> t,
         epoch |-> PlacedForAdmission(s, r, t).epoch,
         start |-> s.prog[r.key].state = "Paused" \/ s.prog[r.key].pending]}
  ELSE {}

(* complete_request accepts a completion only for the exact generation and *)
(* placement epoch.                                                        *)
Accepts(s, d) ==
  /\ Current(s, d.key, d.gen)
  /\ s.prog[d.key].epoch = d.epoch
  /\ s.prog[d.key].inFlight > 0

CompleteRequest(s, d) ==
  LET p == s.prog[d.key]
      idle == p.inFlight = 1 /\ Waiting(s, d.key, d.gen) = {}
  IN IF ~Accepts(s, d) THEN s
     ELSE SetProgram(s, d.key, [p EXCEPT !.inFlight = @ - 1,
                                         !.status = IF idle THEN "Acting" ELSE @])

(* cancel_request: an idle Program left without requests goes to Acting,   *)
(* and gives up its placement.                                             *)
CancelRequest(s, r) ==
  LET p == s.prog[r.key]
      idle == Current(s, r.key, r.gen) /\ p.inFlight = 0 /\ Waiting(s, r.key, r.gen) = {r}
      after == IF idle
               THEN [p EXCEPT !.status = "Acting", !.state = "Paused", !.placement = NoTarget]
               ELSE p
  IN IF r \notin s.pool THEN s
     ELSE [SetProgram(s, r.key, after) EXCEPT !.pool = @ \ {r}]

CanPause(s, k) == s.prog[k].live /\ s.prog[k].state = "Active" /\ s.prog[k].inFlight = 0

PauseIdle(s, k) ==
  IF ~CanPause(s, k) THEN s
  ELSE SetProgram(s, k, [s.prog[k] EXCEPT !.state = "Paused", !.placement = NoTarget])

CanActivate(s, k) ==
  /\ s.prog[k].live
  /\ s.prog[k].state = "Paused"
  /\ Waiting(s, k, s.prog[k].gen) # {}

Activate(s, k, t) ==
  IF ~CanActivate(s, k) THEN s
  ELSE [SetProgram(s, k, [s.prog[k] EXCEPT !.state = "Active", !.status = "Reasoning",
                                           !.placement = t, !.epoch = s.nextEpoch + 1,
                                           !.pending = TRUE])
          EXCEPT !.nextEpoch = @ + 1]

CanRelease(s, k) ==
  /\ s.prog[k].live
  /\ s.prog[k].inFlight = 0
  /\ Waiting(s, k, s.prog[k].gen) = {}

ReleaseIdle(s, k) ==
  IF ~CanRelease(s, k) THEN s
  ELSE [SetProgram(s, k, NoProgram) EXCEPT !.lastGen = [@ EXCEPT ![k] = s.prog[k].gen],
                                           !.released = @ \cup {k}]

(* prune_released_generations, for the released keys that aged out.        *)
PruneReleased(s, expired) ==
  LET gone == {k \in expired \cap s.released : ~s.prog[k].live}
  IN [s EXCEPT !.released = @ \ gone,
               !.lastGen = [k \in Keys |-> IF k \in gone THEN NoGeneration ELSE @[k]]]

CanInvalidate(s, k, removed) == s.prog[k].live /\ s.prog[k].placement \in removed

(* Mutant: the epoch does not move when the target disappears.             *)
InvalidatePlacementSameEpoch(s, k, removed) ==
  IF ~CanInvalidate(s, k, removed) THEN s
  ELSE SetProgram(s, k, [s.prog[k] EXCEPT !.state = "Paused", !.placement = NoTarget,
                                          !.pending = FALSE, !.inFlight = 0])

(* invalidate_placement: the requests in flight are forgotten, and a new   *)
(* epoch makes sure that their completions will not be accepted.           *)
InvalidatePlacement(s, k, removed) ==
  IF ~CanInvalidate(s, k, removed) THEN s
  ELSE [SetProgram(s, k, [s.prog[k] EXCEPT !.state = "Paused", !.placement = NoTarget,
                                           !.epoch = s.nextEpoch + 1,
                                           !.pending = FALSE, !.inFlight = 0])
          EXCEPT !.nextEpoch = @ + 1]

-----------------------------------------------------------------------------
(* Specification: any policy, any order of completions.                    *)
Init == rt = EmptyRuntime /\ dispatched = {}

Retain(k) ==
  /\ rt.nextId < MaxRequests
  /\ rt' = RetainRequest(rt, k)
  /\ UNCHANGED dispatched

Admit(r, t) ==
  /\ rt.prog[r.key].state = "Paused" => rt.nextEpoch < MaxEpochs
  /\ rt' = AdmitFront(rt, r, t)
  /\ dispatched' = dispatched \cup DispatchOf(rt, r, t)

(* The completion of a dispatch arrives, accepted or not; the holder drops *)
(* the dispatch.                                                           *)
Complete(d) ==
  /\ rt' = CompleteRequest(rt, d)
  /\ dispatched' = dispatched \ {d}

Cancel(r) == rt' = CancelRequest(rt, r) /\ UNCHANGED dispatched

Pause(k) == CanPause(rt, k) /\ rt' = PauseIdle(rt, k) /\ UNCHANGED dispatched

Resume(k, t) ==
  /\ rt.nextEpoch < MaxEpochs
  /\ CanActivate(rt, k)
  /\ rt' = Activate(rt, k, t)
  /\ UNCHANGED dispatched

Release(k) == rt' = ReleaseIdle(rt, k) /\ UNCHANGED dispatched

Prune == \E expired \in SUBSET rt.released :
  expired # {} /\ rt' = PruneReleased(rt, expired) /\ UNCHANGED dispatched

(* Discovery drops the targets in removed.                                 *)
TargetsDisappear(k, removed) ==
  /\ rt.nextEpoch < MaxEpochs
  /\ CanInvalidate(rt, k, removed)
  /\ rt' = InvalidatePlacement(rt, k, removed)
  /\ UNCHANGED dispatched

Next ==
  \/ \E k \in Keys : Retain(k) \/ Pause(k) \/ Release(k)
  \/ \E k \in Keys, t \in Targets : Resume(k, t)
  \/ \E k \in Keys, removed \in SUBSET Targets : TargetsDisappear(k, removed)
  \/ \E r \in rt.pool : Cancel(r) \/ \E t \in Targets : Admit(r, t)
  \/ \E d \in dispatched : Complete(d)
  \/ Prune

Spec == Init /\ [][Next]_vars

-----------------------------------------------------------------------------
(* Types of the runtime and of the dispatches.                             *)
TypeOK == rt \in Runtime /\ dispatched \subseteq Dispatch /\ IsFiniteSet(dispatched)

(* Dispatches made on the placement that Program k has now.                *)
Outstanding(k) == {d \in dispatched : d.epoch = rt.prog[k].epoch}

(* A Program owns a target exactly while it is Active, and only Programs   *)
(* the runtime knows are Active.                                           *)
PlacedIffActive ==
  \A k \in Keys : LET p == rt.prog[k] IN
    (p.state = "Active" <=> p.placement # NoTarget) /\ (p.state = "Active" => p.live)

(* in_flight_requests is exact: it counts the dispatches that are still    *)
(* out on the Program's current placement, however many late completions   *)
(* of earlier placements, generations or removed targets arrive meanwhile. *)
(* An idle test that trusts the counter never pauses or releases a Program *)
(* with a request in flight.                                               *)
InFlightExact ==
  \A k \in Keys : rt.prog[k].inFlight = Cardinality(Outstanding(k))

(* The placement epoch is a fence: a dispatch that carries the epoch a     *)
(* Program has now belongs to that Program, to its live generation, and    *)
(* to the target it is placed on.                                          *)
EpochFences ==
  \A k \in Keys : \A d \in Outstanding(k) : LET p == rt.prog[k] IN
    p.live /\ d.key = k /\ d.gen = p.gen /\ p.state = "Active" /\ p.placement = d.target

(* No request is retained for a generation that was released or replaced,  *)
(* where no admission could ever find it.                                  *)
WaitersAreLive == \A r \in rt.pool : Current(rt, r.key, r.gen)

(* Acting means idle: release_expired_paused and expire_acting_ttls, which *)
(* look at the status, never touch a Program with work.                    *)
ActingIsIdle ==
  \A k \in Keys : rt.prog[k].live /\ rt.prog[k].status = "Acting" =>
    rt.prog[k].inFlight = 0 /\ Waiting(rt, k, rt.prog[k].gen) = {}

(* Epochs come from one counter: no Program and no dispatch is ahead of    *)
(* it, and 0 is never handed out.                                          *)
EpochsOrdered ==
  /\ \A k \in Keys : rt.prog[k].epoch <= rt.nextEpoch
  /\ \A k \in Keys : rt.prog[k].state = "Active" => rt.prog[k].epoch > 0
  /\ \A d \in dispatched : 0 < d.epoch /\ d.epoch <= rt.nextEpoch

(* Two Programs never share an epoch, except that neither has one yet.     *)
EpochsDistinct ==
  \A k, l \in Keys : rt.prog[k].epoch = rt.prog[l].epoch => k = l \/ rt.prog[k].epoch = 0

(* A request id names one request, which is either retained or dispatched. *)
IdsDistinct ==
  /\ \A r \in rt.pool : r.id <= rt.nextId
  /\ \A d \in dispatched : d.id <= rt.nextId
  /\ \A r, q \in rt.pool : r.id = q.id => r = q
  /\ \A d, e \in dispatched : d.id = e.id => d = e
  /\ \A r \in rt.pool, d \in dispatched : r.id # d.id

AbsentIsBlank == \A k \in Keys : ~rt.prog[k].live => rt.prog[k] = NoProgram

(* The inductive invariant: the safety properties above, and what makes    *)
(* epochs and request ids unique.                                          *)
IInv ==
  /\ TypeOK /\ PlacedIffActive /\ InFlightExact /\ EpochFences /\ WaitersAreLive
  /\ ActingIsIdle /\ EpochsOrdered /\ EpochsDistinct /\ IdsDistinct /\ AbsentIsBlank

-----------------------------------------------------------------------------
(* The runtime implements ProgramLifecycle: generations, epochs and the    *)
(* in-flight counter together are as good as knowing which requests run.   *)
PhaseOf(k) ==
  IF ~rt.prog[k].live THEN "absent" ELSE IF rt.prog[k].state = "Active" THEN "active" ELSE "paused"

WaitingIds(k) == {r.id : r \in Waiting(rt, k, rt.prog[k].gen)}

RunningIds(k) == {d.id : d \in Outstanding(k)}

LifePhase == [k \in Keys |-> PhaseOf(k)]
LifePlace == [k \in Keys |-> rt.prog[k].placement]
LifeWaiting == [k \in Keys |-> WaitingIds(k)]
LifeRunning == [k \in Keys |-> RunningIds(k)]

Lifecycle == INSTANCE ProgramLifecycle WITH
  phase <- LifePhase, place <- LifePlace, waiting <- LifeWaiting, running <- LifeRunning,
  arrived <- rt.nextId

(* Every step of the runtime, under any policy and any order of            *)
(* completions, is a step of ProgramLifecycle or invisible there: late     *)
(* completions in particular are invisible.                                *)
ImplementsLifecycle == Lifecycle!Spec

(* The runtime's books agree under any policy and any order of            *)
(* completions: placements, epochs, in-flight counts, retained requests   *)
(* and statuses of every Program describe one state of it, and no late    *)
(* completion is taken for a current one.                                 *)
RuntimeIsFenced ==
  /\ TypeOK
  /\ PlacedIffActive
  /\ EpochFences
  /\ InFlightExact
  /\ WaitersAreLive
  /\ ActingIsIdle
=============================================================================
