--------------------------- MODULE ProgramScheduler ---------------------------
(***************************************************************************)
(* The Program scheduler of program_scheduling/scheduler*.rs: request      *)
(* tasks retain their request, sleep until they may claim a dispatch, time *)
(* out or are dropped; completions, arrivals, timers and the periodic tick *)
(* each run a sequence of decisions under the one scheduler lock; target   *)
(* snapshots of the worker registry are applied in their own lock          *)
(* sections, and may be stale by then.                                     *)
(*                                                                         *)
(* The state behind the lock is one record, and every function that takes  *)
(* &mut ProgramSchedulerState is an operator on such records.  An action   *)
(* is one lock section, or one step of a task between two of them.         *)
(*                                                                         *)
(* Instants are abstracted to "none" (no deadline), "armed" (ahead) and    *)
(* "due" (reached).  Token quantities, rolling factors and the orders that *)
(* compare them are abstracted to choices of the step that consults them   *)
(* (Oracle).  Left out: diagnostics, lineage and the factors themselves.   *)
(***************************************************************************)
EXTENDS Integers, FiniteSets, FiniteSetsExt, TLC

CONSTANTS
  Tasks,        \* request tasks of the HTTP router
  Keys,         \* Programs: (model pool, program id)
  Pools,        \* model pools
  PoolOf,       \* model pool of each Program
  Targets,      \* target ids
  NoTarget,     \* no target
  Members,      \* the targets that serve each pool
  MaxActive,    \* max_active_programs_per_target
  Configs,      \* the ProgramSchedulingConfigs the router may be started with
  Views,        \* the sets of targets that may be available at a time, by configuration
  MaxRequests,  \* bound on the requests that ever arrive, by configuration
  MaxEpochs     \* bound on the placement epochs after which the registry rests

ASSUME PoolAssumption == PoolOf \in [Keys -> Pools]
ASSUME ViewsAssumption == Members \in [Pools -> SUBSET Targets] /\ Views \in [Configs -> SUBSET SUBSET Targets]
ASSUME MaxActiveAssumption == MaxActive \in Nat \ {0}
ASSUME ConfigAssumption ==
  /\ Configs \subseteq [bindingOnly : BOOLEAN, globalQueue : BOOLEAN, capacity : BOOLEAN, gated : BOOLEAN]
  /\ \A c \in Configs : c.globalQueue => Cardinality(Pools) = 1

VARIABLES
  config,  \* the configuration of this router, fixed at its start
  st,      \* ProgramSchedulerState, the contents of the lock
  tasks,   \* the request tasks
  view     \* the targets of the worker registry that are available now

vars == <<config, st, tasks, view>>

(* binding_only, global_queue, token_capacity_per_dp_rank is set, and      *)
(* admission_waiting_request_threshold > 0.                                *)
BindingOnly == config.bindingOnly
GlobalQueue == config.globalQueue
HasCapacity == config.capacity
Gated == config.gated

-----------------------------------------------------------------------------
Idle ==
  [pc |-> "idle", key |-> {}, snap |-> {}, req |-> {}, disp |-> {},
   late |-> FALSE, wake |-> 0]

(* Dispatches held by the ProgramCompletion of a running request.          *)
Held == UNION {tasks[i].disp : i \in Tasks}

R == INSTANCE ProgramRuntime WITH rt <- st.rt, dispatched <- Held

Deadline == {"none", "armed", "due"}

(* ProgramRef, and the references of the Programs the runtime knows.       *)
Ref(k, g) == [key |-> k, gen |-> g]
LiveRefs(s) == {Ref(k, s.rt.prog[k].gen) : k \in {k \in Keys : s.rt.prog[k].live}}

Prog(s, ref) == s.rt.prog[ref.key]
Live(s, ref) == R!Current(s.rt, ref.key, ref.gen)
Waiters(s, ref) == R!Waiting(s.rt, ref.key, ref.gen)
NoWork(s, ref) == Prog(s, ref).inFlight = 0 /\ Waiters(s, ref) = {}

(* ProgramDecisionState::new: paused now, bound to its home target.        *)
NewDecision(home) ==
  [lastTarget |-> home, force |-> "none", armedBy |-> 0, ttl |-> "none", paused |-> "armed",
   reason |-> FALSE, marked |-> FALSE, terminate |-> FALSE, served |-> FALSE]

EmptyState ==
  [rt |-> R!EmptyRuntime, dec |-> << >>, known |-> {}, targets |-> [p \in Pools |-> {}],
   rankQ |-> [t \in Targets |-> {}], globalQ |-> [p \in Pools |-> {}],
   full |-> {}, permits |-> {}]

-----------------------------------------------------------------------------
SetDecision(s, ref, d) == [s EXCEPT !.dec = [@ EXCEPT ![ref] = d]]

(* Mutants: only the queues of one kind are swept.                         *)
UnqueueGlobalOnly(s, ref) == [s EXCEPT !.globalQ = [p \in Pools |-> @[p] \ {ref}]]

(* Remove a Program from every rank queue and every global queue.          *)
Unqueue(s, ref) ==
  [s EXCEPT !.rankQ = [t \in Targets |-> @[t] \ {ref}],
            !.globalQ = [p \in Pools |-> @[p] \ {ref}]]

(* Mutant: nothing is stored for a task that is not yet asleep.            *)
NotifyFrontSleeper(s, ref) ==
  [s EXCEPT !.permits = @ \cup {r.id : r \in {r \in Waiters(s, ref) :
     R!IsFront(s.rt, r) /\ \E i \in Tasks : tasks[i].pc = "asleep" /\ r \in tasks[i].req}}]

(* notify_one on the front request's Notify: a permit is stored until its  *)
(* task awaits it.                                                         *)
NotifyFront(s, ref) ==
  [s EXCEPT !.permits = @ \cup {r.id : r \in {r \in Waiters(s, ref) : R!IsFront(s.rt, r)}}]

ActiveOn(s, t) == {k \in Keys : s.rt.prog[k].state = "Active" /\ s.rt.prog[k].placement = t}

(* commit_admission: activate on the target, clear what waiting set up.    *)
CommitAdmission(s, ref, t) ==
  IF ref \notin DOMAIN s.dec \/ ~Live(s, ref) \/ ~R!CanActivate(s.rt, ref.key) THEN s
  ELSE LET d == [s.dec[ref] EXCEPT !.lastTarget = t, !.force = "none", !.armedBy = 0,
                                   !.ttl = "none", !.paused = "none", !.reason = FALSE,
                                   !.marked = FALSE]
           active == [SetDecision(s, ref, d) EXCEPT !.rt = R!Activate(@, ref.key, t)]
       IN NotifyFront(Unqueue(active, ref), ref)

(* pause_idle of the scheduler.                                            *)
PauseIdle(s, ref) ==
  IF ref \notin DOMAIN s.dec \/ ~Live(s, ref) \/ ~R!CanPause(s.rt, ref.key) THEN s
  ELSE [SetDecision(s, ref, [s.dec[ref] EXCEPT !.ttl = "none", !.paused = "armed",
                                               !.reason = TRUE, !.marked = FALSE])
          EXCEPT !.rt = R!PauseIdle(@, ref.key)]

(* release_program: out of the queues in any case, forgotten when idle.    *)
ReleaseProgram(s, ref) ==
  LET out == Unqueue(s, ref) IN
  IF ~Live(s, ref) \/ ~R!CanRelease(s.rt, ref.key) THEN out
  ELSE [out EXCEPT !.rt = R!ReleaseIdle(@, ref.key),
                   !.dec = [q \in DOMAIN @ \ {ref} |-> @[q]]]

-----------------------------------------------------------------------------
(* expire_acting_ttls, release_expired_paused: every Program whose         *)
(* deadline is due.                                                        *)
ExpireActingTtls(s) ==
  LET expired == {ref \in LiveRefs(s) \cap DOMAIN s.dec :
                    /\ Prog(s, ref).state = "Active" /\ Prog(s, ref).status = "Acting"
                    /\ Prog(s, ref).inFlight = 0
                    /\ s.dec[ref].ttl = "due"}
  IN FoldSet(LAMBDA ref, acc : PauseIdle(acc, ref), s, expired)

ReleaseExpiredPaused(s) ==
  LET expired == {ref \in LiveRefs(s) \cap DOMAIN s.dec :
                    /\ Prog(s, ref).state = "Paused" /\ Prog(s, ref).status = "Acting"
                    /\ NoWork(s, ref)
                    /\ s.dec[ref].paused = "due"}
  IN FoldSet(LAMBDA ref, acc : ReleaseProgram(acc, ref), s, expired)

(* repair_capacity: of the active Programs on known targets, idle acting   *)
(* ones are paused and reasoning ones with requests in flight marked, as   *)
(* far as the pressure on their target asks for it.                        *)
RepairCapacity(s, o) ==
  LET known == UNION {s.targets[p] : p \in Pools}
      victims == {ref \in LiveRefs(s) \cap DOMAIN s.dec :
                    /\ ref.key \in o.victims
                    /\ Prog(s, ref).state = "Active" /\ Prog(s, ref).placement \in known
                    /\ IF Prog(s, ref).status = "Acting" THEN Prog(s, ref).inFlight = 0
                       ELSE ~s.dec[ref].marked /\ Prog(s, ref).inFlight > 0}
      relieve(ref, acc) == IF Prog(acc, ref).status = "Acting" THEN PauseIdle(acc, ref)
                           ELSE [acc EXCEPT !.dec[ref].marked = TRUE]
  IN FoldSet(relieve, s, victims)

-----------------------------------------------------------------------------
Forced(s, ref) == s.dec[ref].force = "due"

Ready(s, ref) ==
  /\ Live(s, ref) /\ ref \in DOMAIN s.dec
  /\ Prog(s, ref).state = "Paused" /\ Prog(s, ref).status = "Reasoning"
  /\ Waiters(s, ref) # {}

(* What the data of the moment decide: which waiting Programs fit the      *)
(* token limits, which relocations are mature and have the headroom, and   *)
(* which active Programs capacity repair picks.                            *)
Oracle(s) ==
  LET ready == {ref \in LiveRefs(s) : Ready(s, ref)}
      moves == {pl \in ready \X Targets : s.dec[pl[1]].reason /\ pl[2] # s.dec[pl[1]].lastTarget}
  IN [fits : IF HasCapacity THEN SUBSET {ref.key : ref \in ready} ELSE {Keys},
      cross : IF GlobalQueue THEN SUBSET {<<pl[1].key, pl[2]>> : pl \in moves} ELSE {{}},
      victims : IF HasCapacity THEN SUBSET {k \in Keys : s.rt.prog[k].state = "Active"} ELSE {{}}]

(* Mutant: a due deadline overrides nothing.                               *)
PlanNeverForced(s, ref, t, o) ==
  /\ Ready(s, ref)
  /\ ~GlobalQueue => s.dec[ref].lastTarget = t
  /\ ~(Gated /\ t \in s.full)
  /\ Cardinality(ActiveOn(s, t)) + 1 <= MaxActive /\ ref.key \in o.fits

(* rank_admission_plan is Some: the waiting gate blocks everybody, a due   *)
(* force-resume deadline overrides the count guard and the token limits.   *)
Plan(s, ref, t, o) ==
  /\ Ready(s, ref)
  /\ ~GlobalQueue => s.dec[ref].lastTarget = t
  /\ ~(Gated /\ t \in s.full)
  /\ Forced(s, ref) \/ (Cardinality(ActiveOn(s, t)) + 1 <= MaxActive /\ ref.key \in o.fits)

(* Mutant: the order ignores due deadlines.                                *)
AdmitAny(s, plans) ==
  IF plans = {} THEN {s} ELSE {CommitAdmission(s, pl[1], pl[2]) : pl \in plans}

(* One admission of a cycle: among the plans, given as pairs of a Program  *)
(* and a target, forced Programs come first; priorities, yield marks and   *)
(* the configured order then pick any of the rest.                         *)
AdmitOne(s, plans) ==
  LET forced == {pl \in plans : Forced(s, pl[1])}
      best == IF forced = {} THEN plans ELSE forced
  IN IF plans = {} THEN {s} ELSE {CommitAdmission(s, pl[1], pl[2]) : pl \in best}

(* schedule_rank_local: each queue admits onto its own target.             *)
LocalPlans(s, o) == {pl \in LiveRefs(s) \X Targets : pl[1] \in s.rankQ[pl[2]] /\ Plan(s, pl[1], pl[2], o)}

(* schedule_global_waiting: resumes on the last target first, then         *)
(* relocation of Programs that were paused before, to a target no other    *)
(* waiter calls its own.                                                   *)
GlobalReady(s) == {ref \in UNION {s.globalQ[p] : p \in Pools} : Ready(s, ref)}

AffinePlans(s, o) ==
  {pl \in GlobalReady(s) \X Targets : pl[2] = s.dec[pl[1]].lastTarget /\ Plan(s, pl[1], pl[2], o)}

SourcePressure(s, ref) ==
  \/ ~Gated
  \/ s.dec[ref].lastTarget \in s.full
  \/ \E q \in GlobalReady(s) \ {ref} : s.dec[q].lastTarget = s.dec[ref].lastTarget

CrossPlans(s, o) ==
  {pl \in GlobalReady(s) \X Targets :
    LET d == s.dec[pl[1]] IN
    /\ d.reason /\ d.lastTarget # NoTarget
    /\ pl[2] \in s.targets[PoolOf[pl[1].key]] \ {d.lastTarget}
    /\ ~\E q \in GlobalReady(s) \ {pl[1]} : s.dec[q].lastTarget = pl[2]
    /\ SourcePressure(s, pl[1])
    /\ <<pl[1].key, pl[2]>> \in o.cross
    /\ Plan(s, pl[1], pl[2], o)}

PlansOf(loop, s, o) ==
  CASE loop = "local" -> LocalPlans(s, o)
    [] loop = "affine" -> AffinePlans(s, o)
    [] loop = "cross" -> CrossPlans(s, o)

(* A loop ends when no plan is left; every round activates a Program.      *)
Rounds(S, loop, o) ==
  LET round[n \in 0..Cardinality(Keys)] ==
        IF n = 0 THEN S ELSE UNION {AdmitOne(s, PlansOf(loop, s, o)) : s \in round[n - 1]}
  IN round[Cardinality(Keys)]

ScheduleWaiting(s, o) ==
  IF GlobalQueue THEN Rounds(Rounds({s}, "affine", o), "cross", o)
  ELSE Rounds({s}, "local", o)

(* run_request_arrival_decisions and run_periodic_decisions.               *)
ArrivalDecisions(s, o) ==
  ScheduleWaiting(RepairCapacity(ExpireActingTtls(ReleaseExpiredPaused(s)), o), o)

PeriodicDecisions(s, expired, o) ==
  LET pruned == [s EXCEPT !.rt = R!PruneReleased(@, expired)]
      swept == ReleaseExpiredPaused(ExpireActingTtls(pruned))
  IN IF BindingOnly THEN {swept} ELSE ScheduleWaiting(RepairCapacity(swept, o), o)

-----------------------------------------------------------------------------
(* ensure_decision_state: a Program without one is bound to home.          *)
EnsureDecision(s, ref, home) ==
  IF ref \in DOMAIN s.dec THEN s ELSE [s EXCEPT !.dec = @ @@ (ref :> NewDecision(home))]

(* What binding may answer: one of the pool's targets, if there is one.    *)
BindTo(targets) == IF targets = {} THEN {NoTarget} ELSE targets

(* set_force_resume_deadline, by the request id: every arrival of a        *)
(* waiting Program's requests freezes a new deadline.                      *)
SetForceResumeDeadline(s, ref, id) ==
  [s EXCEPT !.dec[ref].force = "armed", !.dec[ref].armedBy = id]

(* A Program without placement joins its queue.                            *)
Enqueue(s, ref, id) ==
  LET queued == IF GlobalQueue THEN [s EXCEPT !.globalQ[PoolOf[ref.key]] = @ \cup {ref}]
                ELSE [s EXCEPT !.rankQ[s.dec[ref].lastTarget] = @ \cup {ref}]
  IN SetForceResumeDeadline(queued, ref, id)

(* activate_binding_only: no queueing, no limits.                          *)
ActivateBindingOnly(s, ref) ==
  IF Prog(s, ref).state = "Active" THEN NotifyFront(s, ref)
  ELSE CommitAdmission(s, ref, s.dec[ref].lastTarget)

(* The first lock section of acquire_synced up to the queueing: the state  *)
(* after retain_request and ensure_decision_state.                         *)
Retained(s, k, home) ==
  LET rt == R!RetainRequest(s.rt, k)
  IN EnsureDecision([s EXCEPT !.rt = rt], Ref(k, rt.prog[k].gen), home)

(* cancel_retained_request, run when the AdmissionGuard is dropped armed.  *)
CancelRetained(s, r, o) ==
  LET ref == Ref(r.key, r.gen)
      rt == R!CancelRequest(s.rt, r)
      woken == IF R!IsFront(s.rt, r) THEN NotifyFront([s EXCEPT !.rt = rt], ref)
               ELSE [s EXCEPT !.rt = rt]
      gaveUp == /\ Live(s, ref) /\ ref \in DOMAIN s.dec /\ s.dec[ref].lastTarget # NoTarget
                /\ s.rt.prog[r.key].state = "Active" /\ rt.prog[r.key].state = "Paused"
      paused == IF gaveUp THEN [woken EXCEPT !.dec[ref].paused = "armed", !.dec[ref].reason = TRUE,
                                             !.dec[ref].marked = FALSE]
                ELSE woken
      unqueued == IF Live(s, ref) /\ Waiters(paused, ref) # {} THEN paused ELSE Unqueue(paused, ref)
      unstarted == /\ Live(s, ref) /\ NoWork(unqueued, ref)
                   /\ ref \in DOMAIN s.dec /\ ~s.dec[ref].served
      after == IF unstarted THEN ReleaseProgram(unqueued, ref) ELSE unqueued
  IN IF r \notin s.rt.pool THEN {s} ELSE ScheduleWaiting(after, o)

(* yield_completed_segment: a Program at its segment limit makes room for  *)
(* somebody else who waits for the same target.                            *)
YieldSegment(s, ref) ==
  LET t == Prog(s, ref).placement
      local == IF GlobalQueue THEN {q \in GlobalReady(s) : s.dec[q].lastTarget = t}
               ELSE {q \in s.rankQ[t] : Ready(s, q)}
  IN IF /\ Live(s, ref) /\ ref \in DOMAIN s.dec
        /\ Prog(s, ref).state = "Active" /\ Prog(s, ref).status = "Acting"
        /\ local \ {ref} # {}
     THEN PauseIdle(s, ref) ELSE s

(* A completion cancels the deferred pause of a Program with a successor.  *)
Decided(s, ref, terminate) ==
  [s.dec[ref] EXCEPT !.marked = @ /\ ~(Prog(s, ref).inFlight = 0 /\ Waiters(s, ref) # {}),
                     !.terminate = @ \/ terminate]

(* An idle Program is released, paused, or starts to act until ttl.        *)
Settled(s, ref, dec, success, ttl) ==
  LET idle == NoWork(s, ref)
      acts == idle /\ ~dec.terminate /\ ~dec.marked /\ success
      recorded == SetDecision(s, ref, [dec EXCEPT !.served = @ \/ success,
                                                  !.ttl = IF acts THEN ttl ELSE @])
  IN IF idle /\ dec.terminate THEN ReleaseProgram(recorded, ref)
     ELSE IF idle /\ ~acts THEN PauseIdle(recorded, ref)
     ELSE recorded

(* complete.  ttl is the deadline of the new acting TTL, which may be zero *)
(* and so due at once; yields says that the Program reached its segment    *)
(* limit and that relief under way does not cover the first waiter.        *)
Complete(s, d, success, terminate, ttl, yields, expired, o) ==
  LET ref == Ref(d.key, d.gen)
      done == [s EXCEPT !.rt = R!CompleteRequest(@, d)]
      settled == Settled(done, ref, Decided(done, ref, terminate), success, ttl)
      yielded == IF yields /\ ~BindingOnly THEN YieldSegment(settled, ref) ELSE settled
  IN IF ~Live(s, ref) \/ Prog(s, ref).placement # d.target \/ ref \notin DOMAIN s.dec
        \/ ~R!Accepts(s.rt, d)
     THEN {s} ELSE PeriodicDecisions(yielded, expired, o)

(* A Program whose last target is gone is bound to t: it loses a removed   *)
(* placement, and its retained requests move to the queue of t.            *)
Rebind(s, ref, removed, t) ==
  LET lost == R!CanInvalidate(s.rt, ref.key, removed) \/ s.dec[ref].lastTarget \in removed
      d == IF lost THEN [s.dec[ref] EXCEPT !.lastTarget = t, !.paused = "armed",
                                           !.marked = FALSE, !.ttl = "none"]
           ELSE [s.dec[ref] EXCEPT !.lastTarget = t]
      out == [SetDecision(Unqueue(s, ref), ref, d)
                EXCEPT !.rt = R!InvalidatePlacement(@, ref.key, removed)]
  IN IF Waiters(s, ref) = {} THEN out
     ELSE IF GlobalQueue THEN [out EXCEPT !.globalQ[PoolOf[ref.key]] = @ \cup {ref}]
     ELSE IF t = NoTarget THEN out
     ELSE [out EXCEPT !.rankQ[t] = @ \cup {ref}]

(* sync_target_snapshot_locked for pool p: Programs whose last target is   *)
(* not in the snapshot are bound anew, to home[key].                       *)
SyncTargets(s, p, snap, home) ==
  LET removed == s.targets[p] \ snap
      dropped == [s EXCEPT !.known = @ \cup {p}, !.targets[p] = snap,
                           !.rankQ = [t \in Targets |-> IF t \in removed THEN {} ELSE @[t]],
                           !.full = @ \ removed]
      affected == {ref \in LiveRefs(s) \cap DOMAIN s.dec :
                     PoolOf[ref.key] = p /\ s.dec[ref].lastTarget \notin snap}
  IN IF p \in s.known /\ s.targets[p] = snap THEN s
     ELSE FoldSet(LAMBDA ref, acc : Rebind(acc, ref, removed, home[ref.key]), dropped, affected)

-----------------------------------------------------------------------------
Init ==
  /\ config \in Configs
  /\ st = EmptyState
  /\ tasks = [i \in Tasks |-> Idle]
  /\ view \in Views[config]

(* What program_targets_for_model answers.                                 *)
Shown(p) == view \cap Members[p]

At(i, from) == tasks[i].pc = from

SetTask(i, task) == tasks' = [tasks EXCEPT ![i] = task]

(* A request of Program k reads its pool's targets from the registry, or   *)
(* from the cache of the same revision.                                    *)
ReadTargets(i, k) ==
  /\ At(i, "idle")
  /\ st.rt.nextId + Cardinality({j \in Tasks : tasks[j].pc \in {"sync", "retain"}}) < MaxRequests[config]
  /\ SetTask(i, [Idle EXCEPT !.pc = "sync", !.key = {k}, !.snap = Shown(PoolOf[k])])
  /\ UNCHANGED <<config, st, view>>

(* acquire_from_snapshot: the snapshot is applied in a lock section of its *)
(* own; without targets the request fails.                                 *)
SyncSnapshot(i) ==
  LET task == tasks[i] IN
  /\ At(i, "sync")
  /\ \E k \in task.key, home \in [Keys -> BindTo(task.snap)] :
       st' = SyncTargets(st, PoolOf[k], task.snap, home)
  /\ SetTask(i, IF task.snap = {} THEN Idle ELSE [task EXCEPT !.pc = "retain", !.snap = {}])
  /\ UNCHANGED <<config, view>>

(* acquire_synced, first lock section.  A Program without placement that   *)
(* has no target to wait for fails the request before the AdmissionGuard   *)
(* exists; otherwise the request goes on to claim its dispatch.            *)
Retain(i) ==
  /\ At(i, "retain")
  /\ \E k \in tasks[i].key : \E home \in BindTo(st.targets[PoolOf[k]]) :
       LET s == Retained(st, k, home)
           ref == Ref(k, s.rt.prog[k].gen)
           r == [key |-> k, gen |-> ref.gen, id |-> s.rt.nextId]
           placed == Prog(s, ref).placement # NoTarget
           ready == IF placed THEN s ELSE Enqueue(s, ref, r.id)
       IN IF ~placed /\ s.dec[ref].lastTarget = NoTarget
          THEN st' = s /\ SetTask(i, Idle)
          ELSE /\ IF BindingOnly THEN st' = ActivateBindingOnly(ready, ref)
                  ELSE \E o \in Oracle(ready) : st' \in ArrivalDecisions(ready, o)
               /\ SetTask(i, [Idle EXCEPT !.pc = "claim", !.req = {r}])
  /\ UNCHANGED <<config, view>>

(* claim_dispatch: admit_front on the Program's placement, if it has one.  *)
Claim(i) ==
  LET task == tasks[i] IN
  /\ At(i, "claim")
  /\ \E r \in task.req :
       LET t == st.rt.prog[r.key].placement
           ref == Ref(r.key, r.gen)
           made == IF Live(st, ref) /\ t # NoTarget THEN R!DispatchOf(st.rt, r, t) ELSE {}
           s == IF Live(st, ref) /\ t # NoTarget THEN [st EXCEPT !.rt = R!AdmitFront(@, r, t)] ELSE st
       IN IF made = {}
          THEN st' = s /\ SetTask(i, [task EXCEPT !.pc = "check"])
          ELSE /\ st' = NotifyFront([s EXCEPT !.permits = @ \ {r.id}], ref)
               /\ SetTask(i, [Idle EXCEPT !.pc = "run", !.disp = made])
  /\ UNCHANGED <<config, view>>

(* Mutant: the queue deadline is not looked at.                            *)
CheckNeverLate(i) ==
  LET task == tasks[i] IN
  /\ At(i, "check")
  /\ SetTask(i, [task EXCEPT !.pc = "asleep"])
  /\ UNCHANGED <<config, st, view>>

(* After a failed claim: QueueTimeout once the deadline has passed, else   *)
(* sleep until the Program's force-resume deadline or the queue deadline.  *)
Check(i) ==
  LET task == tasks[i] IN
  /\ At(i, "check")
  /\ \E r \in task.req :
       LET ref == Ref(r.key, r.gen) IN
       SetTask(i, IF task.late THEN [task EXCEPT !.pc = "cancel"]
                  ELSE [task EXCEPT !.pc = "asleep",
                                    !.wake = IF ref \in DOMAIN st.dec THEN st.dec[ref].armedBy ELSE 0])
  /\ UNCHANGED <<config, st, view>>

(* The stored permit of the request's Notify ends the sleep.               *)
Wake(i) ==
  LET ids == {r.id : r \in tasks[i].req} IN
  /\ At(i, "asleep") /\ ids \subseteq st.permits
  /\ st' = [st EXCEPT !.permits = @ \ ids]
  /\ SetTask(i, [tasks[i] EXCEPT !.pc = "claim", !.wake = 0])
  /\ UNCHANGED <<config, view>>

(* The timer ends it: at the queue deadline, or at the force-resume        *)
(* deadline it was set to, unless that one is still ahead.                 *)
TimerElapsed(i) ==
  \/ tasks[i].late
  \/ /\ tasks[i].wake # 0
     /\ ~\E r \in tasks[i].req : LET ref == Ref(r.key, r.gen) IN
           ref \in DOMAIN st.dec /\ st.dec[ref].armedBy = tasks[i].wake /\ st.dec[ref].force = "armed"

Timer(i) ==
  /\ At(i, "asleep") /\ TimerElapsed(i)
  /\ \E o \in Oracle(st) : st' \in ArrivalDecisions(st, o)
  /\ SetTask(i, [tasks[i] EXCEPT !.pc = "claim", !.wake = 0])
  /\ UNCHANGED <<config, view>>

(* The client goes away while its request sleeps: the future is dropped.   *)
Disconnect(i) ==
  /\ At(i, "asleep")
  /\ SetTask(i, [tasks[i] EXCEPT !.pc = "cancel", !.wake = 0])
  /\ UNCHANGED <<config, st, view>>

(* Dropping the AdmissionGuard cancels the retained request.               *)
Cancel(i) ==
  /\ At(i, "cancel")
  /\ \E r \in tasks[i].req, o \in Oracle(st) :
       \E s \in CancelRetained(st, r, o) : st' = [s EXCEPT !.permits = @ \ {r.id}]
  /\ SetTask(i, Idle)
  /\ UNCHANGED <<config, view>>

(* ProgramCompletion::finish, or its drop, which reports a failure.        *)
Finish(i) ==
  /\ At(i, "run")
  /\ \E d \in tasks[i].disp, success \in BOOLEAN, terminate \in BOOLEAN, ttl \in {"armed", "due"},
        yields \in BOOLEAN, expired \in SUBSET st.rt.released, o \in Oracle(st) :
       st' \in Complete(st, d, success, terminate, ttl, yields, expired, o)
  /\ SetTask(i, Idle)
  /\ UNCHANGED <<config, view>>

-----------------------------------------------------------------------------
(* The observation loop: refresh every known pool, then tick if there are  *)
(* targets at all.  Observations move the waiting gate of a target.        *)
ObserverSync ==
  /\ \E home \in [Keys -> Targets \cup {NoTarget}] :
       /\ \A k \in Keys : home[k] \in BindTo(Shown(PoolOf[k]))
       /\ st' = FoldSet(LAMBDA p, acc : SyncTargets(acc, p, Shown(p), home), st, st.known)
  /\ UNCHANGED <<config, tasks, view>>

Tick ==
  /\ \E p \in Pools : st.targets[p] # {}
  /\ \E expired \in SUBSET st.rt.released, o \in Oracle(st) : st' \in PeriodicDecisions(st, expired, o)
  /\ UNCHANGED <<config, tasks, view>>

Observe(t) ==
  /\ Gated /\ \E p \in Pools : t \in st.targets[p]
  /\ st' = [st EXCEPT !.full = IF t \in @ THEN @ \ {t} ELSE @ \cup {t}]
  /\ UNCHANGED <<config, tasks, view>>

(* Workers come and go.                                                    *)
RegistryChanges ==
  /\ st.rt.nextEpoch < MaxEpochs
  /\ view' \in Views[config] \ {view}
  /\ UNCHANGED <<config, st, tasks>>

(* Time passes: a deadline becomes due.  Deadlines are told apart from     *)
(* those ahead only where the code looks at them: the queue deadline after *)
(* a failed claim and in the sleep, force-resume deadlines of waiting      *)
(* Programs, acting TTLs and retention periods of idle ones.               *)
QueueDeadline(i) ==
  /\ tasks[i].pc \in {"check", "asleep"} /\ ~tasks[i].late
  /\ SetTask(i, [tasks[i] EXCEPT !.late = TRUE])
  /\ UNCHANGED <<config, st, view>>

ForceAhead(ref) == st.dec[ref].force = "armed" /\ Ready(st, ref)
TtlAhead(ref) == st.dec[ref].ttl = "armed" /\ Prog(st, ref).status = "Acting"
RetentionAhead(ref) == st.dec[ref].paused = "armed" /\ NoWork(st, ref)

ForceDue(ref) ==
  /\ ForceAhead(ref)
  /\ st' = [st EXCEPT !.dec[ref].force = "due"]
  /\ UNCHANGED <<config, tasks, view>>

TtlDue(ref) ==
  /\ TtlAhead(ref)
  /\ st' = [st EXCEPT !.dec[ref].ttl = "due"]
  /\ UNCHANGED <<config, tasks, view>>

RetentionDue(ref) ==
  /\ RetentionAhead(ref)
  /\ st' = [st EXCEPT !.dec[ref].paused = "due"]
  /\ UNCHANGED <<config, tasks, view>>

(* What a task does on its own once its request has arrived.               *)
Advance(i) ==
  SyncSnapshot(i) \/ Retain(i) \/ Claim(i) \/ Check(i) \/ Wake(i) \/ Timer(i) \/ Cancel(i)

DecisionDeadlines ==
  \E ref \in DOMAIN st.dec : ForceDue(ref) \/ TtlDue(ref) \/ RetentionDue(ref)

Next ==
  \/ \E i \in Tasks, k \in Keys : ReadTargets(i, k)
  \/ \E i \in Tasks : Advance(i) \/ Finish(i) \/ Disconnect(i) \/ QueueDeadline(i)
  \/ ObserverSync \/ Tick
  \/ \E t \in Targets : Observe(t)
  \/ RegistryChanges
  \/ DecisionDeadlines

Spec == Init /\ [][Next]_vars

(* Weak fairness is stated with the enabling conditions written out, as    *)
(* predicates of the state.                                                *)
CanAdvance(i) ==
  \/ tasks[i].pc \in {"sync", "retain", "claim", "check", "cancel"}
  \/ tasks[i].pc = "asleep" /\ (TimerElapsed(i) \/ {r.id : r \in tasks[i].req} \subseteq st.permits)

TickMatters ==
  /\ \E p \in Pools : st.targets[p] # {}
  /\ \E o \in Oracle(st) : PeriodicDecisions(st, {}, o) # {st}

DeadlineAhead ==
  \E ref \in DOMAIN st.dec : ForceAhead(ref) \/ TtlAhead(ref) \/ RetentionAhead(ref)

(* The runtime polls every task that can go on, the observation loop keeps *)
(* running, and time passes.  Nothing is assumed of the backends: a        *)
(* request that runs may run for ever, and no queue deadline need pass.    *)
ResumeSpec ==
  /\ Spec
  /\ \A i \in Tasks : []<>~CanAdvance(i) \/ []<><<Advance(i)>>_vars
  /\ []<>(\A p \in st.known : st.targets[p] = Shown(p)) \/ []<><<ObserverSync>>_vars
  /\ []<>~TickMatters \/ []<><<Tick>>_vars
  /\ []<>~DeadlineAhead \/ []<><<DecisionDeadlines>>_vars

(* What the backends and the registry may grant on top: queue deadlines    *)
(* pass too (also for a task that keeps going round its loop, hence SF),   *)
(* every request that runs ends, and the registry comes to rest.           *)
ServedFairly ==
  /\ <>[][UNCHANGED view]_vars
  /\ \A i \in Tasks : SF_vars(QueueDeadline(i)) /\ ([]<>(tasks[i].pc # "run") \/ []<><<Finish(i)>>_vars)

-----------------------------------------------------------------------------
TaskSteps == {"idle", "sync", "retain", "claim", "check", "asleep", "cancel", "run"}

Decision ==
  [lastTarget : Targets \cup {NoTarget}, force : Deadline, armedBy : 0..MaxRequests[config],
   ttl : Deadline, paused : Deadline, reason : BOOLEAN, marked : BOOLEAN,
   terminate : BOOLEAN, served : BOOLEAN]

(* Types of the scheduler's state and of the tasks.                        *)
TypeOK ==
  /\ st.rt \in R!Runtime
  /\ st.dec \in [DOMAIN st.dec -> Decision]
  /\ st.targets \in [Pools -> SUBSET Targets] /\ st.known \subseteq Pools
  /\ \A t \in Targets : st.rankQ[t] \subseteq [key : Keys, gen : Nat]
  /\ \A p \in Pools : st.globalQ[p] \subseteq [key : Keys, gen : Nat]
  /\ st.full \subseteq Targets /\ st.permits \subseteq 1..MaxRequests[config]
  /\ \A i \in Tasks : /\ tasks[i].pc \in TaskSteps /\ tasks[i].key \subseteq Keys
                      /\ tasks[i].req \subseteq R!Request /\ tasks[i].disp \subseteq R!Dispatch
                      /\ tasks[i].wake \in 0..MaxRequests[config] /\ tasks[i].late \in BOOLEAN
                      /\ tasks[i].snap \subseteq Targets
  /\ view \in SUBSET Targets

(* Decisions and Programs live and die together: release_program forgets a *)
(* decision exactly when the runtime forgets the generation, and every     *)
(* generation that retain_request creates gets one under the same lock.    *)
DecisionPerProgram == DOMAIN st.dec = LiveRefs(st)

(* A placement is one the scheduler knows: an active Program sits on its   *)
(* last target, and that target is in its pool's current snapshot.  Stale  *)
(* snapshots, completions and resumes never leave a Program on a target    *)
(* that discovery dropped.                                                 *)
PlacementIsKnown ==
  \A ref \in LiveRefs(st) : Prog(st, ref).state = "Active" =>
    /\ Prog(st, ref).placement = st.dec[ref].lastTarget
    /\ Prog(st, ref).placement \in st.targets[PoolOf[ref.key]]

(* The rank queues hold exactly the paused Programs with retained          *)
(* requests, each in the queue of its last target: nobody who waits is     *)
(* missed by schedule_rank_local, and no queue keeps a Program that does   *)
(* not wait any more.                                                      *)
QueuesAreExact ==
  ~GlobalQueue => \A t \in Targets :
    st.rankQ[t] = {ref \in LiveRefs(st) : /\ Prog(st, ref).state = "Paused"
                                          /\ Waiters(st, ref) # {}
                                          /\ st.dec[ref].lastTarget = t}

(* The same for the global queue, which also keeps Programs that have no   *)
(* target yet.                                                             *)
GlobalQueueIsExact ==
  GlobalQueue => \A p \in Pools :
    st.globalQ[p] = {ref \in LiveRefs(st) : /\ Prog(st, ref).state = "Paused"
                                            /\ Waiters(st, ref) # {}
                                            /\ PoolOf[ref.key] = p}

(* No wakeup is lost: a task that sleeps on the front request of an active *)
(* Program has a permit to come, whoever activated the Program, took or    *)
(* cancelled the requests before it.                                       *)
NoLostWakeup ==
  \A i \in Tasks : tasks[i].pc = "asleep" =>
    \A r \in tasks[i].req :
      R!IsFront(st.rt, r) /\ st.rt.prog[r.key].state = "Active" => r.id \in st.permits

(* A retained request belongs to a task that will claim or cancel it: only *)
(* then queue_timeout_seconds "sets the maximum time a retained request may *)
(* remain in the Router RequestPool".  One way leads out of that.  A        *)
(* request that is retained after its pool lost its last target is answered *)
(* NoTargets and left in the pool, before the AdmissionGuard exists that    *)
(* would cancel it; no other step leaves a request without its task.        *)
Owned(ts, r) == \E i \in Tasks : r \in ts[i].req

OnlyNoTargetsOrphans ==
  \A r \in st'.rt.pool : Owned(tasks', r) \/
    IF r \in st.rt.pool THEN ~Owned(tasks, r) ELSE st.targets[PoolOf[r.key]] = {}

(* Every idle Program has a deadline that ends its stay: an active one its *)
(* acting TTL, a paused acting one the retention period.  Without it the   *)
(* Program would hold its target or its state for ever.                    *)
IdleHasDeadline ==
  \A ref \in LiveRefs(st) : Prog(st, ref).status = "Acting" =>
    IF Prog(st, ref).state = "Active" THEN st.dec[ref].ttl # "none"
    ELSE st.dec[ref].paused # "none"

(* The scheduler keeps the runtime's in-flight counter exact: no Program   *)
(* is paused or released while a request runs on its current placement.    *)
InFlightExact == R!InFlightExact

(* A Program resumes on the target it was last bound to; another one is    *)
(* chosen only from the global queue, and only for a Program that ran and  *)
(* was paused before.                                                      *)
ResumesAtHome ==
  \A ref \in LiveRefs(st) \cap LiveRefs(st') :
    Prog(st, ref).state = "Paused" /\ Prog(st', ref).state = "Active" =>
      \/ Prog(st', ref).placement = st.dec[ref].lastTarget
      \/ GlobalQueue /\ st.dec[ref].reason

(* Only a due force-resume deadline overrides the Program-count guard, and *)
(* due deadlines come first: whoever is admitted by one is seated before   *)
(* the others of the same cycle, who get only the room that is left.  A    *)
(* step that admits an ordinary Program to a target leaves the target      *)
(* within max_active_programs_per_target (without binding_only).           *)
ForcedFirst ==
  \A t \in Targets :
    LET new == ActiveOn(st', t) \ ActiveOn(st, t)
        forced == {q.key : q \in {q \in DOMAIN st.dec : st.dec[q].force = "due"}}
    IN BindingOnly \/ new \subseteq forced \/ Cardinality(ActiveOn(st', t)) <= MaxActive

(* With binding_only a request waits for an admission only after its       *)
(* target went away: otherwise its Program is active from the lock section *)
(* that retained the request until the request is dispatched or cancelled. *)
BindingNeverWaits ==
  BindingOnly => \A r \in st'.rt.pool :
    \/ st'.rt.prog[r.key].state = "Active"
    \/ r \in st.rt.pool /\ st.rt.prog[r.key].state = "Paused"
    \/ st.rt.prog[r.key].placement \in st.targets[PoolOf[r.key]] \ st'.targets[PoolOf[r.key]]
    \/ st.targets[PoolOf[r.key]] = {}

(* Whoever waits for an admission has a force-resume deadline, and keeps   *)
(* it through failovers to other targets.  A Program is without one only   *)
(* when it ran on a target that went away with requests still to be        *)
(* dispatched (its admission cleared the deadline, and rebinding sets no   *)
(* new one), or when its request was retained for a pool without targets;  *)
(* the next arrival gives it one.                                          *)
WaitersKeepTheirDeadline ==
  \A ref \in LiveRefs(st') : Ready(st', ref) /\ st'.dec[ref].force = "none" =>
    LET p == PoolOf[ref.key] IN
    \/ ref \in LiveRefs(st) /\ Ready(st, ref) /\ st.dec[ref].force = "none"
    \/ ref \in LiveRefs(st) /\ Prog(st, ref).placement \in st.targets[p] \ st'.targets[p]
    \/ Waiters(st', ref) # Waiters(st, ref) /\ st.targets[p] = {}

(* No waiting Program starves: it is resumed, or gives up, even when the   *)
(* Programs that hold its target never finish and no queue deadline        *)
(* passes.  This is what the force-resume deadline is for.  (The waiting    *)
(* gate of a busy target does hold it back, for as long as it is shut, and *)
(* a Program that lost its target under a request may have no deadline.)   *)
NoStarvation ==
  ~Gated => \A k \in Keys :
    LET waits == \E ref \in LiveRefs(st) : ref.key = k /\ Ready(st, ref)
    IN waits ~> ~waits

(* Every acquire returns: the task's request leaves the pool, dispatched,  *)
(* timed out or cancelled, also when the waiting gate never opens.         *)
AcquireReturns ==
  ServedFairly => \A i \in Tasks : (tasks[i].req # {}) ~> (tasks[i].req = {})

Idles(k) == \E ref \in LiveRefs(st) : ref.key = k /\ NoWork(st, ref)

TargetsRemain == <>[](view # {})

(* An idle Program whose last request completed does not keep its state    *)
(* for ever: its acting TTL and then the retention period end it, unless   *)
(* it gets new work.  (The sweeps are part of the tick, which waits for a  *)
(* target.)  One that lost its target under a running request stays: it is *)
(* paused while it reasons, and release_expired_paused wants the status    *)
(* Acting.                                                                 *)
ActingIsReclaimed ==
  ServedFairly /\ TargetsRemain => \A k \in Keys :
    (Idles(k) /\ st.rt.prog[k].status = "Acting") ~> ~Idles(k)

(* Programs, decisions, placements, counters and queues agree between any *)
(* two lock sections of acquire, completion, tick, sync and cancellation. *)
SchedulerIsConsistent ==
  /\ TypeOK
  /\ DecisionPerProgram
  /\ PlacementIsKnown
  /\ QueuesAreExact
  /\ GlobalQueueIsExact
  /\ InFlightExact

(* Whoever waits is woken, and whoever is idle has a deadline, in every   *)
(* state; and no step takes from a request its task or from a waiter its  *)
(* force-resume deadline, or lets a request of binding_only wait, but the *)
(* two losses of a target named above.                                    *)
NobodyWaitsInVain ==
  /\ [](NoLostWakeup /\ IdleHasDeadline)
  /\ [][OnlyNoTargetsOrphans /\ WaitersKeepTheirDeadline /\ BindingNeverWaits]_vars

(* What a cycle of admissions may never do: move a Program from its home  *)
(* outside the global queue, or seat an ordinary Program beyond the       *)
(* Program count.                                                         *)
AdmissionsAreOrderly == [][ResumesAtHome /\ ForcedFirst]_vars

(* Nothing a completed request leaves with the scheduler is held for      *)
(* ever, with targets that come and go: every acquire returns and every   *)
(* acting Program is reclaimed once it is idle.                           *)
NothingIsKeptForEver == AcquireReturns /\ ActingIsReclaimed
=============================================================================
