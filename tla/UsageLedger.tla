----------------------------- MODULE UsageLedger ----------------------------
(***************************************************************************)
(* The token ledger of the Program scheduler: what a target is said to use *)
(* is the last backend observation plus the router's own transitions since *)
(* it was started.  One observation loop begins an epoch, scrapes without  *)
(* the lock, and applies what it got; admissions, completions, pauses,     *)
(* cancellations, releases and target snapshots happen in between.         *)
(*                                                                         *)
(* A program is its private tokens (context, shared prefix and output      *)
(* reservation as one number), its placement and its requests.  obs[t] is  *)
(* the entry of t in the observations map: {} when there is none.          *)
(***************************************************************************)
EXTENDS Integers, FiniteSets, FiniteSetsExt, Functions

CONSTANTS
  LedgerTargets,    \* target ids
  LedgerPrograms,   \* programs of one model pool
  LedgerTokens,     \* program -> its private token counts
  Scrapes,          \* replies of a backend: {} or one native use, and running requests
  Nowhere,          \* no placement
  MaxRevision,      \* bound on target snapshots
  MaxInFlight,      \* bound on the requests of a program in flight
  MaxDrift          \* bound on what arrivals leave out of the ledger

ASSUME LedgerAssumption ==
  /\ IsFiniteSet(LedgerPrograms) /\ Nowhere \notin LedgerTargets
  /\ LedgerTokens \in [LedgerPrograms -> SUBSET Nat]
  /\ Scrapes \subseteq [native : SUBSET Nat, running : Nat]

VARIABLES
  known,      \* targets of the snapshot, with its revision
  obs,        \* observations
  prog,       \* the programs the runtime and the decisions hold
  epoch,      \* the observation in flight: {} or one epoch
  ghost       \* per target and life: all adjustments, the observed mark,
              \* arrival changes that were not adjusted, the snapshot
              \* that began the life and the snapshot last observed

ledgerVars == <<known, obs, prog, epoch, ghost>>

NoObservation == [est |-> {}, delta |-> 0, at |-> "never"]

Gone == [state |-> "gone", at |-> Nowhere, busy |-> 0, queued |-> 0, tokens |-> 0,
         pauseWhenIdle |-> FALSE]

NewLife(r) == [log |-> 0, mark |-> 0, left |-> 0, since |-> r, seen |-> {}]

LedgerInit ==
  /\ known = [ids |-> LedgerTargets, revision |-> 0]
  /\ obs = [t \in LedgerTargets |-> {NoObservation}]
  /\ prog = [p \in LedgerPrograms |-> Gone]
  /\ epoch = {}
  /\ ghost = [t \in LedgerTargets |-> NewLife(0)]

-----------------------------------------------------------------------------
(* entry(target).or_default().active_program_token_delta += tokens          *)
Entry(t) == IF obs[t] = {} THEN NoObservation ELSE CHOOSE o \in obs[t] : TRUE

Adjusted(t, n) ==
  /\ obs' = [obs EXCEPT ![t] = {[Entry(t) EXCEPT !.delta = @ + n]}]
  /\ ghost' = [ghost EXCEPT ![t].log = @ + n]

Unadjusted == UNCHANGED <<obs, ghost>>

Placed(t) == {p \in LedgerPrograms : prog[p].state = "active" /\ prog[p].at = t}

PrivateTokens(P) == SumFunctionOnSet([p \in LedgerPrograms |-> prog[p].tokens], P)

Reasoning(p) == prog[p].busy + prog[p].queued > 0

Paused(r) == [r EXCEPT !.state = "paused", !.at = Nowhere, !.pauseWhenIdle = FALSE]

-----------------------------------------------------------------------------
(* A request arrives.  The decision takes the new context and reservation;  *)
(* only growth is accounted, and only when no pause is pending.             *)
AccountGrowth(r, n) == ~r.pauseWhenIdle /\ n > r.tokens

LedgerArrive(p, n) ==
  LET r == prog[p]
      change == n - r.tokens
      placed == r.state = "active"
  IN /\ r.queued = 0
     /\ prog' = [prog EXCEPT ![p].queued = 1, ![p].tokens = n,
                             ![p].state = IF @ = "gone" THEN "paused" ELSE @]
     /\ \/ placed /\ AccountGrowth(r, n) /\ Adjusted(r.at, change)
        \/ /\ placed /\ ~AccountGrowth(r, n)
           /\ ghost[r.at].left + change \in -MaxDrift .. MaxDrift
           /\ ghost' = [ghost EXCEPT ![r.at].left = @ + change]
           /\ UNCHANGED obs
        \/ ~placed /\ Unadjusted
     /\ UNCHANGED <<known, epoch>>

(* commit_admission                                                         *)
LedgerAdmit(p, t) ==
  /\ prog[p].state = "paused" /\ prog[p].queued > 0 /\ t \in known.ids
  /\ prog' = [prog EXCEPT ![p].state = "active", ![p].at = t, ![p].pauseWhenIdle = FALSE]
  /\ Adjusted(t, prog[p].tokens)
  /\ UNCHANGED <<known, epoch>>

LedgerDispatch(p) ==
  /\ prog[p].state = "active" /\ prog[p].queued > 0 /\ prog[p].busy < MaxInFlight
  /\ prog' = [prog EXCEPT ![p].queued = @ - 1, ![p].busy = @ + 1]
  /\ Unadjusted /\ UNCHANGED <<known, epoch>>

(* Capacity repair defers the pause of a busy program.                      *)
LedgerDefer(p) ==
  /\ prog[p].busy > 0
  /\ prog' = [prog EXCEPT ![p].pauseWhenIdle = TRUE]
  /\ Unadjusted /\ UNCHANGED <<known, epoch>>

(* cancel_retained_request: the last request of an idle active program      *)
(* pauses it.                                                               *)

LedgerCancel(p) ==
  LET idle == prog[p].state = "active" /\ prog[p].busy = 0
      r == IF idle THEN Paused(prog[p]) ELSE prog[p]
  IN
  /\ prog[p].queued > 0
  /\ prog' = [prog EXCEPT ![p] = [r EXCEPT !.queued = 0]]
  /\ IF idle THEN Adjusted(prog[p].at, - prog[p].tokens) ELSE Unadjusted
  /\ UNCHANGED <<known, epoch>>

(* complete: the difference is accounted while the program is active; then  *)
(* it may terminate or yield its place, which gives the tokens back.        *)
LedgerComplete(p, n) ==
  LET r == [prog[p] EXCEPT !.busy = @ - 1, !.tokens = n,
                           !.pauseWhenIdle = @ /\ ~(prog[p].busy = 1 /\ prog[p].queued > 0)]
      t == prog[p].at
  IN /\ prog[p].busy > 0
     /\ \/ prog' = [prog EXCEPT ![p] = r] /\ Adjusted(t, n - prog[p].tokens)
        \/ r.busy = 0 /\ r.queued = 0 /\ prog' = [prog EXCEPT ![p] = Gone] /\ Adjusted(t, - prog[p].tokens)
        \/ r.busy = 0 /\ prog' = [prog EXCEPT ![p] = Paused(r)] /\ Adjusted(t, - prog[p].tokens)
     /\ UNCHANGED <<known, epoch>>

(* pause_idle, from a deadline or capacity repair                           *)
LedgerPause(p) ==
  /\ prog[p].state = "active" /\ prog[p].busy = 0
  /\ prog' = [prog EXCEPT ![p] = Paused(@)]
  /\ Adjusted(prog[p].at, - prog[p].tokens)
  /\ UNCHANGED <<known, epoch>>

(* release_program of an idle program                                       *)
LedgerRelease(p) ==
  /\ prog[p].state # "gone" /\ prog[p].busy = 0 /\ prog[p].queued = 0
  /\ prog' = [prog EXCEPT ![p] = Gone]
  /\ IF prog[p].state = "active" THEN Adjusted(prog[p].at, - prog[p].tokens) ELSE Unadjusted
  /\ UNCHANGED <<known, epoch>>

-----------------------------------------------------------------------------
(* invalidate_placement of the programs on targets that disappeared         *)

Invalidated(r, removed) ==
  IF r.state = "active" /\ r.at \in removed THEN [Paused(r) EXCEPT !.busy = 0] ELSE r

(* sync_target_snapshot_locked                                              *)
LedgerSync(T) ==
  LET removed == known.ids \ T IN
  /\ T # known.ids /\ known.revision < MaxRevision
  /\ known' = [ids |-> T, revision |-> known.revision + 1]
  /\ obs' = [t \in LedgerTargets |-> IF t \in removed THEN {}
                                     ELSE IF t \in T THEN {Entry(t)} ELSE obs[t]]
  /\ prog' = [p \in LedgerPrograms |-> Invalidated(prog[p], removed)]
  /\ ghost' = [t \in LedgerTargets |->
                IF t \in T \cap known.ids THEN ghost[t] ELSE NewLife(known.revision + 1)]
  /\ UNCHANGED epoch

-----------------------------------------------------------------------------
(* begin_observation                                                        *)
Checkpoint(t) ==
  LET reasoning == {p \in Placed(t) : Reasoning(p)} IN
  [ledger |-> Entry(t).delta,
   programs |-> Cardinality(reasoning),
   reasoningTokens |-> PrivateTokens(reasoning),
   actingTokens |-> PrivateTokens(Placed(t) \ reasoning),
   log |-> ghost[t].log]

BeginObservation ==
  /\ epoch = {}
  /\ epoch' = {[revision |-> known.revision, ids |-> known.ids,
                at |-> [t \in LedgerTargets |-> Checkpoint(t)]]}
  /\ UNCHANGED <<known, obs, prog, ghost>>

(* The tokens of reasoning programs, scaled to the programs the backend     *)
(* does not run at the moment.                                              *)
EstimatedReasoning(native, s, c) ==
  IF s.running > 0 THEN (native * Max({c.programs, s.running})) \div s.running
  ELSE IF c.programs > 0 THEN c.reasoningTokens
  ELSE native

DeltaReset(o, c) == 0   \* mutant: a new observation forgets what happened during the scrape

DeltaAfter(o, c) == o.delta - c.ledger

EpochIsCurrent(e) == e.revision = known.revision

(* apply_observations: got is what the scrape brought, a target at most one *)
(* reply.                                                                   *)
ApplyObservations(got) ==
  \E e \in epoch :
    LET hit(t) == EpochIsCurrent(e) /\ t \in DOMAIN got \cap e.ids \cap known.ids
        c(t) == e.at[t]
    IN /\ obs' = [t \in LedgerTargets |->
                   IF hit(t)
                   THEN {[est |-> {EstimatedReasoning(n, got[t], c(t)) + c(t).actingTokens : n \in got[t].native},
                          delta |-> DeltaAfter(Entry(t), c(t)), at |-> "fresh"]}
                   ELSE obs[t]]
       /\ ghost' = [t \in LedgerTargets |->
                     IF hit(t) THEN [ghost[t] EXCEPT !.mark = c(t).log, !.seen = {e.revision}]
                     ELSE ghost[t]]
       /\ epoch' = {}
       /\ UNCHANGED <<known, prog>>

(* Three intervals pass without an observation of t.                        *)
ObservationAges(t) ==
  /\ \E o \in obs[t] : o.at = "fresh"
  /\ obs' = [obs EXCEPT ![t] = {[Entry(t) EXCEPT !.at = "stale"]}]
  /\ UNCHANGED <<known, prog, epoch, ghost>>

-----------------------------------------------------------------------------
(* observed_target_usage: none without a fresh estimate                     *)
Usage(o) == {Max({n + o.delta, 0}) : n \in o.est}

ObservedTargetUsage(t) == UNION {Usage(o) : o \in {x \in obs[t] : x.at = "fresh"}}

(* capacity_accounting_source, reported once per change                     *)
CapacityAccountingSource(t) ==
  IF obs[t] = {} \/ Entry(t).at = "never" THEN "missing observation"
  ELSE IF Entry(t).at = "stale" THEN "stale observation"
  ELSE IF Entry(t).est = {} THEN "missing estimate"
  ELSE "backend"

LedgerNext ==
  \/ \E p \in LedgerPrograms : \E n \in LedgerTokens[p] : LedgerArrive(p, n) \/ LedgerComplete(p, n)
  \/ \E p \in LedgerPrograms, t \in LedgerTargets : LedgerAdmit(p, t)
  \/ \E p \in LedgerPrograms :
       \/ LedgerDispatch(p) \/ LedgerDefer(p) \/ LedgerCancel(p)
       \/ LedgerPause(p) \/ LedgerRelease(p)
  \/ \E T \in SUBSET LedgerTargets : LedgerSync(T)
  \/ BeginObservation
  \/ \E T \in SUBSET LedgerTargets : \E got \in [T -> Scrapes] : ApplyObservations(got)
  \/ \E t \in LedgerTargets : ObservationAges(t)

LedgerSpec == LedgerInit /\ [][LedgerNext]_ledgerVars

-----------------------------------------------------------------------------
(* "Install raw observations and preserve transitions committed during      *)
(* I/O": the delta of a target is exactly what was adjusted since the       *)
(* observation in force began, neither lost nor counted twice.              *)
TransitionsSurviveObservation ==
  \A t \in LedgerTargets : \A o \in obs[t] : o.delta = ghost[t].log - ghost[t].mark

(* apply_observations drops an epoch of another snapshot: no target that    *)
(* went and came back is credited with a scrape begun in its earlier life.  *)
NoObservationOfAnEarlierLife ==
  \A t \in known.ids : \A r \in ghost[t].seen : r >= ghost[t].since

(* adjust_usage creates the entry it does not find: no completion, pause or *)
(* release after the removal of a target brings its observation back.       *)
OnlyKnownTargetsAreObserved == {t \in LedgerTargets : obs[t] # {}} = known.ids

(* admit, complete, pause, cancel and release balance: what the adjustments *)
(* of a target sum up to is what its active programs hold, up to the        *)
(* changes that arrivals leave out.                                         *)
LedgerBalances ==
  \A t \in known.ids : ghost[t].log + ghost[t].left = PrivateTokens(Placed(t))

(* report_capacity_accounting_transitions: the source the operator is told  *)
(* of is the one admission uses, after any mix of failed and partial        *)
(* scrapes, ageing and target changes.                                      *)
SourceIsTheOneUsed ==
  \A t \in known.ids :
    (CapacityAccountingSource(t) = "backend") <=> (ObservedTargetUsage(t) # {})

(* The token ledger: every adjustment counts once, under the observation  *)
(* it belongs to, for a target that exists, and the operator is told      *)
(* which source is in use.                                                *)
LedgerIsExact ==
  /\ TransitionsSurviveObservation
  /\ NoObservationOfAnEarlierLife
  /\ OnlyKnownTargetsAreObserved
  /\ LedgerBalances
  /\ SourceIsTheOneUsed
=============================================================================
