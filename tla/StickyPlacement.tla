-------------------------- MODULE StickyPlacement ---------------------------
(***************************************************************************)
(* Three places that remember where work belongs: the parent forest of a   *)
(* pool, the home table, and the cached ring of the consistent-hash policy.*)
(*                                                                         *)
(* The parent forest of one model pool: every program points at itself, at *)
(* a declared parent or at a declared root, and a lookup points the path   *)
(* it walked at the root it found.                                         *)
(***************************************************************************)
EXTENDS Integers, FiniteSets, Sequences, Functions, FiniteSetsExt, Folds

CONSTANT Agents        \* program ids of the pool

VARIABLE parents       \* a function on the programs that were mentioned

LineageInit == parents = [p \in {} |-> p]

(* entry(p).or_insert(p) for every p of P                                   *)
WithEntries(up, P) == [p \in DOMAIN up \cup P |-> IF p \in DOMAIN up THEN up[p] ELSE p]

(* Where a walk from p is after n steps.                                    *)
Walk(up, p, n) ==
  LET at[i \in 0 .. n] == IF i = 0 THEN p
                          ELSE IF at[i - 1] \in DOMAIN up THEN up[at[i - 1]] ELSE at[i - 1]
  IN at[n]

Steps(up) == Cardinality(DOMAIN up) + 1

(* would_cycle: the walk from the proposed parent meets the child.          *)
WouldCycle(up, child, parent) == \E n \in 0 .. Steps(up) - 1 : Walk(up, parent, n) = child

(* One declared fact; none is the program itself.                           *)
Declared(up, p, above) ==
  LET e == WithEntries(up, {above}) IN
  IF above = p \/ WouldCycle(e, p, above) THEN e ELSE [e EXCEPT ![p] = above]

(* root_readonly: at most one step per entry, and one more.                 *)
RootReadonly(up, p) == Walk(up, p, Steps(up))

(* root: the walk of the while loop, and the compression of its path.  A    *)
(* walk in a circle never comes to the compression.                         *)
Compressed(up, p) ==
  LET e == WithEntries(up, {p})
      root == RootReadonly(e, p)
      path == {Walk(e, p, n) : n \in 0 .. Steps(e)}
  IN [q \in DOMAIN e |-> IF q \in path /\ e[root] = root THEN root ELSE e[q]]

(* observe                                                                  *)
Observe(p, parent, root) ==
  LET e == WithEntries(parents, {p}) IN
  parents' = Compressed(Declared(Declared(e, p, parent), p, root), p)

LookUpRoot(p) == parents' = Compressed(parents, p)

LineageNext ==
  \/ \E p, parent, root \in Agents : Observe(p, parent, root)
  \/ \E p \in Agents : LookUpRoot(p)

LineageSpec == LineageInit /\ [][LineageNext]_parents

-----------------------------------------------------------------------------
(* root has no bound on its while loop: whatever parents and roots were     *)
(* declared, in any order, every walk ends at a program that is its own     *)
(* parent.                                                                  *)
EveryWalkEnds ==
  \A p \in DOMAIN parents :
    \E n \in 0 .. Cardinality(DOMAIN parents) : LET q == Walk(parents, p, n) IN parents[q] = q

(* root compresses the path it walked: a lookup changes the root of no      *)
(* program, neither of the ones on the path nor of those below it.          *)
LookupsMoveNoRoot ==
  (\E p \in Agents : LookUpRoot(p)) =>
    \A q \in Agents : RootReadonly(parents', q) = RootReadonly(parents, q)

-----------------------------------------------------------------------------
(***************************************************************************)
(* The home table of the Program scheduler: one binding per program of a   *)
(* model pool, made by the configured policy and kept while its target is  *)
(* there.  The hash policy keeps one ring per pool, the round-robin policy *)
(* one counter per pool.  Calls are serialised by the scheduler's lock.    *)
(***************************************************************************)

CONSTANTS
  Pools,          \* model pools
  Homes,          \* target ids: numbers, ordered like the code's strings
  Bound,          \* programs: <<pool, id>>
  KeyHash,        \* position of a program's placement key on the ring
  Points,         \* ring position -> target of its virtual node
  NoHome,         \* no binding
  Unseen,         \* a program the scheduler holds no decision of
  MaxTurn         \* bound on the round-robin counter

VARIABLES
  strategy,       \* the configured policy
  homes,          \* targets of each pool's snapshot
  binding,        \* program -> target
  last,           \* program -> last_target of its decision, Unseen without one
  rings,          \* pool -> {} or the cached target list and its ring
  turn            \* pool -> next_by_model

bindingVars == <<strategy, homes, binding, last, rings, turn>>

(* Two of the five strategies: those whose choice rests on what earlier     *)
(* choices left, the rings and the counters.  WorkerChoice has the others.  *)
BindingInit ==
  /\ strategy \in {"hash", "round_robin"}
  /\ homes = [q \in Pools |-> Homes]
  /\ binding = [p \in Bound |-> NoHome]
  /\ last = [p \in Bound |-> Unseen]
  /\ rings = [q \in Pools |-> {}]
  /\ turn = [q \in Pools |-> 0]

PoolOf(p) == p[1]

ASSUME HomesAssumption ==
  /\ IsFiniteSet(Homes) /\ Homes \subseteq Int
  /\ IsFiniteSet(DOMAIN Points) /\ DOMAIN Points \subseteq Int
  /\ IsFiniteSet(Bound) /\ \A p \in Bound : PoolOf(p) \in Pools

(* The ring of a target list, and the cached one when the list is the same. *)
NewRing(T) == [targets |-> T, ring |-> [i \in {j \in DOMAIN Points : Points[j] \in T} |-> Points[i]]]

KeepsAnyRing(cached, T) ==   \* mutant: a ring is built once per pool
  IF cached # {} THEN CHOOSE r \in cached : TRUE ELSE NewRing(T)

RingFor(cached, T) ==
  IF \E r \in cached : r.targets = T THEN CHOOSE r \in cached : TRUE ELSE NewRing(T)

RingSuccessor(ring, h) ==
  LET above == {i \in DOMAIN ring : i >= h} IN
  IF DOMAIN ring = {} THEN NoHome
  ELSE ring[IF above # {} THEN Min(above) ELSE Min(DOMAIN ring)]

(* The n-th of the sorted candidates, counted from 0.                       *)
Nth(T, n) == CHOOSE t \in T : Cardinality({u \in T : u < t}) = n

(* policy.select over sorted candidates: the choice and the policy's state. *)
Selected(p, T, st) ==
  IF strategy = "hash"
  THEN LET r == RingFor(st.ring, T) IN
       [st EXCEPT !.home = RingSuccessor(r.ring, KeyHash[p]), !.ring = {r}]
  ELSE IF T = {} THEN [st EXCEPT !.home = NoHome]
  ELSE [st EXCEPT !.home = Nth(T, st.turn % Cardinality(T)), !.turn = @ + 1]

KeepsHome(b, T) == b \in T

(* bind: a live binding stays, else the policy chooses; a choice is stored. *)
Bind(p, T, st) ==
  IF KeepsHome(st.binding[p], T) THEN [st EXCEPT !.home = st.binding[p]]
  ELSE LET s == Selected(p, T, st) IN
       IF s.home = NoHome THEN s ELSE [s EXCEPT !.binding[p] = s.home]

Table(q) == [binding |-> binding, home |-> NoHome, ring |-> rings[q], turn |-> turn[q]]

Stored(q, st) ==
  /\ st.turn <= MaxTurn
  /\ binding' = st.binding
  /\ rings' = [rings EXCEPT ![q] = st.ring]
  /\ turn' = [turn EXCEPT ![q] = st.turn]

(* ensure_decision_state of a new program                                   *)
BindNew(p) ==
  LET q == PoolOf(p)
      st == Bind(p, homes[q], Table(q))
  IN /\ last[p] = Unseen
     /\ Stored(q, st)
     /\ last' = [last EXCEPT ![p] = st.home]
     /\ UNCHANGED <<strategy, homes>>

(* commit_admission may place a program away from its home.                 *)
PlaceAt(p, t) ==
  /\ last[p] # Unseen /\ t \in homes[PoolOf(p)]
  /\ last' = [last EXCEPT ![p] = t]
  /\ UNCHANGED <<strategy, homes, binding, rings, turn>>

(* release_program                                                          *)
ReleaseProgram(p) ==
  /\ last[p] # Unseen
  /\ binding' = [binding EXCEPT ![p] = NoHome]
  /\ last' = [last EXCEPT ![p] = Unseen]
  /\ UNCHANGED <<strategy, homes, rings, turn>>

(* remove_target of every target that left                                  *)
WithoutTargets(b, removed) == IF b \in removed THEN NoHome ELSE b

RebindsAll(p, T) == last[p] # Unseen   \* mutant: a snapshot rebinds every program of its pool

NeedsRebinding(p, T) == last[p] # Unseen /\ last[p] \notin T

Rebound(T, st, p) == Bind(p, T, [st EXCEPT !.binding[p] = NoHome])

(* The loop over the programs to bind again.                                *)
RebindInOrder(T, base, order) ==
  MapThenFoldSet(LAMBDA p, st : Rebound(T, st, p), base, LAMBDA i : order[i], Max, DOMAIN order)

(* A new snapshot: bindings of the removed targets go, and every program    *)
(* whose last target is not in it is released and bound again, in the       *)
(* order the map yields them.                                               *)
SyncHomes(q, T) ==
  LET affected == {p \in Bound : PoolOf(p) = q /\ NeedsRebinding(p, T)}
      kept == [p \in Bound |-> IF p \in affected THEN NoHome
                               ELSE WithoutTargets(binding[p], homes[q] \ T)]
  IN /\ T # homes[q]
     /\ homes' = [homes EXCEPT ![q] = T]
     /\ \E order \in Injection(1 .. Cardinality(affected), affected) :
          LET st == RebindInOrder(T, [Table(q) EXCEPT !.binding = kept], order) IN
          /\ Stored(q, st)
          /\ last' = [p \in Bound |-> IF p \in affected THEN st.binding[p] ELSE last[p]]
     /\ UNCHANGED strategy

BindingNext ==
  \/ \E p \in Bound : BindNew(p) \/ ReleaseProgram(p)
  \/ \E p \in Bound, t \in Homes : PlaceAt(p, t)
  \/ \E q \in Pools : \E T \in SUBSET Homes : SyncHomes(q, T)

BindingSpec == BindingInit /\ [][BindingNext]_bindingVars

-----------------------------------------------------------------------------
(* bind, remove_target and the ring cache: no program is bound to a target  *)
(* outside the snapshot of its pool, also when the ring was built for an    *)
(* older list or for another pool.                                          *)
BindingsAreLive == \A p \in Bound : binding[p] \in homes[PoolOf(p)] \cup {NoHome}

(* "Return an existing binding": a program goes from one home to another    *)
(* only when its home or its last target left, never because others came,   *)
(* went or were bound.                                                      *)
HomesAreSticky ==
  \A p \in Bound :
    binding[p] # NoHome /\ binding'[p] \notin {NoHome, binding[p]} =>
      ~({binding[p], last[p]} \subseteq homes'[PoolOf(p)])

-----------------------------------------------------------------------------
(***************************************************************************)
(* The cached ring of the consistent-hash policy under concurrent          *)
(* requests.  One policy object serves several worker lists: the prefill   *)
(* and the decode list when the roles have no policy of their own, the     *)
(* lists before and after a worker change.  A request compares its list    *)
(* with current_workers, replaces the ring, replaces current_workers and   *)
(* looks its key up: four critical sections of two locks.                  *)
(***************************************************************************)

CONSTANTS
  Requests,     \* concurrent selections, each with a list of worker numbers
  ListOf,       \* request -> the worker list it selects from
  Position,     \* ring position of the virtual nodes of each worker
  KeyAt,        \* ring position of the key of all requests
  Turn          \* number of ring positions

VARIABLES
  ring,         \* hash_ring: the workers it was built from
  current,      \* current_workers
  well,         \* workers that are healthy and whose breaker lets them execute
  at,           \* request -> step of its selection
  healthy,      \* request -> the healthy workers of its list, as it saw them
  chosen        \* request -> the worker it selected, 0 before and for none

ringVars == <<ring, current, well, at, healthy, chosen>>

RingInit ==
  /\ ring = {} /\ current = <<>>
  /\ well \in SUBSET DOMAIN Position
  /\ at = [r \in Requests |-> "start"]
  /\ healthy = [r \in Requests |-> <<>>]
  /\ chosen = [r \in Requests |-> 0]

InList(w, l) == \E i \in DOMAIN l : l[i] = w

Go(r, from, to) == at[r] = from /\ at' = [at EXCEPT ![r] = to]

(* get_healthy_worker_indices, and the early return without any             *)
Begin(r) ==
  LET up == SelectSeq(ListOf[r], LAMBDA w : w \in well) IN
  /\ Go(r, "start", IF up = <<>> THEN "done" ELSE "compare")
  /\ healthy' = [healthy EXCEPT ![r] = up]
  /\ UNCHANGED <<ring, current, well, chosen>>

Compare(r) ==
  /\ Go(r, "compare", IF current = ListOf[r] THEN "find" ELSE "ring")
  /\ UNCHANGED <<ring, current, well, healthy, chosen>>

WriteRing(r) ==
  /\ Go(r, "ring", "current")
  /\ ring' = {ListOf[r][i] : i \in DOMAIN ListOf[r]}
  /\ UNCHANGED <<current, well, healthy, chosen>>

WriteCurrent(r) ==
  /\ Go(r, "current", "find")
  /\ current' = ListOf[r]
  /\ UNCHANGED <<ring, well, healthy, chosen>>

(* The worker of the first virtual node at or after the key, with a wrap.   *)
Successor(W) ==
  LET key(w) == IF Position[w] >= KeyAt THEN Position[w] ELSE Position[w] + Turn
  IN CHOOSE w \in W : \A v \in W : key(w) <= key(v)

Usable(r, w) == InList(w, ListOf[r]) /\ w \in well

(* find_worker_by_hash and the choice: the target when it is in the list    *)
(* and available now, else the first healthy worker of the beginning.       *)
Choose(r) ==
  LET w == Successor(ring) IN
  /\ Go(r, "find", "done")
  /\ chosen' = [chosen EXCEPT ![r] = IF ring # {} /\ Usable(r, w) THEN w ELSE healthy[r][1]]
  /\ UNCHANGED <<ring, current, well, healthy>>

(* Health checks and breakers change.                                       *)
HealthChanges(w) ==
  /\ well' = IF w \in well THEN well \ {w} ELSE well \cup {w}
  /\ UNCHANGED <<ring, current, at, healthy, chosen>>

Selecting(r) == Begin(r) \/ Compare(r) \/ WriteRing(r) \/ WriteCurrent(r) \/ Choose(r)

RingNext ==
  \/ \E r \in Requests : Selecting(r)
  \/ \E w \in DOMAIN Position : HealthChanges(w)

-----------------------------------------------------------------------------
(* select_worker_with_headers: whatever list the ring was built from, the   *)
(* answer is a worker of the request's own list that was available when the *)
(* selection began or when it ended; none only when none was available.     *)
ChoiceIsOfTheOwnList ==
  \A r \in Requests : at[r] = "find" /\ at'[r] = "done" =>
    /\ InList(chosen'[r], ListOf[r])
    /\ chosen'[r] \in well \/ InList(chosen'[r], healthy[r])

(* "ensuring that requests from the same user/session consistently go to    *)
(* the same worker": while all workers stay available, two requests with    *)
(* the same key and the same list select the same worker.                   *)
SameKeySameWorker ==
  \A r, s \in Requests :
    at[r] = "done" /\ at[s] = "done" /\ ListOf[r] = ListOf[s] => chosen[r] = chosen[s]

(* Lineage and home table: every walk to a root ends, and no Program is   *)
(* bound to a target that left.                                           *)
HomesAreLive == EveryWalkEnds /\ BindingsAreLive
=============================================================================
