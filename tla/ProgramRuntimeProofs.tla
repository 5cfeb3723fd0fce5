------------------------ MODULE ProgramRuntimeProofs ------------------------
(***************************************************************************)
(* Proofs about the Program runtime for any number of Programs, targets,   *)
(* requests and placements.                                                *)
(*                                                                         *)
(* The first part states what each method does to the fields of the        *)
(* runtime; the second proves the type invariant; the third proves the     *)
(* inductive invariant IInv, from which the safety properties follow; the  *)
(* fourth proves, action by action, that the runtime implements            *)
(* ProgramLifecycle.                                                       *)
(***************************************************************************)
EXTENDS ProgramRuntime, FiniteSetTheorems, TLAPS

-----------------------------------------------------------------------------
(* The fields of a runtime have their types.                               *)
LEMMA RuntimeFields ==
  ASSUME NEW s \in Runtime
  PROVE  /\ s.prog \in [Keys -> RuntimeProgram]
         /\ s.lastGen \in [Keys -> Nat \cup {NoGeneration}]
         /\ s.released \subseteq Keys
         /\ s.pool \subseteq Request
         /\ s.nextId \in Nat /\ s.nextEpoch \in Nat
BY Zenon DEF Runtime

(* u differs from s, as far as Programs go, in Program k only.             *)
OnlyProgram(s, u, k) == u \in Runtime /\ u.prog = [s.prog EXCEPT ![k] = u.prog[k]]

(* What storing one program record changes.                                *)
LEMMA StoreFacts ==
  ASSUME NEW s \in Runtime, NEW k \in Keys, NEW q \in RuntimeProgram
  PROVE  LET u == SetProgram(s, k, q) IN
         /\ OnlyProgram(s, u, k) /\ u.prog[k] = q
         /\ u.lastGen = s.lastGen /\ u.released = s.released /\ u.pool = s.pool
         /\ u.nextId = s.nextId /\ u.nextEpoch = s.nextEpoch
<1> DEFINE P == [s.prog EXCEPT ![k] = q]
           u == [s EXCEPT !.prog = P]
<1>1. P \in [Keys -> RuntimeProgram] /\ P[k] = q
  BY RuntimeFields, Zenon
<1>2. SetProgram(s, k, q) = u
  BY Zenon DEF SetProgram
<1> HIDE DEF P
<1>3. u \in Runtime /\ u.prog = P
  BY <1>1, Zenon DEF Runtime
<1>4. /\ u.lastGen = s.lastGen /\ u.released = s.released /\ u.pool = s.pool
      /\ u.nextId = s.nextId /\ u.nextEpoch = s.nextEpoch
  BY Zenon DEF Runtime
<1> HIDE DEF u
<1>5. u.prog = [s.prog EXCEPT ![k] = u.prog[k]]
  BY <1>1, <1>3, Zenon DEF P
<1> QED BY <1>1, <1>2, <1>3, <1>4, <1>5, Zenon DEF OnlyProgram

(* retain_request.                                                         *)
LEMMA RetainFacts ==
  ASSUME NEW s \in Runtime, NEW k \in Keys
  PROVE  LET u == RetainRequest(s, k)
             p == s.prog[k]
             q == u.prog[k]
         IN /\ OnlyProgram(s, u, k)
            /\ q.live /\ q.status = "Reasoning"
            /\ p.live => /\ q.gen = p.gen /\ q.state = p.state /\ q.placement = p.placement
                         /\ q.epoch = p.epoch /\ q.inFlight = p.inFlight
            /\ ~p.live => q.state = "Paused" /\ q.placement = NoTarget /\ q.epoch = 0 /\ q.inFlight = 0
            /\ u.pool = s.pool \cup {[key |-> k, gen |-> q.gen, id |-> s.nextId + 1]}
            /\ u.nextId = s.nextId + 1
            /\ u.nextEpoch = s.nextEpoch
<1> DEFINE p == s.prog[k]
           gen == IF p.live THEN p.gen ELSE s.lastGen[k] + 1
           fresh == [NoProgram EXCEPT !.live = TRUE, !.gen = gen]
           new == [(IF p.live THEN p ELSE fresh) EXCEPT !.status = "Reasoning"]
           n == s.nextId + 1
           L == [s.lastGen EXCEPT ![k] = gen]
           R == s.released \ {k}
           Q == s.pool \cup {[key |-> k, gen |-> gen, id |-> n]}
           v == SetProgram(s, k, new)
           u == [v EXCEPT !.lastGen = L, !.released = R, !.nextId = n, !.pool = Q]
<1>1. gen \in Nat /\ n \in Nat /\ p \in RuntimeProgram
  BY RuntimeFields DEF RuntimeProgram, NoGeneration
<1>2. /\ new \in RuntimeProgram /\ new.gen = gen /\ new.live /\ new.status = "Reasoning"
      /\ p.live => /\ new.gen = p.gen /\ new.state = p.state /\ new.placement = p.placement
                   /\ new.epoch = p.epoch /\ new.inFlight = p.inFlight
      /\ ~p.live => /\ new.state = "Paused" /\ new.placement = NoTarget
                    /\ new.epoch = 0 /\ new.inFlight = 0
  <2>1. CASE p.live
    <3>1. gen = p.gen
      BY <2>1, Zenon
    <3> HIDE DEF gen, p
    <3> QED BY <1>1, <2>1, <3>1, Zenon DEF RuntimeProgram, ProgramStatus
  <2>2. CASE ~p.live
    <3> HIDE DEF gen, p
    <3>1. /\ fresh \in RuntimeProgram /\ fresh.gen = gen /\ fresh.live
          /\ fresh.state = "Paused" /\ fresh.placement = NoTarget
          /\ fresh.epoch = 0 /\ fresh.inFlight = 0
      BY <1>1, Zenon DEF RuntimeProgram, NoProgram, ProgramState, ProgramStatus
    <3> HIDE DEF fresh
    <3> QED BY <2>2, <3>1, Zenon DEF RuntimeProgram, ProgramStatus
  <2> QED BY <2>1, <2>2, Zenon
<1>3. L \in [Keys -> Nat \cup {NoGeneration}] /\ R \in SUBSET Keys /\ Q \in SUBSET Request
  <2> HIDE DEF gen, n
  <2> QED BY <1>1, RuntimeFields DEF Request
<1>4. v = [s EXCEPT !.prog = [@ EXCEPT ![k] = new]]
  BY Zenon DEF SetProgram
<1>5. RetainRequest(s, k) = u
  <2>1. v.lastGen = s.lastGen /\ v.released = s.released /\ v.pool = s.pool /\ v.nextId = s.nextId
    BY <1>2, StoreFacts
  <2>2. RetainRequest(s, k) =
          [v EXCEPT !.lastGen = [v.lastGen EXCEPT ![k] = gen], !.released = v.released \ {k},
                    !.nextId = v.nextId + 1,
                    !.pool = v.pool \cup {[key |-> k, gen |-> gen, id |-> s.nextId + 1]}]
    BY Zenon DEF RetainRequest
  <2> HIDE DEF v
  <2> QED BY <2>1, <2>2, Zenon
<1> HIDE DEF p, gen, new, n, L, R, Q
<1>6. /\ OnlyProgram(s, v, k) /\ v.prog[k] = new /\ v.nextEpoch = s.nextEpoch
  BY <1>2, StoreFacts
<1> HIDE DEF v
<1>7. u \in Runtime /\ u.prog = v.prog /\ u.pool = Q /\ u.nextId = n /\ u.nextEpoch = v.nextEpoch
  BY <1>1, <1>3, <1>6, Zenon DEF OnlyProgram, Runtime
<1> HIDE DEF u
<1> QED BY <1>2, <1>5, <1>6, <1>7 DEF OnlyProgram, n, Q, p

(* admit_front refuses.                                                    *)
LEMMA RefuseFacts ==
  ASSUME NEW s, NEW r, NEW t, ~Admits(s, r, t)
  PROVE  AdmitFront(s, r, t) = s /\ DispatchOf(s, r, t) = {}
BY Zenon DEF AdmitFront, DispatchOf

(* admit_front places the Program.                                         *)
LEMMA PlacedFacts ==
  ASSUME NEW s \in Runtime, NEW r \in s.pool, NEW t \in Targets
  PROVE  LET p == s.prog[r.key]
             placed == PlacedForAdmission(s, r, t)
         IN /\ placed \in RuntimeProgram
            /\ (p.live => placed.live) /\ placed.gen = p.gen
            /\ placed.status = p.status /\ placed.inFlight = p.inFlight
            /\ p.state = "Paused" => /\ placed.state = "Active" /\ placed.placement = t
                                     /\ placed.epoch = s.nextEpoch + 1
            /\ p.state # "Paused" => /\ placed.state = p.state /\ placed.placement = p.placement
                                     /\ placed.epoch = p.epoch
<1> DEFINE p == s.prog[r.key]
           e == s.nextEpoch + 1
           placed == PlacedForAdmission(s, r, t)
<1>1. p \in RuntimeProgram /\ e \in Nat
  BY RuntimeFields DEF Request
<1>2. placed = IF p.state = "Paused"
               THEN [p EXCEPT !.state = "Active", !.placement = t, !.epoch = e, !.pending = FALSE]
               ELSE [p EXCEPT !.pending = FALSE]
  BY Zenon DEF PlacedForAdmission
<1> HIDE DEF placed, p
<1>3. /\ placed \in RuntimeProgram
      /\ (p.live => placed.live) /\ placed.gen = p.gen
      /\ placed.status = p.status /\ placed.inFlight = p.inFlight
      /\ p.state = "Paused" => placed.state = "Active" /\ placed.placement = t /\ placed.epoch = e
      /\ p.state # "Paused" => placed.state = p.state /\ placed.placement = p.placement
                               /\ placed.epoch = p.epoch
  <2> HIDE DEF e
  <2> QED BY <1>1, <1>2, Zenon DEF RuntimeProgram, ProgramState
<1> QED BY <1>3, Zenon DEF placed, p

(* admit_front goes on.                                                    *)
LEMMA AdmitFacts ==
  ASSUME NEW s \in Runtime, NEW r \in s.pool, NEW t \in Targets, Admits(s, r, t)
  PROVE  LET u == AdmitFront(s, r, t)
             q == u.prog[r.key]
             placed == PlacedForAdmission(s, r, t)
         IN /\ OnlyProgram(s, u, r.key)
            /\ (placed.live => q.live) /\ q.gen = placed.gen /\ q.state = placed.state
            /\ q.placement = placed.placement /\ q.epoch = placed.epoch
            /\ IsFront(s, r) => /\ q.status = "Reasoning" /\ q.inFlight = placed.inFlight + 1
                                /\ u.pool = s.pool \ {r}
            /\ ~IsFront(s, r) => /\ q.status = placed.status /\ q.inFlight = placed.inFlight
                                 /\ u.pool = s.pool
            /\ s.prog[r.key].state = "Paused" => u.nextEpoch = s.nextEpoch + 1
            /\ s.prog[r.key].state # "Paused" => u.nextEpoch = s.nextEpoch
            /\ u.nextId = s.nextId
<1> DEFINE k == r.key
           e == s.nextEpoch + 1
           placed == PlacedForAdmission(s, r, t)
           m == placed.inFlight + 1
           q == IF IsFront(s, r) THEN [placed EXCEPT !.status = "Reasoning", !.inFlight = m]
                ELSE placed
           n == IF s.prog[k].state = "Paused" THEN e ELSE s.nextEpoch
           Q == IF IsFront(s, r) THEN s.pool \ {r} ELSE s.pool
           v == SetProgram(s, k, q)
           u == [v EXCEPT !.nextEpoch = n, !.pool = Q]
<1>1. k \in Keys /\ e \in Nat /\ n \in Nat /\ Q \in SUBSET Request
  BY RuntimeFields DEF Request
<1>2. placed \in RuntimeProgram
  BY PlacedFacts, Zenon
<1>3. m \in Nat
  BY <1>2 DEF RuntimeProgram
<1>4. /\ q \in RuntimeProgram
      /\ (placed.live => q.live) /\ q.gen = placed.gen /\ q.state = placed.state
      /\ q.placement = placed.placement /\ q.epoch = placed.epoch
      /\ IsFront(s, r) => q.status = "Reasoning" /\ q.inFlight = m
      /\ ~IsFront(s, r) => q.status = placed.status /\ q.inFlight = placed.inFlight
  <2> HIDE DEF m, placed
  <2> QED BY <1>2, <1>3, Zenon DEF RuntimeProgram, ProgramStatus
<1>5. AdmitFront(s, r, t) = u
  <2>1. v.nextEpoch = s.nextEpoch /\ v.pool = s.pool
    BY <1>1, <1>4, StoreFacts
  <2>2. AdmitFront(s, r, t) =
          [v EXCEPT !.nextEpoch = IF s.prog[k].state = "Paused" THEN v.nextEpoch + 1
                                  ELSE v.nextEpoch,
                    !.pool = IF IsFront(s, r) THEN v.pool \ {r} ELSE v.pool]
    BY Zenon DEF AdmitFront
  <2> HIDE DEF v
  <2> QED BY <2>1, <2>2, Zenon
<1> HIDE DEF placed, q, n, Q
<1>6. OnlyProgram(s, v, k) /\ v.prog[k] = q /\ v.nextId = s.nextId
  BY <1>1, <1>4, StoreFacts, Zenon
<1> HIDE DEF v
<1>7. u \in Runtime /\ u.prog = v.prog /\ u.pool = Q /\ u.nextId = v.nextId /\ u.nextEpoch = n
  BY <1>1, <1>6, Zenon DEF OnlyProgram, Runtime
<1> HIDE DEF u
<1>8. OnlyProgram(s, u, k) /\ u.prog[k] = q /\ u.nextId = s.nextId
  BY <1>6, <1>7, Zenon DEF OnlyProgram
<1>9. /\ IsFront(s, r) => u.pool = s.pool \ {r}
      /\ ~IsFront(s, r) => u.pool = s.pool
      /\ s.prog[k].state = "Paused" => u.nextEpoch = e
      /\ s.prog[k].state # "Paused" => u.nextEpoch = s.nextEpoch
  BY <1>7, Zenon DEF n, Q
<1> QED BY <1>4, <1>5, <1>8, <1>9, Zenon DEF placed

(* The dispatch admit_front returns for the front request.                 *)
LEMMA DispatchFacts ==
  ASSUME NEW s \in Runtime, NEW r \in s.pool, NEW t \in Targets, Admits(s, r, t), IsFront(s, r)
  PROVE  \E d \in Dispatch :
           /\ DispatchOf(s, r, t) = {d}
           /\ d.key = r.key /\ d.gen = r.gen /\ d.id = r.id /\ d.target = t
           /\ d.epoch = PlacedForAdmission(s, r, t).epoch
<1> DEFINE placed == PlacedForAdmission(s, r, t)
           b == s.prog[r.key].state = "Paused" \/ s.prog[r.key].pending
           d == [key |-> r.key, gen |-> r.gen, id |-> r.id, target |-> t,
                 epoch |-> placed.epoch, start |-> b]
<1>1. placed.epoch \in Nat
  BY PlacedFacts, Zenon DEF RuntimeProgram
<1>2. r \in Request
  BY RuntimeFields, Zenon
<1>3. b \in BOOLEAN
  BY Zenon
<1>4. DispatchOf(s, r, t) = {d}
  BY Zenon DEF DispatchOf
<1> HIDE DEF placed, b
<1>5. d \in Dispatch
  BY <1>1, <1>2, <1>3, Zenon DEF Dispatch, Request
<1> QED BY <1>4, <1>5, Zenon DEF placed

(* complete_request.                                                       *)
LEMMA CompleteFacts ==
  ASSUME NEW s \in Runtime, NEW d \in Dispatch
  PROVE  LET u == CompleteRequest(s, d)
             p == s.prog[d.key]
             q == u.prog[d.key]
         IN /\ ~Accepts(s, d) => u = s
            /\ Accepts(s, d) =>
                 /\ OnlyProgram(s, u, d.key)
                 /\ q.live = p.live /\ q.gen = p.gen /\ q.state = p.state
                 /\ q.placement = p.placement /\ q.epoch = p.epoch
                 /\ q.inFlight = p.inFlight - 1
                 /\ q.status = IF p.inFlight = 1 /\ Waiting(s, d.key, d.gen) = {}
                               THEN "Acting" ELSE p.status
                 /\ u.pool = s.pool /\ u.nextId = s.nextId /\ u.nextEpoch = s.nextEpoch
<1> DEFINE p == s.prog[d.key]
           m == p.inFlight - 1
           st == IF p.inFlight = 1 /\ Waiting(s, d.key, d.gen) = {} THEN "Acting" ELSE p.status
           q == [p EXCEPT !.inFlight = m, !.status = st]
<1>1. d.key \in Keys /\ p \in RuntimeProgram
  BY RuntimeFields, Zenon DEF Dispatch
<1>2. CompleteRequest(s, d) = IF ~Accepts(s, d) THEN s ELSE SetProgram(s, d.key, q)
  BY Zenon DEF CompleteRequest
<1>3. CASE Accepts(s, d)
  <2>1. m \in Nat /\ st \in ProgramStatus
    BY <1>1, <1>3 DEF Accepts, RuntimeProgram, ProgramStatus
  <2> HIDE DEF m, st
  <2>2. /\ q \in RuntimeProgram /\ q.live = p.live /\ q.gen = p.gen /\ q.state = p.state
        /\ q.placement = p.placement /\ q.epoch = p.epoch /\ q.inFlight = m /\ q.status = st
    BY <1>1, <2>1, Zenon DEF RuntimeProgram
  <2> HIDE DEF q
  <2>3. LET u == SetProgram(s, d.key, q) IN
        /\ OnlyProgram(s, u, d.key) /\ u.prog[d.key] = q
        /\ u.pool = s.pool /\ u.nextId = s.nextId /\ u.nextEpoch = s.nextEpoch
    BY <1>1, <2>2, StoreFacts
  <2> QED BY <1>2, <1>3, <2>2, <2>3, Zenon DEF m, st
<1>4. CASE ~Accepts(s, d)
  BY <1>2, <1>4, Zenon
<1> QED BY <1>3, <1>4, Zenon

(* cancel_request.                                                         *)
LEMMA CancelFacts ==
  ASSUME NEW s \in Runtime, NEW r \in s.pool
  PROVE  LET u == CancelRequest(s, r)
             p == s.prog[r.key]
             q == u.prog[r.key]
             idle == Current(s, r.key, r.gen) /\ p.inFlight = 0 /\ Waiting(s, r.key, r.gen) = {r}
         IN /\ OnlyProgram(s, u, r.key)
            /\ q.live = p.live /\ q.gen = p.gen /\ q.epoch = p.epoch /\ q.inFlight = p.inFlight
            /\ idle => q.status = "Acting" /\ q.state = "Paused" /\ q.placement = NoTarget
            /\ ~idle => q.status = p.status /\ q.state = p.state /\ q.placement = p.placement
            /\ u.pool = s.pool \ {r} /\ u.nextId = s.nextId /\ u.nextEpoch = s.nextEpoch
<1> DEFINE p == s.prog[r.key]
           idle == Current(s, r.key, r.gen) /\ p.inFlight = 0 /\ Waiting(s, r.key, r.gen) = {r}
           q == IF idle THEN [p EXCEPT !.status = "Acting", !.state = "Paused",
                                       !.placement = NoTarget]
                ELSE p
           v == SetProgram(s, r.key, q)
           Q == s.pool \ {r}
           u == [v EXCEPT !.pool = Q]
<1>1. r.key \in Keys /\ p \in RuntimeProgram /\ Q \in SUBSET Request
  BY RuntimeFields, Zenon DEF Request
<1>2. /\ q \in RuntimeProgram
      /\ q.live = p.live /\ q.gen = p.gen /\ q.epoch = p.epoch /\ q.inFlight = p.inFlight
      /\ idle => q.status = "Acting" /\ q.state = "Paused" /\ q.placement = NoTarget
      /\ ~idle => q.status = p.status /\ q.state = p.state /\ q.placement = p.placement
  <2> HIDE DEF p, idle
  <2> QED BY <1>1, Zenon DEF RuntimeProgram, ProgramState, ProgramStatus
<1>3. CancelRequest(s, r) = u
  <2>1. v.pool = s.pool
    BY <1>1, <1>2, StoreFacts, Zenon
  <2>2. CancelRequest(s, r) = [v EXCEPT !.pool = v.pool \ {r}]
    BY Zenon DEF CancelRequest
  <2> HIDE DEF v
  <2> QED BY <2>1, <2>2, Zenon
<1> HIDE DEF q, Q
<1>4. /\ OnlyProgram(s, v, r.key) /\ v.prog[r.key] = q
      /\ v.nextId = s.nextId /\ v.nextEpoch = s.nextEpoch
  BY <1>1, <1>2, StoreFacts, Zenon
<1> HIDE DEF v
<1>5. /\ u \in Runtime /\ u.prog = v.prog /\ u.pool = Q
      /\ u.nextId = v.nextId /\ u.nextEpoch = v.nextEpoch
  BY <1>1, <1>4, Zenon DEF OnlyProgram, Runtime
<1> HIDE DEF u
<1> QED BY <1>2, <1>3, <1>4, <1>5, Zenon DEF OnlyProgram, Q

(* pause_idle.                                                             *)
LEMMA PauseFacts ==
  ASSUME NEW s \in Runtime, NEW k \in Keys, CanPause(s, k)
  PROVE  LET u == PauseIdle(s, k)
             p == s.prog[k]
             q == u.prog[k]
         IN /\ OnlyProgram(s, u, k)
            /\ q.live = p.live /\ q.gen = p.gen /\ q.epoch = p.epoch /\ q.inFlight = p.inFlight
            /\ q.status = p.status /\ q.state = "Paused" /\ q.placement = NoTarget
            /\ u.pool = s.pool /\ u.nextId = s.nextId /\ u.nextEpoch = s.nextEpoch
<1> DEFINE p == s.prog[k]
           q == [p EXCEPT !.state = "Paused", !.placement = NoTarget]
<1>1. p \in RuntimeProgram
  BY RuntimeFields, Zenon
<1>2. /\ q \in RuntimeProgram
      /\ q.live = p.live /\ q.gen = p.gen /\ q.epoch = p.epoch /\ q.inFlight = p.inFlight
      /\ q.status = p.status /\ q.state = "Paused" /\ q.placement = NoTarget
  <2> HIDE DEF p
  <2> QED BY <1>1, Zenon DEF RuntimeProgram, ProgramState
<1>3. PauseIdle(s, k) = SetProgram(s, k, q)
  BY Zenon DEF PauseIdle
<1> HIDE DEF q
<1> QED BY <1>2, <1>3, StoreFacts

(* activate.                                                               *)
LEMMA ActivateFacts ==
  ASSUME NEW s \in Runtime, NEW k \in Keys, NEW t \in Targets, CanActivate(s, k)
  PROVE  LET u == Activate(s, k, t)
             p == s.prog[k]
             q == u.prog[k]
         IN /\ OnlyProgram(s, u, k)
            /\ q.live = p.live /\ q.gen = p.gen /\ q.inFlight = p.inFlight
            /\ q.status = "Reasoning" /\ q.state = "Active" /\ q.placement = t
            /\ q.epoch = s.nextEpoch + 1 /\ u.nextEpoch = s.nextEpoch + 1
            /\ u.pool = s.pool /\ u.nextId = s.nextId
<1> DEFINE p == s.prog[k]
           e == s.nextEpoch + 1
           q == [p EXCEPT !.state = "Active", !.status = "Reasoning", !.placement = t,
                          !.epoch = e, !.pending = TRUE]
           v == SetProgram(s, k, q)
           u == [v EXCEPT !.nextEpoch = e]
<1>1. p \in RuntimeProgram /\ e \in Nat
  BY RuntimeFields
<1>2. /\ q \in RuntimeProgram
      /\ q.live = p.live /\ q.gen = p.gen /\ q.inFlight = p.inFlight
      /\ q.status = "Reasoning" /\ q.state = "Active" /\ q.placement = t /\ q.epoch = e
  <2> HIDE DEF p, e
  <2> QED BY <1>1, Zenon DEF RuntimeProgram, ProgramState, ProgramStatus
<1>3. Activate(s, k, t) = u
  <2>1. v.nextEpoch = s.nextEpoch
    BY <1>2, StoreFacts, Zenon
  <2>2. Activate(s, k, t) = [v EXCEPT !.nextEpoch = v.nextEpoch + 1]
    BY Zenon DEF Activate
  <2> HIDE DEF v
  <2> QED BY <2>1, <2>2, Zenon
<1> HIDE DEF q, e
<1>4. /\ OnlyProgram(s, v, k) /\ v.prog[k] = q /\ v.nextId = s.nextId /\ v.pool = s.pool
  BY <1>2, StoreFacts, Zenon
<1> HIDE DEF v
<1>5. /\ u \in Runtime /\ u.prog = v.prog /\ u.pool = v.pool
      /\ u.nextId = v.nextId /\ u.nextEpoch = e
  BY <1>1, <1>4, Zenon DEF OnlyProgram, Runtime
<1> HIDE DEF u
<1> QED BY <1>2, <1>3, <1>4, <1>5, Zenon DEF OnlyProgram, e

(* invalidate_placement.                                                   *)
LEMMA InvalidateFacts ==
  ASSUME NEW s \in Runtime, NEW k \in Keys, NEW removed \in SUBSET Targets,
         CanInvalidate(s, k, removed)
  PROVE  LET u == InvalidatePlacement(s, k, removed)
             p == s.prog[k]
             q == u.prog[k]
         IN /\ OnlyProgram(s, u, k)
            /\ q.live = p.live /\ q.gen = p.gen /\ q.status = p.status /\ q.inFlight = 0
            /\ q.state = "Paused" /\ q.placement = NoTarget
            /\ q.epoch = s.nextEpoch + 1 /\ u.nextEpoch = s.nextEpoch + 1
            /\ u.pool = s.pool /\ u.nextId = s.nextId
<1> DEFINE p == s.prog[k]
           e == s.nextEpoch + 1
           q == [p EXCEPT !.state = "Paused", !.placement = NoTarget, !.epoch = e,
                          !.pending = FALSE, !.inFlight = 0]
           v == SetProgram(s, k, q)
           u == [v EXCEPT !.nextEpoch = e]
<1>1. p \in RuntimeProgram /\ e \in Nat
  BY RuntimeFields
<1>2. /\ q \in RuntimeProgram
      /\ q.live = p.live /\ q.gen = p.gen /\ q.inFlight = 0 /\ q.status = p.status
      /\ q.state = "Paused" /\ q.placement = NoTarget /\ q.epoch = e
  <2> HIDE DEF p, e
  <2> QED BY <1>1, Zenon DEF RuntimeProgram, ProgramState
<1>3. InvalidatePlacement(s, k, removed) = u
  <2>1. v.nextEpoch = s.nextEpoch
    BY <1>2, StoreFacts
  <2>2. InvalidatePlacement(s, k, removed) = [v EXCEPT !.nextEpoch = v.nextEpoch + 1]
    BY Zenon DEF InvalidatePlacement
  <2> HIDE DEF v
  <2> QED BY <2>1, <2>2, Zenon
<1> HIDE DEF q, e
<1>4. /\ OnlyProgram(s, v, k) /\ v.prog[k] = q /\ v.nextId = s.nextId /\ v.pool = s.pool
  BY <1>2, StoreFacts, Zenon
<1> HIDE DEF v
<1>5. /\ u \in Runtime /\ u.prog = v.prog /\ u.pool = v.pool
      /\ u.nextId = v.nextId /\ u.nextEpoch = e
  BY <1>1, <1>4, Zenon DEF OnlyProgram, Runtime
<1> HIDE DEF u
<1> QED BY <1>2, <1>3, <1>4, <1>5, Zenon DEF OnlyProgram, e

(* release_idle.                                                           *)
LEMMA ReleaseFacts ==
  ASSUME NEW s \in Runtime, NEW k \in Keys
  PROVE  LET u == ReleaseIdle(s, k)
         IN /\ ~CanRelease(s, k) => u = s
            /\ CanRelease(s, k) =>
                 /\ OnlyProgram(s, u, k) /\ u.prog[k] = NoProgram
                 /\ u.pool = s.pool /\ u.nextId = s.nextId /\ u.nextEpoch = s.nextEpoch
<1> DEFINE g == s.prog[k].gen
           L == [s.lastGen EXCEPT ![k] = g]
           R == s.released \cup {k}
           v == SetProgram(s, k, NoProgram)
           u == [v EXCEPT !.lastGen = L, !.released = R]
<1>1. g \in Nat
  BY RuntimeFields, Zenon DEF RuntimeProgram
<1>2. L \in [Keys -> Nat \cup {NoGeneration}] /\ R \in SUBSET Keys
  <2> HIDE DEF g
  <2> QED BY <1>1, RuntimeFields, Zenon
<1>3. NoProgram \in RuntimeProgram
  BY Zenon DEF NoProgram, RuntimeProgram, ProgramState, ProgramStatus
<1>4. ReleaseIdle(s, k) = IF ~CanRelease(s, k) THEN s ELSE u
  <2>1. v.lastGen = s.lastGen /\ v.released = s.released
    BY <1>3, StoreFacts, Zenon
  <2>2. ReleaseIdle(s, k) =
          IF ~CanRelease(s, k) THEN s
          ELSE [v EXCEPT !.lastGen = [v.lastGen EXCEPT ![k] = g],
                         !.released = v.released \cup {k}]
    BY Zenon DEF ReleaseIdle
  <2> HIDE DEF v
  <2> QED BY <2>1, <2>2, Zenon
<1> HIDE DEF L, R
<1>5. /\ OnlyProgram(s, v, k) /\ v.prog[k] = NoProgram
      /\ v.nextId = s.nextId /\ v.pool = s.pool /\ v.nextEpoch = s.nextEpoch
  BY <1>3, StoreFacts, Zenon
<1> HIDE DEF v
<1>6. /\ u \in Runtime /\ u.prog = v.prog /\ u.pool = v.pool
      /\ u.nextId = v.nextId /\ u.nextEpoch = v.nextEpoch
  BY <1>2, <1>5, Zenon DEF OnlyProgram, Runtime
<1> HIDE DEF u
<1> QED BY <1>4, <1>5, <1>6, Zenon DEF OnlyProgram

(* prune_released_generations.                                             *)
LEMMA PruneFacts ==
  ASSUME NEW s \in Runtime, NEW expired \in SUBSET Keys
  PROVE  LET u == PruneReleased(s, expired)
         IN /\ u \in Runtime /\ u.prog = s.prog
            /\ u.pool = s.pool /\ u.nextId = s.nextId /\ u.nextEpoch = s.nextEpoch
<1> DEFINE gone == {k \in expired \cap s.released : ~s.prog[k].live}
           R == s.released \ gone
           L == [k \in Keys |-> IF k \in gone THEN NoGeneration ELSE s.lastGen[k]]
           u == [s EXCEPT !.released = R, !.lastGen = L]
<1>1. L \in [Keys -> Nat \cup {NoGeneration}] /\ R \in SUBSET Keys
  BY RuntimeFields, Zenon
<1>2. PruneReleased(s, expired) = u
  BY Zenon DEF PruneReleased
<1> HIDE DEF L, R
<1> QED BY <1>1, <1>2, Zenon DEF Runtime

-----------------------------------------------------------------------------
(* The types that every step of the proof needs.                           *)
LEMMA Types ==
  ASSUME TypeOK
  PROVE  /\ rt \in Runtime /\ dispatched \subseteq Dispatch /\ IsFiniteSet(dispatched)
         /\ \A k \in Keys : rt.prog[k] \in RuntimeProgram /\ rt.prog[k].epoch \in Nat
                            /\ rt.prog[k].gen \in Nat /\ rt.prog[k].inFlight \in Nat
         /\ rt.nextEpoch \in Nat /\ rt.nextId \in Nat
         /\ \A r \in rt.pool : r \in Request /\ r.key \in Keys /\ r.id \in Nat /\ r.gen \in Nat
         /\ \A d \in dispatched : /\ d \in Dispatch /\ d.key \in Keys /\ d.epoch \in Nat
                                  /\ d.id \in Nat
BY RuntimeFields, Zenon DEF TypeOK, RuntimeProgram, Request, Dispatch

(* What a step that changes at most Program k leaves alone.                *)
Frame(k) == rt' \in Runtime /\ \A l \in Keys : l # k => rt'.prog[l] = rt.prog[l]

(* A method that changes only Program k leaves the others as they were.      *)
LEMMA FrameFromFacts ==
  ASSUME TypeOK, NEW k \in Keys, OnlyProgram(rt, rt', k)
  PROVE  Frame(k)
BY RuntimeFields, Zenon DEF OnlyProgram, TypeOK, Frame

(* Dispatches outstanding on a placement are finitely many, and there are  *)
(* none when the counter says so.                                          *)
LEMMA OutstandingFinite ==
  ASSUME IInv, NEW k \in Keys
  PROVE  /\ IsFiniteSet(Outstanding(k))
         /\ rt.prog[k].inFlight = 0 => Outstanding(k) = {}
<1>1. IsFiniteSet(Outstanding(k))
  BY FS_Subset, Zenon DEF Outstanding, IInv, TypeOK
<1> QED BY <1>1, FS_EmptySet, Zenon DEF IInv, InFlightExact

(* A call that is refused changes nothing, and so keeps the invariant.     *)
LEMMA StutterPreserves ==
  ASSUME IInv, rt' = rt, dispatched' = dispatched
  PROVE  IInv'
<1>1. TypeOK' /\ PlacedIffActive'
  BY Zenon DEF IInv, TypeOK, PlacedIffActive
<1>2. \A k \in Keys : Outstanding(k)' = Outstanding(k)
  BY Zenon DEF Outstanding
<1>3. InFlightExact' /\ EpochFences'
  BY <1>2 DEF IInv, InFlightExact, EpochFences
<1>4. WaitersAreLive' /\ ActingIsIdle'
  BY Zenon DEF IInv, WaitersAreLive, ActingIsIdle
<1>5. EpochsOrdered' /\ EpochsDistinct'
  BY Zenon DEF IInv, EpochsOrdered, EpochsDistinct
<1>6. IdsDistinct' /\ AbsentIsBlank'
  BY Zenon DEF IInv, IdsDistinct, AbsentIsBlank
<1> QED BY <1>1, <1>3, <1>4, <1>5, <1>6, Zenon DEF IInv

(* A step that keeps Program k's generation and adds no request keeps      *)
(* every retained request live.                                            *)
LEMMA WaitersKept ==
  ASSUME IInv, NEW k \in Keys, Frame(k), rt'.pool \subseteq rt.pool,
         rt'.prog[k].live, rt'.prog[k].gen = rt.prog[k].gen
  PROVE  WaitersAreLive'
<1>1. \A r \in rt.pool : r.key \in Keys /\ rt.prog[r.key].live /\ rt.prog[r.key].gen = r.gen
  BY Types, Zenon DEF IInv, WaitersAreLive, Current
<1>2. ASSUME NEW r \in rt'.pool
      PROVE  rt'.prog[r.key].live /\ rt'.prog[r.key].gen = r.gen
  <2>1. CASE r.key = k
    BY <1>1, <2>1, Zenon
  <2>2. CASE r.key # k
    BY <1>1, <2>2, Zenon DEF Frame
  <2> QED BY <2>1, <2>2, Zenon
<1> QED BY <1>2, Zenon DEF WaitersAreLive, Current

(* The other Programs stay idle when they are Acting.                      *)
LEMMA ActingKept ==
  ASSUME IInv, NEW k \in Keys, Frame(k),
         \A r \in rt'.pool : r \in rt.pool \/ r.key = k,
         \/ rt'.prog[k].status # "Acting"
         \/ rt'.prog[k].inFlight = 0 /\ Waiting(rt', k, rt'.prog[k].gen) = {}
  PROVE  ActingIsIdle'
<1>1. ASSUME NEW l \in Keys, l # k, rt'.prog[l].live, rt'.prog[l].status = "Acting"
      PROVE  rt'.prog[l].inFlight = 0 /\ Waiting(rt', l, rt'.prog[l].gen) = {}
  <2>1. rt'.prog[l] = rt.prog[l]
    BY <1>1, Zenon DEF Frame
  <2>2. rt.prog[l].inFlight = 0 /\ Waiting(rt, l, rt.prog[l].gen) = {}
    BY <1>1, <2>1, Zenon DEF IInv, ActingIsIdle
  <2> QED BY <1>1, <2>1, <2>2, Zenon DEF Waiting
<1> QED BY <1>1, Zenon DEF ActingIsIdle

(* A step that moves neither an epoch nor a dispatch.                      *)
LEMMA PlacementsKept ==
  ASSUME IInv, NEW k \in Keys, Frame(k), dispatched' = dispatched,
         rt'.prog[k].epoch = rt.prog[k].epoch, rt'.nextEpoch = rt.nextEpoch,
         rt'.prog[k].state = "Active" => rt.prog[k].state = "Active",
         rt'.prog[k].inFlight = rt.prog[k].inFlight,
         \/ rt.prog[k].inFlight = 0
         \/ /\ rt'.prog[k].live /\ rt'.prog[k].gen = rt.prog[k].gen
            /\ rt'.prog[k].state = rt.prog[k].state
            /\ rt'.prog[k].placement = rt.prog[k].placement
  PROVE  InFlightExact' /\ EpochFences' /\ EpochsOrdered' /\ EpochsDistinct'
<1>1. \A l \in Keys : Outstanding(l)' = Outstanding(l)
  BY DEF Outstanding, Frame
<1>2. InFlightExact'
  BY <1>1, Zenon DEF IInv, InFlightExact, Frame
<1>3. EpochFences'
  <2>1. ASSUME NEW l \in Keys, NEW d \in Outstanding(l)
        PROVE  /\ rt'.prog[l].live /\ d.key = l /\ d.gen = rt'.prog[l].gen
               /\ rt'.prog[l].state = "Active" /\ rt'.prog[l].placement = d.target
    <3>1. /\ rt.prog[l].live /\ d.key = l /\ d.gen = rt.prog[l].gen
          /\ rt.prog[l].state = "Active" /\ rt.prog[l].placement = d.target
      BY <2>1, Zenon DEF IInv, EpochFences
    <3>2. CASE l # k
      BY <3>1, <3>2, Zenon DEF Frame
    <3>3. CASE l = k
      BY <3>1, <3>3, OutstandingFinite, Zenon
    <3> QED BY <3>2, <3>3, Zenon
  <2> QED BY <1>1, <2>1 DEF EpochFences
<1>4. EpochsOrdered' /\ EpochsDistinct'
  BY SMTT(30) DEF IInv, EpochsOrdered, EpochsDistinct, Frame
<1> QED BY <1>2, <1>3, <1>4, Zenon

(* A step that gives Program k a new epoch with nothing in flight.         *)
LEMMA NewEpoch ==
  ASSUME IInv, NEW k \in Keys, Frame(k), dispatched' = dispatched,
         rt'.prog[k].epoch = rt.nextEpoch + 1, rt'.nextEpoch = rt.nextEpoch + 1,
         rt'.prog[k].inFlight = 0
  PROVE  InFlightExact' /\ EpochFences' /\ EpochsOrdered' /\ EpochsDistinct'
<1> DEFINE e == rt.nextEpoch + 1
<1>1. /\ e \in Nat /\ e > rt.nextEpoch /\ e > 0
      /\ \A d \in dispatched : d.epoch \in Nat /\ d.epoch < e /\ 0 < d.epoch
      /\ \A l \in Keys : rt.prog[l].epoch \in Nat /\ rt.prog[l].epoch < e
  BY Types DEF IInv, EpochsOrdered
<1>2. rt'.prog[k].epoch = e /\ rt'.nextEpoch = e
  BY Zenon
<1> HIDE DEF e
<1>3. \A l \in Keys : l # k => Outstanding(l)' = Outstanding(l)
  BY Zenon DEF Outstanding, Frame
<1>4. Outstanding(k)' = {}
  BY <1>1, <1>2 DEF Outstanding
<1>5. InFlightExact'
  BY <1>3, <1>4, FS_EmptySet, Zenon DEF IInv, InFlightExact, Frame
<1>6. EpochFences'
  BY <1>3, <1>4 DEF IInv, EpochFences, Frame
<1>7. EpochsOrdered'
  <2>1. \A l \in Keys : rt'.prog[l].epoch <= rt'.nextEpoch
    BY <1>1, <1>2 DEF Frame
  <2>2. \A l \in Keys : rt'.prog[l].state = "Active" => rt'.prog[l].epoch > 0
    BY <1>1, <1>2, Zenon DEF Frame, IInv, EpochsOrdered
  <2>3. \A d \in dispatched : 0 < d.epoch /\ d.epoch <= rt'.nextEpoch
    BY <1>1, <1>2
  <2> QED BY <2>1, <2>2, <2>3, Zenon DEF EpochsOrdered
<1>8. EpochsDistinct'
  BY <1>1, <1>2 DEF IInv, EpochsDistinct, Frame
<1> QED BY <1>5, <1>6, <1>7, <1>8, Zenon

-----------------------------------------------------------------------------
(* pause_idle.                                                             *)
LEMMA StepPause == ASSUME IInv, NEW k \in Keys, Pause(k) PROVE IInv'
<1> DEFINE p == rt.prog[k]
           q == rt'.prog[k]
<1>1. rt \in Runtime /\ CanPause(rt, k) /\ rt' = PauseIdle(rt, k) /\ dispatched' = dispatched
  BY Zenon DEF Pause, IInv, TypeOK
<1>2. Frame(k)
  BY <1>1, PauseFacts, FrameFromFacts, Zenon DEF IInv
<1>3. /\ p.live /\ p.inFlight = 0 /\ q.live /\ q.gen = p.gen /\ q.epoch = p.epoch
      /\ q.inFlight = p.inFlight /\ q.status = p.status
      /\ q.state = "Paused" /\ q.placement = NoTarget
      /\ rt'.pool = rt.pool /\ rt'.nextId = rt.nextId /\ rt'.nextEpoch = rt.nextEpoch
  BY <1>1, PauseFacts, Zenon DEF CanPause
<1>4. TypeOK'
  BY <1>1, <1>2, Zenon DEF IInv, TypeOK, Frame
<1>5. WaitersAreLive'
  BY <1>2, <1>3, WaitersKept, Zenon
<1>6. ActingIsIdle'
  <2>1. Waiting(rt', k, q.gen) = Waiting(rt, k, p.gen)
    BY <1>3, Zenon DEF Waiting
  <2> QED BY <1>2, <1>3, <2>1, ActingKept, Zenon DEF IInv, ActingIsIdle
<1>7. InFlightExact' /\ EpochFences' /\ EpochsOrdered' /\ EpochsDistinct'
  BY <1>1, <1>2, <1>3, PlacementsKept, Zenon
<1>8. PlacedIffActive' /\ AbsentIsBlank'
  BY <1>2, <1>3, SMTT(30) DEF IInv, PlacedIffActive, AbsentIsBlank, Frame
<1>9. IdsDistinct'
  BY <1>1, <1>3, Zenon DEF IInv, IdsDistinct
<1> QED BY <1>4, <1>5, <1>6, <1>7, <1>8, <1>9, Zenon DEF IInv

(* activate.                                                               *)
LEMMA StepResume ==
  ASSUME IInv, NEW k \in Keys, NEW t \in Targets, Resume(k, t) PROVE IInv'
<1> DEFINE p == rt.prog[k]
           q == rt'.prog[k]
<1>1. rt \in Runtime /\ CanActivate(rt, k) /\ rt' = Activate(rt, k, t) /\ dispatched' = dispatched
  BY Zenon DEF Resume, IInv, TypeOK
<1>2. Frame(k)
  BY <1>1, ActivateFacts, FrameFromFacts, Zenon DEF IInv
<1>3. /\ p.live /\ p.state = "Paused" /\ q.live /\ q.gen = p.gen /\ q.inFlight = p.inFlight
      /\ q.status = "Reasoning" /\ q.state = "Active" /\ q.placement = t
      /\ q.epoch = rt.nextEpoch + 1 /\ rt'.nextEpoch = rt.nextEpoch + 1
      /\ rt'.pool = rt.pool /\ rt'.nextId = rt.nextId
  BY <1>1, ActivateFacts, SMTT(30) DEF CanActivate
<1>4. p.inFlight = 0
  <2>1. Outstanding(k) = {}
    BY <1>3, Zenon DEF IInv, EpochFences
  <2> QED BY <2>1, FS_EmptySet, Zenon DEF IInv, InFlightExact
<1>5. TypeOK'
  BY <1>1, <1>2, Zenon DEF IInv, TypeOK, Frame
<1>6. WaitersAreLive'
  BY <1>2, <1>3, WaitersKept, Zenon
<1>7. ActingIsIdle'
  BY <1>2, <1>3, ActingKept, Zenon
<1>8. InFlightExact' /\ EpochFences' /\ EpochsOrdered' /\ EpochsDistinct'
  BY <1>1, <1>2, <1>3, <1>4, NewEpoch, Zenon
<1>9. PlacedIffActive' /\ AbsentIsBlank'
  BY <1>2, <1>3, NoTargetAssumption DEF IInv, PlacedIffActive, AbsentIsBlank, Frame
<1>10. IdsDistinct'
  BY <1>1, <1>3 DEF IInv, IdsDistinct
<1> QED BY <1>5, <1>6, <1>7, <1>8, <1>9, <1>10, Zenon DEF IInv

(* invalidate_placement.                                                   *)
LEMMA StepInvalidate ==
  ASSUME IInv, NEW k \in Keys, NEW removed \in SUBSET Targets, TargetsDisappear(k, removed)
  PROVE  IInv'
<1> DEFINE p == rt.prog[k]
           q == rt'.prog[k]
<1>1. /\ rt \in Runtime /\ CanInvalidate(rt, k, removed)
      /\ rt' = InvalidatePlacement(rt, k, removed) /\ dispatched' = dispatched
  BY Zenon DEF TargetsDisappear, IInv, TypeOK
<1>2. Frame(k)
  BY <1>1, InvalidateFacts, FrameFromFacts, Zenon DEF IInv
<1>3. /\ p.live /\ p.placement \in Targets /\ q.live /\ q.gen = p.gen /\ q.inFlight = 0
      /\ q.status = p.status /\ q.state = "Paused" /\ q.placement = NoTarget
      /\ q.epoch = rt.nextEpoch + 1 /\ rt'.nextEpoch = rt.nextEpoch + 1
      /\ rt'.pool = rt.pool /\ rt'.nextId = rt.nextId
  BY <1>1, InvalidateFacts, SMTT(30) DEF CanInvalidate
<1>4. TypeOK'
  BY <1>1, <1>2, Zenon DEF IInv, TypeOK, Frame
<1>5. WaitersAreLive'
  BY <1>2, <1>3, WaitersKept, Zenon
<1>6. ActingIsIdle'
  <2>1. Waiting(rt', k, q.gen) = Waiting(rt, k, p.gen)
    BY <1>3, Zenon DEF Waiting
  <2> QED BY <1>2, <1>3, <2>1, ActingKept, Zenon DEF IInv, ActingIsIdle
<1>7. InFlightExact' /\ EpochFences' /\ EpochsOrdered' /\ EpochsDistinct'
  BY <1>1, <1>2, <1>3, NewEpoch, Zenon
<1>8. PlacedIffActive' /\ AbsentIsBlank'
  BY <1>2, <1>3, SMTT(30) DEF IInv, PlacedIffActive, AbsentIsBlank, Frame
<1>9. IdsDistinct'
  BY <1>1, <1>3, Zenon DEF IInv, IdsDistinct
<1> QED BY <1>4, <1>5, <1>6, <1>7, <1>8, <1>9, Zenon DEF IInv

(* cancel_request.                                                         *)
LEMMA StepCancel == ASSUME IInv, NEW r \in rt.pool, Cancel(r) PROVE IInv'
<1> DEFINE k == r.key
           p == rt.prog[k]
           q == rt'.prog[k]
           idle == Current(rt, k, r.gen) /\ p.inFlight = 0 /\ Waiting(rt, k, r.gen) = {r}
<1>1. rt \in Runtime /\ k \in Keys /\ rt' = CancelRequest(rt, r) /\ dispatched' = dispatched
  BY Types, Zenon DEF Cancel, IInv, TypeOK
<1>2. Frame(k)
  BY <1>1, CancelFacts, FrameFromFacts, Zenon DEF IInv
<1>3. p.live /\ p.gen = r.gen
  BY Zenon DEF IInv, WaitersAreLive, Current
<1>4. /\ q.live /\ q.gen = p.gen /\ q.epoch = p.epoch /\ q.inFlight = p.inFlight
      /\ idle => q.status = "Acting" /\ q.state = "Paused" /\ q.placement = NoTarget
      /\ ~idle => q.status = p.status /\ q.state = p.state /\ q.placement = p.placement
      /\ rt'.pool = rt.pool \ {r} /\ rt'.nextId = rt.nextId /\ rt'.nextEpoch = rt.nextEpoch
  BY <1>1, <1>3, CancelFacts, SMTT(30)
<1>5. TypeOK'
  BY <1>1, <1>2, Zenon DEF IInv, TypeOK, Frame
<1>6. WaitersAreLive'
  BY <1>1, <1>2, <1>4, WaitersKept, Zenon
<1>7. ActingIsIdle'
  <2>1. CASE idle
    <3>1. Waiting(rt', k, q.gen) = {}
      BY <1>3, <1>4, <2>1, Zenon DEF Waiting
    <3> QED BY <1>1, <1>2, <1>4, <2>1, <3>1, ActingKept, Zenon
  <2>2. CASE ~idle
    <3>1. p.status # "Acting"
      BY <1>1, <1>3, Zenon DEF IInv, ActingIsIdle, Waiting
    <3> HIDE DEF idle
    <3> QED BY <1>1, <1>2, <1>4, <2>2, <3>1, ActingKept, Zenon
  <2> QED BY <2>1, <2>2, Zenon
<1>8. InFlightExact' /\ EpochFences' /\ EpochsOrdered' /\ EpochsDistinct'
  <2>1. idle => p.inFlight = 0
    BY Zenon
  <2> HIDE DEF idle
  <2>2. q.state = "Active" => p.state = "Active"
    BY <1>4, Zenon
  <2> QED BY <1>1, <1>2, <1>4, <2>1, <2>2, PlacementsKept, Zenon
<1>9. PlacedIffActive' /\ AbsentIsBlank'
  <2> HIDE DEF idle
  <2> QED BY <1>1, <1>2, <1>3, <1>4, SMTT(30) DEF IInv, PlacedIffActive, AbsentIsBlank, Frame
<1>10. IdsDistinct'
  BY <1>1, <1>4, Zenon DEF IInv, IdsDistinct
<1> QED BY <1>5, <1>6, <1>7, <1>8, <1>9, <1>10, Zenon DEF IInv

(* retain_request.                                                         *)
LEMMA StepRetain == ASSUME IInv, NEW k \in Keys, Retain(k) PROVE IInv'
<1> DEFINE p == rt.prog[k]
           q == rt'.prog[k]
           n == rt.nextId + 1
           new == [key |-> k, gen |-> q.gen, id |-> n]
<1>1. rt \in Runtime /\ rt' = RetainRequest(rt, k) /\ dispatched' = dispatched
  BY Zenon DEF Retain, IInv, TypeOK
<1>2. Frame(k)
  BY <1>1, RetainFacts, FrameFromFacts, Zenon DEF IInv
<1>3. /\ q.live /\ q.status = "Reasoning"
      /\ p.live => /\ q.gen = p.gen /\ q.state = p.state /\ q.placement = p.placement
                   /\ q.epoch = p.epoch /\ q.inFlight = p.inFlight
      /\ ~p.live => q.state = "Paused" /\ q.placement = NoTarget /\ q.epoch = 0 /\ q.inFlight = 0
      /\ rt'.pool = rt.pool \cup {new} /\ rt'.nextId = n /\ rt'.nextEpoch = rt.nextEpoch
  BY <1>1, RetainFacts, Zenon
<1>4. /\ n \in Nat
      /\ \A r \in rt.pool : r.id < n /\ r.id # n
      /\ \A d \in dispatched : d.id < n /\ d.id # n
  BY Types, SMTT(30) DEF IInv, IdsDistinct
<1>5. ~p.live => p.epoch = 0 /\ p.inFlight = 0 /\ p.state = "Paused" /\ p.placement = NoTarget
  BY SMTT(30) DEF IInv, AbsentIsBlank, NoProgram
<1>6. new.key = k /\ new.gen = q.gen /\ new.id = n
  BY Zenon
<1> HIDE DEF n, new
<1>7. TypeOK'
  BY <1>1, <1>2, Zenon DEF IInv, TypeOK, Frame
<1>8. WaitersAreLive'
  <2>1. \A r \in rt.pool : r.key \in Keys /\ rt.prog[r.key].live /\ rt.prog[r.key].gen = r.gen
    BY Types, Zenon DEF IInv, WaitersAreLive, Current
  <2>2. ASSUME NEW r \in rt'.pool
        PROVE  rt'.prog[r.key].live /\ rt'.prog[r.key].gen = r.gen
    <3>1. CASE r = new
      BY <1>3, <1>6, <3>1, Zenon
    <3>2. CASE r \in rt.pool /\ r.key = k
      BY <1>3, <2>1, <3>2, Zenon
    <3>3. CASE r \in rt.pool /\ r.key # k
      BY <1>2, <2>1, <3>3, Zenon DEF Frame
    <3> QED BY <1>3, <3>1, <3>2, <3>3, Zenon
  <2> QED BY <2>2, Zenon DEF WaitersAreLive, Current
<1>9. ActingIsIdle'
  BY <1>2, <1>3, <1>6, ActingKept, Zenon
<1>10. InFlightExact' /\ EpochFences' /\ EpochsOrdered' /\ EpochsDistinct'
  <2>1. CASE p.live
    BY <1>1, <1>2, <1>3, <2>1, PlacementsKept, Zenon
  <2>2. CASE ~p.live
    BY <1>1, <1>2, <1>3, <1>5, <2>2, PlacementsKept, Zenon
  <2> QED BY <2>1, <2>2, Zenon
<1>11. PlacedIffActive' /\ AbsentIsBlank'
  BY <1>2, <1>3, SMTT(30) DEF IInv, PlacedIffActive, AbsentIsBlank, Frame
<1>12. IdsDistinct'
  <2>1. \A r \in rt'.pool : r.id <= rt'.nextId
    BY <1>3, <1>4, <1>6, Types DEF IInv
  <2>2. \A d \in dispatched : d.id <= rt'.nextId
    BY <1>3, <1>4, Types DEF IInv
  <2>3. \A r, s \in rt'.pool : r.id = s.id => r = s
    BY <1>3, <1>4, <1>6, SMTT(30) DEF IInv, IdsDistinct
  <2>4. \A r \in rt'.pool, d \in dispatched : r.id # d.id
    BY <1>3, <1>4, <1>6 DEF IInv, IdsDistinct
  <2> QED BY <1>1, <2>1, <2>2, <2>3, <2>4, Zenon DEF IInv, IdsDistinct
<1> QED BY <1>7, <1>8, <1>9, <1>10, <1>11, <1>12, Zenon DEF IInv

(* release_idle.                                                           *)
LEMMA StepRelease == ASSUME IInv, NEW k \in Keys, Release(k) PROVE IInv'
<1> DEFINE p == rt.prog[k]
<1>1. rt \in Runtime /\ rt' = ReleaseIdle(rt, k) /\ dispatched' = dispatched
  BY Zenon DEF Release, IInv, TypeOK
<1>2. CASE ~CanRelease(rt, k)
  <2>1. rt' = rt
    BY <1>1, <1>2, ReleaseFacts, Zenon
  <2> QED BY <1>1, <2>1, StutterPreserves, Zenon
<1>3. CASE CanRelease(rt, k)
  <2>1. Frame(k)
    BY <1>1, <1>3, ReleaseFacts, FrameFromFacts, Zenon DEF IInv
  <2>2. /\ rt'.prog[k] = NoProgram /\ rt'.pool = rt.pool
        /\ rt'.nextId = rt.nextId /\ rt'.nextEpoch = rt.nextEpoch
    BY <1>1, <1>3, ReleaseFacts, Zenon
  <2>3. p.live /\ p.inFlight = 0 /\ Waiting(rt, k, p.gen) = {}
    BY <1>3, Zenon DEF CanRelease
  <2>4. \A r \in rt.pool : r.key \in Keys /\ r.key # k
    BY <2>3, Types DEF Waiting, IInv, WaitersAreLive, Current
  <2>5. /\ rt'.prog[k].live = FALSE /\ rt'.prog[k].epoch = 0 /\ rt'.prog[k].inFlight = 0
        /\ rt'.prog[k].state = "Paused" /\ rt'.prog[k].placement = NoTarget
    BY <2>2 DEF NoProgram
  <2>6. TypeOK'
    BY <1>1, <2>1, Zenon DEF IInv, TypeOK, Frame
  <2>7. WaitersAreLive'
    BY <2>1, <2>2, <2>4, Zenon DEF IInv, WaitersAreLive, Current, Frame
  <2>8. ActingIsIdle'
    <3>1. Waiting(rt', k, rt'.prog[k].gen) = {}
      BY <2>2, <2>4, Zenon DEF Waiting
    <3> QED BY <2>1, <2>2, <2>5, <3>1, ActingKept, Zenon
  <2>9. \A l \in Keys : l # k => Outstanding(l)' = Outstanding(l)
    BY <1>1, <2>1, Zenon DEF Outstanding, Frame
  <2>10. Outstanding(k)' = {}
    BY <1>1, <2>5 DEF Outstanding, IInv, EpochsOrdered
  <2>11. InFlightExact'
    BY <2>1, <2>5, <2>9, <2>10, FS_EmptySet, Zenon DEF IInv, InFlightExact, Frame
  <2>12. EpochFences'
    BY <2>1, <2>9, <2>10 DEF IInv, EpochFences, Frame
  <2>13. PlacedIffActive' /\ AbsentIsBlank'
    BY <2>1, <2>2, <2>5 DEF IInv, PlacedIffActive, AbsentIsBlank, Frame
  <2>14. EpochsOrdered' /\ EpochsDistinct'
    BY <1>1, <2>1, <2>2, <2>5, Types, SMTT(30) DEF IInv, EpochsOrdered, EpochsDistinct, Frame
  <2>15. IdsDistinct'
    BY <1>1, <2>2, Zenon DEF IInv, IdsDistinct
  <2> QED BY <2>6, <2>7, <2>8, <2>11, <2>12, <2>13, <2>14, <2>15, Zenon DEF IInv
<1> QED BY <1>2, <1>3, Zenon

(* prune_released_generations: what it forgets, no placement depends on.   *)
LEMMA StepPrune == ASSUME IInv, Prune PROVE IInv'
<1>1. /\ rt' \in Runtime /\ rt'.prog = rt.prog /\ rt'.pool = rt.pool
      /\ rt'.nextId = rt.nextId /\ rt'.nextEpoch = rt.nextEpoch /\ dispatched' = dispatched
  <2>1. PICK expired \in SUBSET rt.released :
          rt' = PruneReleased(rt, expired) /\ dispatched' = dispatched
    BY Zenon DEF Prune
  <2>2. rt \in Runtime /\ expired \in SUBSET Keys
    BY RuntimeFields, Zenon DEF IInv, TypeOK
  <2> QED BY <2>1, <2>2, PruneFacts, Zenon
<1>2. TypeOK'
  BY <1>1, Zenon DEF IInv, TypeOK
<1>3. PlacedIffActive' /\ WaitersAreLive' /\ AbsentIsBlank'
  BY <1>1, Zenon DEF IInv, PlacedIffActive, WaitersAreLive, AbsentIsBlank, Current
<1>4. ActingIsIdle'
  BY <1>1 DEF IInv, ActingIsIdle, Waiting
<1>5. \A l \in Keys : Outstanding(l)' = Outstanding(l)
  BY <1>1, Zenon DEF Outstanding
<1>6. InFlightExact' /\ EpochFences'
  BY <1>1, <1>5 DEF IInv, InFlightExact, EpochFences
<1>7. EpochsOrdered' /\ EpochsDistinct' /\ IdsDistinct'
  BY <1>1, SMTT(30) DEF IInv, EpochsOrdered, EpochsDistinct, IdsDistinct
<1> QED BY <1>2, <1>3, <1>4, <1>6, <1>7, Zenon DEF IInv

(* complete_request.                                                       *)
LEMMA StepComplete == ASSUME IInv, NEW d \in dispatched, Complete(d) PROVE IInv'
<1> DEFINE k == d.key
           p == rt.prog[k]
           q == rt'.prog[k]
<1>1. /\ rt \in Runtime /\ d \in Dispatch /\ k \in Keys
      /\ rt' = CompleteRequest(rt, d) /\ dispatched' = dispatched \ {d}
  BY Types, Zenon DEF Complete, IInv, TypeOK
<1>2. IsFiniteSet(dispatched') /\ dispatched' \subseteq Dispatch
  BY <1>1, FS_Subset, Zenon DEF IInv, TypeOK
<1>3. \A l \in Keys : Outstanding(l)' =
        {e \in dispatched : e # d /\ e.epoch = rt'.prog[l].epoch}
  BY <1>1, Zenon DEF Outstanding
<1>5. CASE ~Accepts(rt, d)
  <2>1. rt' = rt
    BY <1>1, <1>5, CompleteFacts, Zenon
  <2>2. \A l \in Keys : d \notin Outstanding(l)
    <3>1. SUFFICES ASSUME NEW l \in Keys, d \in Outstanding(l)
                   PROVE  FALSE
      BY Zenon
    <3>2. rt.prog[l].live /\ k = l /\ d.gen = rt.prog[l].gen /\ rt.prog[l].epoch = d.epoch
      BY <3>1, Zenon DEF IInv, EpochFences, Outstanding
    <3>3. rt.prog[l].inFlight = Cardinality(Outstanding(l)) /\ rt.prog[l].inFlight \in Nat
      BY Types, Zenon DEF IInv, InFlightExact
    <3>4. rt.prog[l].inFlight > 0
      BY <3>1, <3>3, OutstandingFinite
    <3> QED BY <1>5, <3>2, <3>4, Zenon DEF Accepts, Current
  <2>3. \A l \in Keys : Outstanding(l)' = Outstanding(l)
    BY <1>3, <2>1, <2>2, Zenon DEF Outstanding
  <2>4. TypeOK'
    BY <1>1, <1>2, <2>1, Zenon DEF TypeOK
  <2>5. InFlightExact' /\ EpochFences'
    BY <2>1, <2>3, SMTT(30) DEF IInv, InFlightExact, EpochFences
  <2>6. PlacedIffActive' /\ WaitersAreLive' /\ ActingIsIdle' /\ AbsentIsBlank'
    BY <2>1, Zenon DEF IInv, PlacedIffActive, WaitersAreLive, ActingIsIdle, AbsentIsBlank
  <2>7. EpochsOrdered' /\ EpochsDistinct' /\ IdsDistinct'
    BY <1>1, <2>1, Zenon DEF IInv, EpochsOrdered, EpochsDistinct, IdsDistinct
  <2> QED BY <2>4, <2>5, <2>6, <2>7, Zenon DEF IInv
<1>6. CASE Accepts(rt, d)
  <2>1. Frame(k)
    BY <1>1, <1>6, CompleteFacts, FrameFromFacts, Zenon DEF IInv
  <2>2. p.live /\ p.gen = d.gen /\ p.epoch = d.epoch /\ p.inFlight > 0
    BY <1>6, Zenon DEF Accepts, Current
  <2>3. /\ q.live /\ q.gen = p.gen /\ q.state = p.state
        /\ q.placement = p.placement /\ q.epoch = p.epoch /\ q.inFlight = p.inFlight - 1
        /\ q.status = IF p.inFlight = 1 /\ Waiting(rt, k, d.gen) = {} THEN "Acting" ELSE p.status
        /\ rt'.pool = rt.pool /\ rt'.nextId = rt.nextId /\ rt'.nextEpoch = rt.nextEpoch
    BY <1>1, <1>6, <2>2, CompleteFacts, Zenon
  <2>4. TypeOK'
    BY <1>2, <2>1, Zenon DEF TypeOK, Frame
  <2>5. WaitersAreLive'
    BY <1>1, <2>1, <2>3, WaitersKept, Zenon
  <2>6. ActingIsIdle'
    <3>1. p.status # "Acting"
      BY <1>1, <2>2, Types, SMTT(30) DEF IInv, ActingIsIdle
    <3>2. Waiting(rt', k, q.gen) = Waiting(rt, k, d.gen)
      BY <2>2, <2>3, Zenon DEF Waiting
    <3> QED BY <1>1, <2>1, <2>3, <3>1, <3>2, ActingKept, SMTT(30)
  <2>7. d \in Outstanding(k) /\ \A l \in Keys : l # k => d \notin Outstanding(l)
    BY <1>1, <2>2, Zenon DEF Outstanding, IInv, EpochFences
  <2>8. Outstanding(k)' = Outstanding(k) \ {d}
    BY <1>1, <1>3, <2>3, Zenon DEF Outstanding
  <2>9. \A l \in Keys : l # k => Outstanding(l)' = Outstanding(l)
    BY <1>3, <2>1, <2>7, Zenon DEF Outstanding, Frame
  <2>10. InFlightExact'
    <3>1. Cardinality(Outstanding(k)') = Cardinality(Outstanding(k)) - 1
      BY <1>1, <2>7, <2>8, OutstandingFinite, FS_RemoveElement, ZenonT(30)
    <3>2. q.inFlight = Cardinality(Outstanding(k)')
      BY <1>1, <2>3, <3>1, Zenon DEF IInv, InFlightExact
    <3>3. \A l \in Keys : l # k => rt'.prog[l].inFlight = Cardinality(Outstanding(l)')
      BY <2>1, <2>9, Zenon DEF IInv, InFlightExact, Frame
    <3> QED BY <3>2, <3>3, Zenon DEF InFlightExact
  <2>11. EpochFences'
    <3>1. \A e \in Outstanding(k)' :
            q.live /\ e.key = k /\ e.gen = q.gen /\ q.state = "Active" /\ q.placement = e.target
      BY <1>1, <2>3, <2>8, Zenon DEF IInv, EpochFences
    <3>2. \A l \in Keys : l # k => \A e \in Outstanding(l)' :
            /\ rt'.prog[l].live /\ e.key = l /\ e.gen = rt'.prog[l].gen
            /\ rt'.prog[l].state = "Active" /\ rt'.prog[l].placement = e.target
      BY <2>1, <2>9 DEF IInv, EpochFences, Frame
    <3> QED BY <3>1, <3>2 DEF EpochFences
  <2>12. PlacedIffActive' /\ AbsentIsBlank'
    BY <1>1, <2>1, <2>2, <2>3, SMTT(30) DEF IInv, PlacedIffActive, AbsentIsBlank, Frame
  <2>13. EpochsOrdered' /\ EpochsDistinct'
    BY <1>1, <2>1, <2>3, SMTT(30) DEF IInv, EpochsOrdered, EpochsDistinct, Frame
  <2>14. IdsDistinct'
    BY <1>1, <2>3, Zenon DEF IInv, IdsDistinct
  <2> QED BY <2>4, <2>5, <2>6, <2>10, <2>11, <2>12, <2>13, <2>14, Zenon DEF IInv
<1> QED BY <1>5, <1>6, Zenon

(* What an admitted request leaves: the Program is active on the target,   *)
(* and the front request, and no other, is dispatched.                     *)
LEMMA AdmittedFacts ==
  ASSUME IInv, NEW r \in rt.pool, NEW t \in Targets, Admit(r, t), Admits(rt, r, t)
  PROVE  LET p == rt.prog[r.key]
             q == rt'.prog[r.key]
         IN /\ Frame(r.key)
            /\ q.live /\ q.gen = p.gen /\ q.state = "Active" /\ q.placement = t
            /\ rt'.nextId = rt.nextId
            /\ p.state = "Paused" => /\ q.epoch = rt.nextEpoch + 1
                                     /\ rt'.nextEpoch = rt.nextEpoch + 1
            /\ p.state = "Active" => /\ q.epoch = p.epoch /\ rt'.nextEpoch = rt.nextEpoch
                                     /\ p.placement = t
            /\ IsFront(rt, r) =>
                 /\ rt'.pool = rt.pool \ {r} /\ q.inFlight = p.inFlight + 1
                 /\ q.status = "Reasoning"
                 /\ \E d \in Dispatch : /\ dispatched' = dispatched \cup {d}
                                        /\ d.key = r.key /\ d.gen = r.gen /\ d.id = r.id
                                        /\ d.target = t /\ d.epoch = q.epoch
            /\ ~IsFront(rt, r) =>
                 /\ rt'.pool = rt.pool /\ q.inFlight = p.inFlight /\ q.status = p.status
                 /\ dispatched' = dispatched
<1> DEFINE k == r.key
           p == rt.prog[k]
           q == rt'.prog[k]
           new == DispatchOf(rt, r, t)
           placed == PlacedForAdmission(rt, r, t)
<1>1. /\ rt \in Runtime /\ k \in Keys /\ rt' = AdmitFront(rt, r, t)
      /\ dispatched' = dispatched \cup new
  BY Types, Zenon DEF Admit, IInv, TypeOK
<1>2. p.live /\ p.gen = r.gen /\ p.state \in {"Active", "Paused"} /\ p.inFlight \in Nat
  BY <1>1, Types, Zenon DEF IInv, WaitersAreLive, Current, RuntimeProgram, ProgramState
<1>3. OnlyProgram(rt, rt', k)
  BY <1>1, AdmitFacts, Zenon
<1>4. Frame(k)
  BY <1>1, <1>3, FrameFromFacts, Zenon DEF IInv
<1>5. /\ (p.live => placed.live) /\ placed.gen = p.gen
      /\ placed.status = p.status /\ placed.inFlight = p.inFlight
      /\ p.state = "Paused" => /\ placed.state = "Active" /\ placed.placement = t
                               /\ placed.epoch = rt.nextEpoch + 1
      /\ p.state # "Paused" => /\ placed.state = p.state /\ placed.placement = p.placement
                               /\ placed.epoch = p.epoch
  BY <1>1, PlacedFacts, SMTT(30)
<1>6. /\ (placed.live => q.live) /\ q.gen = placed.gen /\ q.state = placed.state
      /\ q.placement = placed.placement /\ q.epoch = placed.epoch
      /\ IsFront(rt, r) => /\ q.status = "Reasoning" /\ q.inFlight = placed.inFlight + 1
                           /\ rt'.pool = rt.pool \ {r}
      /\ ~IsFront(rt, r) => /\ q.status = placed.status /\ q.inFlight = placed.inFlight
                            /\ rt'.pool = rt.pool
      /\ p.state = "Paused" => rt'.nextEpoch = rt.nextEpoch + 1
      /\ p.state # "Paused" => rt'.nextEpoch = rt.nextEpoch
      /\ rt'.nextId = rt.nextId
  <2> DEFINE u == AdmitFront(rt, r, t)
  <2>1. /\ (placed.live => u.prog[k].live) /\ u.prog[k].gen = placed.gen
        /\ u.prog[k].state = placed.state
        /\ u.prog[k].placement = placed.placement /\ u.prog[k].epoch = placed.epoch
    BY <1>1, AdmitFacts
  <2>2. /\ IsFront(rt, r) => /\ u.prog[k].status = "Reasoning"
                             /\ u.prog[k].inFlight = placed.inFlight + 1
                             /\ u.pool = rt.pool \ {r}
        /\ ~IsFront(rt, r) => /\ u.prog[k].status = placed.status
                              /\ u.prog[k].inFlight = placed.inFlight
                              /\ u.pool = rt.pool
    BY <1>1, AdmitFacts
  <2>3. /\ p.state = "Paused" => u.nextEpoch = rt.nextEpoch + 1
        /\ p.state # "Paused" => u.nextEpoch = rt.nextEpoch
        /\ u.nextId = rt.nextId
    BY <1>1, AdmitFacts
  <2>4. rt' = u
    BY <1>1, Zenon
  <2> HIDE DEF u, placed
  <2> QED BY <2>1, <2>2, <2>3, <2>4, Zenon
<1> HIDE DEF placed
<1>7. /\ q.live /\ q.gen = p.gen /\ q.state = "Active" /\ q.placement = t
      /\ rt'.nextId = rt.nextId
  <2>1. q.live
    BY <1>2, <1>5, <1>6, Zenon
  <2>2. p.state = "Active" => p.placement = t
    BY Zenon DEF Admits
  <2> QED BY <1>2, <1>5, <1>6, <2>1, <2>2, Zenon
<1>8. /\ p.state = "Paused" => q.epoch = rt.nextEpoch + 1 /\ rt'.nextEpoch = rt.nextEpoch + 1
      /\ p.state = "Active" => /\ q.epoch = p.epoch /\ rt'.nextEpoch = rt.nextEpoch
                               /\ p.placement = t
  BY <1>5, <1>6, Zenon DEF Admits
<1>9. CASE IsFront(rt, r)
  <2>1. rt'.pool = rt.pool \ {r} /\ q.inFlight = p.inFlight + 1 /\ q.status = "Reasoning"
    BY <1>9, <1>5, <1>6, Zenon
  <2>2. PICK d \in Dispatch :
          /\ new = {d} /\ d.key = k /\ d.gen = r.gen /\ d.id = r.id /\ d.target = t
          /\ d.epoch = placed.epoch
    BY <1>1, <1>9, DispatchFacts, Zenon DEF placed
  <2>3. /\ dispatched' = dispatched \cup {d} /\ d.key = k /\ d.gen = r.gen
        /\ d.id = r.id /\ d.target = t /\ d.epoch = q.epoch
    BY <1>1, <1>6, <2>2, Zenon
  <2> QED BY <1>4, <1>7, <1>8, <1>9, <2>1, <2>3, Zenon
<1>10. CASE ~IsFront(rt, r)
  <2>1. rt'.pool = rt.pool /\ q.inFlight = p.inFlight /\ q.status = p.status
    BY <1>10, <1>5, <1>6, Zenon
  <2>2. dispatched' = dispatched
    BY <1>1, <1>10, Zenon DEF DispatchOf
  <2> QED BY <1>4, <1>7, <1>8, <1>10, <2>1, <2>2, Zenon
<1> QED BY <1>9, <1>10, Zenon

(* The dispatch runs in its Program's epoch, which is no other's; what ran *)
(* before a pause does not run any more.                                   *)
LEMMA AdmittedRuns ==
  ASSUME IInv, NEW r \in rt.pool, NEW t \in Targets, Admit(r, t), Admits(rt, r, t),
         NEW d \in Dispatch, dispatched' = dispatched \cup {d},
         d.key = r.key, d.epoch = rt'.prog[r.key].epoch
  PROVE  LET k == r.key
             p == rt.prog[k]
             q == rt'.prog[k]
         IN /\ q.epoch \in Nat /\ rt'.nextEpoch \in Nat /\ q.epoch > 0
            /\ q.epoch <= rt'.nextEpoch /\ rt.nextEpoch <= rt'.nextEpoch
            /\ \A l \in Keys : l # k => rt.prog[l].epoch # q.epoch
            /\ \A l \in Keys : l # k => Outstanding(l)' = Outstanding(l)
            /\ Outstanding(k)' = (IF p.state = "Paused" THEN {} ELSE Outstanding(k)) \cup {d}
<1> DEFINE k == r.key
           p == rt.prog[k]
           q == rt'.prog[k]
<1>1. k \in Keys /\ p.state \in {"Active", "Paused"}
  BY Types, Zenon DEF IInv, TypeOK, RuntimeProgram, ProgramState
<1>2. /\ Frame(k)
      /\ p.state = "Paused" => q.epoch = rt.nextEpoch + 1 /\ rt'.nextEpoch = rt.nextEpoch + 1
      /\ p.state = "Active" => q.epoch = p.epoch /\ rt'.nextEpoch = rt.nextEpoch
  BY AdmittedFacts, Zenon
<1>3. /\ q.epoch \in Nat /\ rt'.nextEpoch \in Nat /\ q.epoch > 0 /\ q.epoch <= rt'.nextEpoch
      /\ rt.nextEpoch <= rt'.nextEpoch
      /\ \A l \in Keys : l # k => rt.prog[l].epoch # q.epoch
      /\ p.state = "Paused" => \A e \in dispatched : e.epoch # q.epoch
  <2>1. CASE p.state = "Paused"
    BY <1>1, <1>2, <2>1, Types, SMTT(30) DEF IInv, EpochsOrdered
  <2>2. CASE p.state = "Active"
    BY <1>1, <1>2, <2>2, Types, SMTT(30) DEF IInv, EpochsOrdered, EpochsDistinct
  <2> QED BY <1>1, <2>1, <2>2, Zenon
<1>4. \A l \in Keys : l # k => Outstanding(l)' = Outstanding(l)
  BY <1>2, <1>3, SMTT(30) DEF Outstanding, Frame
<1>5. Outstanding(k)' = (IF p.state = "Paused" THEN {} ELSE Outstanding(k)) \cup {d}
  <2>1. CASE p.state = "Paused"
    BY <1>3, <2>1, Zenon DEF Outstanding
  <2>2. CASE p.state = "Active"
    BY <1>2, <2>2, Zenon DEF Outstanding
  <2> QED BY <1>1, <2>1, <2>2, Zenon
<1> QED BY <1>3, <1>4, <1>5, Zenon

(* admit_front.  The new dispatch is counted on the Program it is made     *)
(* for, and on no other.                                                   *)
LEMMA StepAdmit ==
  ASSUME IInv, NEW r \in rt.pool, NEW t \in Targets, Admit(r, t) PROVE IInv'
<1> DEFINE k == r.key
           p == rt.prog[k]
           q == rt'.prog[k]
<1>1. /\ rt \in Runtime /\ k \in Keys /\ rt' = AdmitFront(rt, r, t)
      /\ dispatched' = dispatched \cup DispatchOf(rt, r, t)
  BY Types, Zenon DEF Admit, IInv, TypeOK
<1>2. p.live /\ p.gen = r.gen /\ p.state \in {"Active", "Paused"} /\ p.inFlight \in Nat
  BY <1>1, Types, Zenon DEF IInv, WaitersAreLive, Current, RuntimeProgram, ProgramState
<1>3. CASE ~Admits(rt, r, t)
  <2>1. rt' = rt /\ dispatched' = dispatched
    BY <1>1, <1>3, RefuseFacts, Zenon
  <2> QED BY <2>1, StutterPreserves, Zenon
<1>4. CASE Admits(rt, r, t)
  <2>2. Frame(k)
    BY <1>4, AdmittedFacts, Zenon
  <2>5. /\ q.live /\ q.gen = p.gen /\ q.state = "Active" /\ q.placement = t
        /\ rt'.nextId = rt.nextId
    BY <1>4, AdmittedFacts, Zenon
  <2>6. /\ p.state = "Paused" => q.epoch = rt.nextEpoch + 1 /\ rt'.nextEpoch = rt.nextEpoch + 1
        /\ p.state = "Active" => /\ q.epoch = p.epoch /\ rt'.nextEpoch = rt.nextEpoch
                                 /\ p.placement = t
    BY <1>4, AdmittedFacts, Zenon
  <2>7. p.status = "Reasoning"
    BY <1>1, <1>2, Types, Zenon DEF IInv, ActingIsIdle, Waiting, RuntimeProgram, ProgramStatus
  <2>8. p.state = "Paused" => p.inFlight = 0
    <3>1. p.state = "Paused" => Outstanding(k) = {}
      BY <1>1, Zenon DEF IInv, EpochFences
    <3> QED BY <1>1, <3>1, FS_EmptySet, Zenon DEF IInv, InFlightExact
  <2>9. PlacedIffActive' /\ AbsentIsBlank'
    BY <1>1, <2>2, <2>5, NoTargetAssumption, SMTT(30) DEF IInv, PlacedIffActive, AbsentIsBlank, Frame
  <2>10. CASE ~IsFront(rt, r)
    <3>1. rt'.pool = rt.pool /\ q.inFlight = p.inFlight /\ q.status = p.status
      BY <1>4, <2>10, AdmittedFacts, Zenon
    <3>2. dispatched' = dispatched
      BY <1>4, <2>10, AdmittedFacts, Zenon
    <3>3. TypeOK'
      BY <2>2, <3>2, Zenon DEF IInv, TypeOK, Frame
    <3>4. WaitersAreLive' /\ ActingIsIdle'
      BY <1>1, <2>2, <2>5, <2>7, <3>1, WaitersKept, ActingKept, Zenon
    <3>5. InFlightExact' /\ EpochFences' /\ EpochsOrdered' /\ EpochsDistinct'
      <4>1. CASE p.state = "Paused"
        BY <1>1, <2>2, <2>6, <2>8, <3>1, <3>2, <4>1, NewEpoch, Zenon
      <4>2. CASE p.state = "Active"
        BY <1>1, <2>2, <2>5, <2>6, <3>1, <3>2, <4>2, PlacementsKept, Zenon
      <4> QED BY <1>2, <4>1, <4>2, Zenon
    <3>6. IdsDistinct'
      BY <2>5, <3>1, <3>2, Zenon DEF IInv, IdsDistinct
    <3> QED BY <2>9, <3>3, <3>4, <3>5, <3>6, Zenon DEF IInv
  <2>11. CASE IsFront(rt, r)
    <3>1. /\ rt'.pool = rt.pool \ {r} /\ q.inFlight = p.inFlight + 1 /\ q.status = "Reasoning"
      BY <1>4, <2>11, AdmittedFacts, Zenon
    <3>2. PICK d \in Dispatch : /\ dispatched' = dispatched \cup {d}
                                /\ d.key = k /\ d.gen = r.gen /\ d.id = r.id
                                /\ d.target = t /\ d.epoch = q.epoch
      BY <1>4, <2>11, AdmittedFacts, Zenon
    <3>3. /\ d \in Dispatch /\ d.key = k /\ d.gen = r.gen /\ d.id = r.id /\ d.target = t
          /\ d.epoch = q.epoch
      BY <3>2, Zenon
    <3>4. dispatched' = dispatched \cup {d}
      BY <3>2, Zenon
    <3>5. d \notin dispatched
      BY <3>3, Zenon DEF IInv, IdsDistinct
    <3>6. TypeOK'
      BY <2>2, <3>3, <3>4, FS_AddElement, Zenon DEF IInv, TypeOK, Frame
    <3>7. WaitersAreLive' /\ ActingIsIdle'
      BY <1>1, <2>2, <2>5, <3>1, WaitersKept, ActingKept, Zenon
    <3>8. IdsDistinct'
      BY <2>5, <3>1, <3>3, <3>4, SMTT(30) DEF IInv, IdsDistinct
    <3>9. /\ q.epoch \in Nat /\ rt'.nextEpoch \in Nat /\ q.epoch > 0 /\ q.epoch <= rt'.nextEpoch
          /\ rt.nextEpoch <= rt'.nextEpoch
          /\ \A l \in Keys : l # k => rt.prog[l].epoch # q.epoch
      BY <1>4, <3>3, <3>4, AdmittedRuns, Zenon
    <3>10. EpochsOrdered'
      <4>1. \A l \in Keys : rt'.prog[l].epoch <= rt'.nextEpoch
        BY <1>1, <2>2, <3>9, Types, SMTT(30) DEF IInv, EpochsOrdered, Frame
      <4>2. \A l \in Keys : rt'.prog[l].state = "Active" => rt'.prog[l].epoch > 0
        BY <2>2, <3>9, Zenon DEF IInv, EpochsOrdered, Frame
      <4>3. \A e \in dispatched' : 0 < e.epoch /\ e.epoch <= rt'.nextEpoch
        BY <1>1, <3>3, <3>4, <3>9, Types, SMTT(30) DEF IInv, EpochsOrdered
      <4> QED BY <4>1, <4>2, <4>3, Zenon DEF EpochsOrdered
    <3>11. EpochsDistinct'
      BY <2>2, <3>9, SMTT(30) DEF IInv, EpochsDistinct, Frame
    <3>12. \A l \in Keys : l # k => Outstanding(l)' = Outstanding(l)
      BY <1>4, <3>3, <3>4, AdmittedRuns, Zenon
    <3>13. Outstanding(k)' = (IF p.state = "Paused" THEN {} ELSE Outstanding(k)) \cup {d}
      BY <1>4, <3>3, <3>4, AdmittedRuns, Zenon
    <3>14. InFlightExact'
      <4> DEFINE S == IF p.state = "Paused" THEN {} ELSE Outstanding(k)
      <4>1. IsFiniteSet(S) /\ Cardinality(S) = p.inFlight
        BY <1>1, <2>8, OutstandingFinite, FS_EmptySet, Zenon DEF IInv, InFlightExact
      <4>2. d \notin S
        BY <3>5, Zenon DEF Outstanding
      <4>3. Cardinality(Outstanding(k)') = p.inFlight + 1
        <5> HIDE DEF S
        <5>1. Outstanding(k)' = S \cup {d}
          BY <3>13, Zenon DEF S
        <5> QED BY <4>1, <4>2, <5>1, FS_AddElement, Zenon
      <4>4. \A l \in Keys : l # k => rt'.prog[l].inFlight = Cardinality(Outstanding(l)')
        BY <2>2, <3>12, Zenon DEF IInv, InFlightExact, Frame
      <4> QED BY <1>1, <3>1, <4>3, <4>4, Zenon DEF InFlightExact
    <3>15. EpochFences'
      <4>1. \A e \in Outstanding(k)' :
              q.live /\ e.key = k /\ e.gen = q.gen /\ q.state = "Active" /\ q.placement = e.target
        <5>1. \A e \in Outstanding(k) :
                e.key = k /\ e.gen = p.gen /\ p.state = "Active" /\ p.placement = e.target
          BY <1>1, Zenon DEF IInv, EpochFences
        <5> QED BY <1>2, <2>5, <2>6, <3>3, <3>13, <5>1, Zenon
      <4>2. \A l \in Keys : l # k => \A e \in Outstanding(l)' :
              /\ rt'.prog[l].live /\ e.key = l /\ e.gen = rt'.prog[l].gen
              /\ rt'.prog[l].state = "Active" /\ rt'.prog[l].placement = e.target
        BY <2>2, <3>12, SMTT(30) DEF IInv, EpochFences, Frame
      <4> QED BY <1>1, <4>1, <4>2, SMTT(30) DEF EpochFences
    <3> QED BY <2>9, <3>6, <3>7, <3>8, <3>10, <3>11, <3>14, <3>15, Zenon DEF IInv
  <2> QED BY <2>10, <2>11, Zenon
<1> QED BY <1>3, <1>4, Zenon

-----------------------------------------------------------------------------
(* Every step, and stuttering, preserves the inductive invariant.          *)
LEMMA NextPreserves == IInv /\ [Next]_vars => IInv'
<1> SUFFICES ASSUME IInv, [Next]_vars PROVE IInv'
  BY Zenon
<1>1. CASE UNCHANGED vars
  <2>1. rt' = rt /\ dispatched' = dispatched
    BY <1>1, Zenon DEF vars
  <2> QED BY <2>1, StutterPreserves, Zenon
<1>2. CASE \E k \in Keys : Retain(k) \/ Pause(k) \/ Release(k)
  BY <1>2, StepRetain, StepPause, StepRelease, Zenon
<1>3. CASE \E k \in Keys, t \in Targets : Resume(k, t)
  BY <1>3, StepResume, Zenon
<1>4. CASE \E k \in Keys, removed \in SUBSET Targets : TargetsDisappear(k, removed)
  BY <1>4, StepInvalidate, Zenon
<1>5. CASE \E r \in rt.pool : Cancel(r) \/ \E t \in Targets : Admit(r, t)
  BY <1>5, StepCancel, StepAdmit, Zenon
<1>6. CASE \E d \in dispatched : Complete(d)
  BY <1>6, StepComplete, Zenon
<1>7. CASE Prune
  BY <1>7, StepPrune, Zenon
<1> QED BY <1>1, <1>2, <1>3, <1>4, <1>5, <1>6, <1>7, Zenon DEF Next

(* A new runtime, without Programs and dispatches, satisfies the invariant.  *)
LEMMA InitEstablishes == Init => IInv
<1> SUFFICES ASSUME Init PROVE IInv
  BY Zenon
<1>1. NoProgram \in RuntimeProgram
  BY Zenon DEF NoProgram, RuntimeProgram, ProgramState, ProgramStatus
<1>2. /\ rt \in Runtime /\ \A k \in Keys : rt.prog[k] = NoProgram
      /\ rt.pool = {} /\ rt.nextId = 0 /\ rt.nextEpoch = 0 /\ dispatched = {}
  <2>1. [k \in Keys |-> NoProgram] \in [Keys -> RuntimeProgram]
    BY <1>1, Zenon
  <2>2. [k \in Keys |-> NoGeneration] \in [Keys -> Nat \cup {NoGeneration}]
    BY Zenon
  <2> QED BY <2>1, <2>2, Zenon DEF Init, EmptyRuntime, Runtime
<1>3. TypeOK
  BY <1>2, FS_EmptySet, Zenon DEF TypeOK
<1>4. \A k \in Keys : Outstanding(k) = {}
  BY <1>2, Zenon DEF Outstanding
<1>5. InFlightExact /\ EpochFences
  BY <1>2, <1>4, FS_EmptySet, SMTT(30) DEF InFlightExact, EpochFences, NoProgram
<1>6. PlacedIffActive /\ AbsentIsBlank
  <2>1. NoProgram.state = "Paused" /\ NoProgram.placement = NoTarget
    BY Zenon DEF NoProgram
  <2> QED BY <1>2, <2>1, Zenon DEF PlacedIffActive, AbsentIsBlank
<1>7. WaitersAreLive /\ ActingIsIdle
  BY <1>2, SMTT(30) DEF WaitersAreLive, ActingIsIdle, NoProgram
<1>8. EpochsOrdered /\ EpochsDistinct /\ IdsDistinct
  BY <1>2, SMTT(30) DEF EpochsOrdered, EpochsDistinct, IdsDistinct, NoProgram
<1> QED BY <1>3, <1>5, <1>6, <1>7, <1>8, Zenon DEF IInv

(* The runtime's records keep their types.                                 *)
THEOREM TypeCorrect == Spec => []TypeOK
<1>1. IInv => TypeOK
  BY Zenon DEF IInv
<1> QED BY <1>1, InitEstablishes, NextPreserves, PTL DEF Spec

(* For any number of Programs, targets, requests and placements, in        *)
(* whatever order requests complete: in_flight_requests counts exactly the *)
(* dispatches out on the current placement, and a placement epoch belongs  *)
(* to one Program, one generation and one target.                          *)
THEOREM CompletionsAreFenced == Spec => [](InFlightExact /\ EpochFences)
<1>1. IInv => InFlightExact /\ EpochFences
  BY Zenon DEF IInv
<1> QED BY <1>1, InitEstablishes, NextPreserves, PTL DEF Spec

(* A Program owns a target exactly while Active, a retained request always *)
(* belongs to a live generation, and an Acting Program has no work.        *)
THEOREM ProgramsAreConsistent == Spec => [](PlacedIffActive /\ WaitersAreLive /\ ActingIsIdle)
<1>1. IInv => PlacedIffActive /\ WaitersAreLive /\ ActingIsIdle
  BY Zenon DEF IInv
<1> QED BY <1>1, InitEstablishes, NextPreserves, PTL DEF Spec

(* Everything the runtime promises the scheduler at once: types, placement, *)
(* epochs as fences, exact in_flight_requests, live waiters and idle acting *)
(* Programs, for any Programs, targets, requests and placements.            *)
THEOREM RuntimeStaysFenced == Spec => []RuntimeIsFenced
BY TypeCorrect, CompletionsAreFenced, ProgramsAreConsistent, PTL DEF RuntimeIsFenced
-----------------------------------------------------------------------------
(* The refinement of ProgramLifecycle.                                     *)

(* The requests of a Program are those of its live generation.             *)
LEMMA WaitingIsThePool ==
  ASSUME IInv, NEW k \in Keys
  PROVE  Waiting(rt, k, rt.prog[k].gen) = {r \in rt.pool : r.key = k}
<1>1. \A r \in rt.pool : r.key = k => r.gen = rt.prog[k].gen
  BY Zenon DEF IInv, WaitersAreLive, Current
<1> QED BY <1>1, Zenon DEF Waiting

(* A step that moves Program k only.                                       *)
OneProgram(k) ==
  /\ Frame(k)
  /\ \A r : r.key # k => (r \in rt'.pool <=> r \in rt.pool)
  /\ \A l \in Keys : l # k => Outstanding(l)' = Outstanding(l)

(* Such a step as ProgramLifecycle sees it.                                *)
LEMMA Seen ==
  ASSUME NEW k \in Keys, OneProgram(k)
  PROVE  /\ LifePhase' = [LifePhase EXCEPT ![k] = PhaseOf(k)']
         /\ LifePlace' = [LifePlace EXCEPT ![k] = rt'.prog[k].placement]
         /\ LifeWaiting' = [LifeWaiting EXCEPT ![k] = WaitingIds(k)']
         /\ LifeRunning' = [LifeRunning EXCEPT ![k] = RunningIds(k)']
<1>1. ASSUME NEW l \in Keys, l # k
      PROVE  /\ PhaseOf(l)' = PhaseOf(l) /\ rt'.prog[l].placement = rt.prog[l].placement
             /\ WaitingIds(l)' = WaitingIds(l) /\ RunningIds(l)' = RunningIds(l)
  <2>1. rt'.prog[l] = rt.prog[l]
    BY <1>1, Zenon DEF OneProgram, Frame
  <2>2. PhaseOf(l)' = PhaseOf(l)
    BY <2>1, Zenon DEF PhaseOf
  <2>3. RunningIds(l)' = RunningIds(l)
    BY <1>1, Zenon DEF RunningIds, OneProgram
  <2>4. Waiting(rt, l, rt.prog[l].gen)' = Waiting(rt, l, rt.prog[l].gen)
    BY <1>1, <2>1, Zenon DEF Waiting, OneProgram
  <2>5. WaitingIds(l)' = WaitingIds(l)
    BY <2>4, Zenon DEF WaitingIds
  <2> QED BY <2>1, <2>2, <2>3, <2>5, Zenon
<1>2. LifePhase' = [LifePhase EXCEPT ![k] = PhaseOf(k)']
  <2>1. \A l \in Keys : l # k => PhaseOf(l)' = PhaseOf(l)
    BY <1>1, Zenon
  <2> QED BY <2>1, Zenon DEF LifePhase
<1>3. LifePlace' = [LifePlace EXCEPT ![k] = rt'.prog[k].placement]
  <2>1. \A l \in Keys : l # k => rt'.prog[l].placement = rt.prog[l].placement
    BY <1>1, Zenon
  <2> QED BY <2>1, Zenon DEF LifePlace
<1>4. LifeWaiting' = [LifeWaiting EXCEPT ![k] = WaitingIds(k)']
  <2>1. \A l \in Keys : l # k => WaitingIds(l)' = WaitingIds(l)
    BY <1>1, Zenon
  <2> QED BY <2>1, Zenon DEF LifeWaiting
<1>5. LifeRunning' = [LifeRunning EXCEPT ![k] = RunningIds(k)']
  <2>1. \A l \in Keys : l # k => RunningIds(l)' = RunningIds(l)
    BY <1>1, Zenon
  <2> QED BY <2>1, Zenon DEF LifeRunning
<1> QED BY <1>2, <1>3, <1>4, <1>5, Zenon

(* What the lifecycle sees of a Program, as a value and as an unchanged      *)
(* entry.                                                                    *)
LEMMA SeenBefore ==
  ASSUME NEW k \in Keys
  PROVE  /\ LifePhase[k] = PhaseOf(k) /\ LifePlace[k] = rt.prog[k].placement
         /\ LifeWaiting[k] = WaitingIds(k) /\ LifeRunning[k] = RunningIds(k)
         /\ LifePhase = [LifePhase EXCEPT ![k] = PhaseOf(k)]
         /\ LifePlace = [LifePlace EXCEPT ![k] = rt.prog[k].placement]
         /\ LifeWaiting = [LifeWaiting EXCEPT ![k] = WaitingIds(k)]
         /\ LifeRunning = [LifeRunning EXCEPT ![k] = RunningIds(k)]
BY Zenon DEF LifePhase, LifePlace, LifeWaiting, LifeRunning

(* Where a step touches one Program, what it keeps of that Program it keeps  *)
(* of the abstract state.                                                    *)
LEMMA SeenKept ==
  ASSUME NEW k \in Keys, OneProgram(k)
  PROVE  /\ PhaseOf(k)' = PhaseOf(k) => LifePhase' = LifePhase
         /\ rt'.prog[k].placement = rt.prog[k].placement => LifePlace' = LifePlace
         /\ WaitingIds(k)' = WaitingIds(k) => LifeWaiting' = LifeWaiting
         /\ RunningIds(k)' = RunningIds(k) => LifeRunning' = LifeRunning
<1>1. PhaseOf(k)' = PhaseOf(k) => LifePhase' = LifePhase
  BY Seen, SeenBefore, SMTT(30)
<1>2. rt'.prog[k].placement = rt.prog[k].placement => LifePlace' = LifePlace
  BY Seen, SeenBefore, SMTT(30)
<1>3. WaitingIds(k)' = WaitingIds(k) => LifeWaiting' = LifeWaiting
  BY Seen, SeenBefore, SMTT(30)
<1>4. RunningIds(k)' = RunningIds(k) => LifeRunning' = LifeRunning
  BY Seen, SeenBefore, SMTT(30)
<1> QED BY <1>1, <1>2, <1>3, <1>4, Zenon

(* A Program keeps or loses the view of its waiting and running requests.  *)
LEMMA KeptIds ==
  ASSUME IInv, NEW k \in Keys
  PROVE  /\ rt.prog[k].inFlight = 0 => RunningIds(k) = {}
         /\ rt.prog[k].state # "Active" => RunningIds(k) = {}
         /\ RunningIds(k) = {} => rt.prog[k].inFlight = 0
         /\ (\E r \in rt.pool : r.key = k) => rt.prog[k].live /\ WaitingIds(k) # {}
<1>1. rt.prog[k].inFlight = 0 => Outstanding(k) = {}
  BY OutstandingFinite, Zenon
<1>2. rt.prog[k].state # "Active" => Outstanding(k) = {}
  BY Zenon DEF IInv, EpochFences
<1>3. Outstanding(k) = {} => rt.prog[k].inFlight = 0
  BY FS_EmptySet, Zenon DEF IInv, InFlightExact
<1>4. Outstanding(k) = {} <=> RunningIds(k) = {}
  BY Zenon DEF RunningIds
<1>5. ASSUME NEW r \in rt.pool, r.key = k PROVE rt.prog[k].live /\ WaitingIds(k) # {}
  <2>1. rt.prog[k].live
    BY <1>5, Zenon DEF IInv, WaitersAreLive, Current
  <2>2. r \in Waiting(rt, k, rt.prog[k].gen)
    BY <1>5, WaitingIsThePool, Zenon
  <2> QED BY <2>1, <2>2, Zenon DEF WaitingIds
<1> QED BY <1>1, <1>2, <1>3, <1>4, <1>5, Zenon

(* The waiting requests of a Program change only with the pool or its        *)
(* generation.                                                               *)
LEMMA SamePool ==
  ASSUME IInv, NEW k \in Keys, Frame(k), rt'.pool = rt.pool, rt'.prog[k].gen = rt.prog[k].gen
  PROVE  WaitingIds(k)' = WaitingIds(k)
BY Zenon DEF WaitingIds, Waiting

(* A step that leaves pool and dispatches alone is seen at one Program only. *)
LEMMA OneProgramKept ==
  ASSUME IInv, NEW k \in Keys, Frame(k), rt'.pool = rt.pool, dispatched' = dispatched
  PROVE  OneProgram(k)
BY Zenon DEF OneProgram, Frame, Outstanding

(* Epochs that are new have no dispatches.                                 *)
LEMMA NewEpochRunsNothing ==
  ASSUME IInv, NEW k \in Keys, dispatched' = dispatched,
         rt'.prog[k].epoch = 0 \/ rt'.prog[k].epoch = rt.nextEpoch + 1
  PROVE  RunningIds(k)' = {}
<1>1. \A d \in dispatched : d.epoch # rt'.prog[k].epoch
  BY Types, SMTT(30) DEF IInv, EpochsOrdered
<1>2. Outstanding(k)' = {}
  BY <1>1, Zenon DEF Outstanding
<1> QED BY <1>2, Zenon DEF RunningIds

(* The running requests of a Program change only with the dispatches or its  *)
(* epoch.                                                                    *)
LEMMA SameEpochRunsTheSame ==
  ASSUME NEW k \in Keys, dispatched' = dispatched, rt'.prog[k].epoch = rt.prog[k].epoch
  PROVE  RunningIds(k)' = RunningIds(k)
BY Zenon DEF RunningIds, Outstanding

(* pause_idle pauses.                                                      *)
LEMMA LifePause == ASSUME IInv, NEW k \in Keys, Pause(k) PROVE Lifecycle!Pause(k)
<1> DEFINE p == rt.prog[k]
           q == rt'.prog[k]
<1>1. rt \in Runtime /\ CanPause(rt, k) /\ rt' = PauseIdle(rt, k) /\ dispatched' = dispatched
  BY Zenon DEF Pause, IInv, TypeOK
<1>2. Frame(k)
  BY <1>1, PauseFacts, FrameFromFacts, Zenon DEF IInv
<1>3. /\ p.live /\ p.inFlight = 0 /\ p.state = "Active" /\ q.live /\ q.gen = p.gen /\ q.epoch = p.epoch
      /\ q.state = "Paused" /\ q.placement = NoTarget
      /\ rt'.pool = rt.pool /\ rt'.nextId = rt.nextId
  BY <1>1, PauseFacts, Zenon DEF CanPause
<1>4. OneProgram(k) /\ WaitingIds(k)' = WaitingIds(k) /\ RunningIds(k)' = RunningIds(k)
  BY <1>1, <1>2, <1>3, OneProgramKept, SamePool, SameEpochRunsTheSame, Zenon
<1>5. PhaseOf(k) = "active" /\ PhaseOf(k)' = "paused" /\ RunningIds(k) = {}
  BY <1>3, KeptIds, Zenon DEF PhaseOf
<1>6. /\ LifePhase' = [LifePhase EXCEPT ![k] = "paused"] /\ LifePlace' = [LifePlace EXCEPT ![k] = NoTarget]
      /\ LifeWaiting' = LifeWaiting /\ LifeRunning' = LifeRunning
      /\ LifePhase[k] = "active" /\ LifeRunning[k] = {}
  BY <1>3, <1>4, <1>5, Seen, SeenBefore, SeenKept, Zenon
<1> QED BY <1>3, <1>6, Zenon DEF Lifecycle!Pause

(* activate starts the Program on t.                                       *)
LEMMA LifeResume ==
  ASSUME IInv, NEW k \in Keys, NEW t \in Targets, Resume(k, t) PROVE Lifecycle!Start(k, t)
<1> DEFINE p == rt.prog[k]
           q == rt'.prog[k]
<1>1. rt \in Runtime /\ CanActivate(rt, k) /\ rt' = Activate(rt, k, t) /\ dispatched' = dispatched
  BY Zenon DEF Resume, IInv, TypeOK
<1>2. Frame(k)
  BY <1>1, ActivateFacts, FrameFromFacts, Zenon DEF IInv
<1>3. /\ p.live /\ p.state = "Paused" /\ q.live /\ q.gen = p.gen
      /\ q.state = "Active" /\ q.placement = t /\ q.epoch = rt.nextEpoch + 1
      /\ rt'.pool = rt.pool /\ rt'.nextId = rt.nextId
  BY <1>1, ActivateFacts, SMTT(30) DEF CanActivate
<1>4. OneProgram(k) /\ WaitingIds(k)' = WaitingIds(k) /\ RunningIds(k)' = {}
  BY <1>1, <1>2, <1>3, OneProgramKept, SamePool, NewEpochRunsNothing, Zenon
<1>5. PhaseOf(k) = "paused" /\ PhaseOf(k)' = "active" /\ RunningIds(k) = {} /\ WaitingIds(k) # {}
  BY <1>1, <1>3, KeptIds, Zenon DEF PhaseOf, CanActivate, WaitingIds
<1>6. /\ LifePhase' = [LifePhase EXCEPT ![k] = "active"] /\ LifePlace' = [LifePlace EXCEPT ![k] = t]
      /\ LifeWaiting' = LifeWaiting /\ LifeRunning' = LifeRunning
      /\ LifePhase[k] = "paused" /\ LifeWaiting[k] # {}
  BY <1>3, <1>4, <1>5, Seen, SeenBefore, SeenKept, Zenon
<1> QED BY <1>3, <1>6, Zenon DEF Lifecycle!Start

(* invalidate_placement loses the target.                                  *)
LEMMA LifeInvalidate ==
  ASSUME IInv, NEW k \in Keys, NEW removed \in SUBSET Targets, TargetsDisappear(k, removed)
  PROVE  Lifecycle!LoseTarget(k)
<1> DEFINE p == rt.prog[k]
           q == rt'.prog[k]
<1>1. /\ rt \in Runtime /\ CanInvalidate(rt, k, removed)
      /\ rt' = InvalidatePlacement(rt, k, removed) /\ dispatched' = dispatched
  BY Zenon DEF TargetsDisappear, IInv, TypeOK
<1>2. Frame(k)
  BY <1>1, InvalidateFacts, FrameFromFacts, Zenon DEF IInv
<1>3. /\ p.live /\ p.placement \in Targets /\ q.live /\ q.gen = p.gen
      /\ q.state = "Paused" /\ q.placement = NoTarget /\ q.epoch = rt.nextEpoch + 1
      /\ rt'.pool = rt.pool /\ rt'.nextId = rt.nextId
  BY <1>1, InvalidateFacts, SMTT(30) DEF CanInvalidate
<1>4. OneProgram(k) /\ WaitingIds(k)' = WaitingIds(k) /\ RunningIds(k)' = {}
  BY <1>1, <1>2, <1>3, OneProgramKept, SamePool, NewEpochRunsNothing, Zenon
<1>5. PhaseOf(k) = "active" /\ PhaseOf(k)' = "paused"
  BY <1>3, NoTargetAssumption, Zenon DEF PhaseOf, IInv, PlacedIffActive
<1>6. /\ LifePhase' = [LifePhase EXCEPT ![k] = "paused"] /\ LifePlace' = [LifePlace EXCEPT ![k] = NoTarget]
      /\ LifeWaiting' = LifeWaiting /\ LifeRunning' = [LifeRunning EXCEPT ![k] = {}]
      /\ LifePhase[k] = "active"
  BY <1>3, <1>4, <1>5, Seen, SeenBefore, SeenKept, Zenon
<1> QED BY <1>3, <1>6, Zenon DEF Lifecycle!LoseTarget

(* release_idle forgets the Program, or does nothing.                      *)
LEMMA LifeRelease ==
  ASSUME IInv, NEW k \in Keys, Release(k)
  PROVE  Lifecycle!Forget(k) \/ UNCHANGED (Lifecycle!vars)
<1> DEFINE p == rt.prog[k]
           q == rt'.prog[k]
<1>1. rt \in Runtime /\ rt' = ReleaseIdle(rt, k) /\ dispatched' = dispatched
  BY Zenon DEF Release, IInv, TypeOK
<1>2. CASE ~CanRelease(rt, k)
  <2>1. rt' = rt
    BY <1>1, <1>2, ReleaseFacts, Zenon
  <2> QED BY <1>1, <2>1, Zenon DEF Lifecycle!vars, LifePhase, LifePlace, LifeWaiting, LifeRunning,
             PhaseOf, WaitingIds, RunningIds, Outstanding
<1>3. CASE CanRelease(rt, k)
  <2>1. Frame(k)
    BY <1>1, <1>3, ReleaseFacts, FrameFromFacts, Zenon DEF IInv
  <2>2. q = NoProgram /\ rt'.pool = rt.pool /\ rt'.nextId = rt.nextId
    BY <1>1, <1>3, ReleaseFacts, Zenon
  <2>3. /\ p.live /\ p.inFlight = 0 /\ Waiting(rt, k, p.gen) = {}
        /\ ~q.live /\ q.placement = NoTarget /\ q.epoch = 0
    BY <1>3, <2>2, SMTT(30) DEF CanRelease, NoProgram
  <2>4. OneProgram(k) /\ RunningIds(k)' = {}
    BY <1>1, <2>1, <2>2, <2>3, OneProgramKept, NewEpochRunsNothing, Zenon
  <2>5. WaitingIds(k) = {} /\ WaitingIds(k)' = {}
    <3>1. \A r \in rt.pool : r.key # k
      BY <2>3, WaitingIsThePool, Zenon
    <3>2. Waiting(rt, k, rt.prog[k].gen)' = {}
      BY <2>2, <3>1, Zenon DEF Waiting
    <3> QED BY <2>3, <3>2, Zenon DEF WaitingIds
  <2>6. PhaseOf(k) # "absent" /\ PhaseOf(k)' = "absent" /\ RunningIds(k) = {}
    BY <2>3, KeptIds, Zenon DEF PhaseOf
  <2>7. /\ LifePhase' = [LifePhase EXCEPT ![k] = "absent"] /\ LifePlace' = [LifePlace EXCEPT ![k] = NoTarget]
        /\ LifeWaiting' = LifeWaiting /\ LifeRunning' = LifeRunning
        /\ LifePhase[k] # "absent" /\ LifeRunning[k] = {} /\ LifeWaiting[k] = {}
    BY <2>3, <2>4, <2>5, <2>6, Seen, SeenBefore, SeenKept, ZenonT(30)
  <2> QED BY <2>2, <2>7, Zenon DEF Lifecycle!Forget
<1> QED BY <1>2, <1>3, Zenon
(* retain_request: a request arrives.                                      *)
LEMMA LifeRetain == ASSUME IInv, NEW k \in Keys, Retain(k) PROVE Lifecycle!Arrive(k)
<1> DEFINE p == rt.prog[k]
           q == rt'.prog[k]
           n == rt.nextId + 1
           new == [key |-> k, gen |-> q.gen, id |-> n]
<1>1. rt \in Runtime /\ rt' = RetainRequest(rt, k) /\ dispatched' = dispatched
  BY Zenon DEF Retain, IInv, TypeOK
<1>2. Frame(k)
  BY <1>1, RetainFacts, FrameFromFacts, Zenon DEF IInv
<1>3. /\ q.live
      /\ p.live => q.gen = p.gen /\ q.state = p.state /\ q.placement = p.placement /\ q.epoch = p.epoch
      /\ ~p.live => q.state = "Paused" /\ q.placement = NoTarget /\ q.epoch = 0
      /\ rt'.pool = rt.pool \cup {new} /\ rt'.nextId = n
  BY <1>1, RetainFacts, Zenon
<1>4. ~p.live => p.epoch = 0 /\ p.placement = NoTarget
  BY SMTT(30) DEF IInv, AbsentIsBlank, NoProgram
<1>5. new.key = k /\ new.gen = q.gen /\ new.id = n
  BY Zenon
<1> HIDE DEF new
<1>6. OneProgram(k)
  <2>1. \A l \in Keys : l # k => Outstanding(l)' = Outstanding(l)
    BY <1>1, <1>2, Zenon DEF Frame, Outstanding
  <2>2. \A r : r.key # k => (r \in rt'.pool <=> r \in rt.pool)
    BY <1>3, <1>5, Zenon
  <2> QED BY <1>2, <2>1, <2>2, Zenon DEF OneProgram
<1>7. RunningIds(k)' = RunningIds(k)
  <2>1. q.epoch = p.epoch
    BY <1>3, <1>4, Zenon
  <2> QED BY <1>1, <2>1, SameEpochRunsTheSame, Zenon
<1>8. WaitingIds(k)' = WaitingIds(k) \cup {n}
  <2>1. Waiting(rt, k, p.gen) = {r \in rt.pool : r.key = k}
    BY WaitingIsThePool, Zenon
  <2>2. \A r \in rt.pool : r.key = k => r.gen = q.gen
    BY <1>3, Zenon DEF IInv, WaitersAreLive, Current
  <2>3. Waiting(rt', k, q.gen) = Waiting(rt, k, p.gen) \cup {new}
    BY <1>3, <1>5, <2>1, <2>2, Zenon DEF Waiting
  <2> HIDE DEF n
  <2> QED BY <1>5, <2>3, Zenon DEF WaitingIds
<1>9. PhaseOf(k)' = (IF PhaseOf(k) = "absent" THEN "paused" ELSE PhaseOf(k)) /\ q.placement = p.placement
  BY <1>3, <1>4, Zenon DEF PhaseOf
<1>10. /\ LifePhase' = [LifePhase EXCEPT ![k] = IF LifePhase[k] = "absent" THEN "paused" ELSE LifePhase[k]]
       /\ LifeWaiting' = [LifeWaiting EXCEPT ![k] = LifeWaiting[k] \cup {n}]
       /\ LifePlace' = LifePlace /\ LifeRunning' = LifeRunning
  <2>1. LifePlace' = LifePlace /\ LifeRunning' = LifeRunning
    BY <1>6, <1>7, <1>9, SeenKept, Zenon
  <2>2. LifePhase' = [LifePhase EXCEPT ![k] = IF LifePhase[k] = "absent" THEN "paused" ELSE LifePhase[k]]
    BY <1>6, <1>9, Seen, SeenBefore, SMTT(30)
  <2> HIDE DEF n
  <2>3. LifeWaiting' = [LifeWaiting EXCEPT ![k] = LifeWaiting[k] \cup {n}]
    BY <1>6, <1>8, Seen, SeenBefore, SMTT(30)
  <2> QED BY <2>1, <2>2, <2>3, Zenon
<1> QED BY <1>3, <1>10, Zenon DEF Lifecycle!Arrive

(* prune_released_generations is invisible.                                *)
LEMMA LifePrune == ASSUME IInv, Prune PROVE UNCHANGED (Lifecycle!vars)
<1>1. rt'.prog = rt.prog /\ rt'.pool = rt.pool /\ rt'.nextId = rt.nextId /\ dispatched' = dispatched
  <2>1. PICK expired \in SUBSET rt.released :
          rt' = PruneReleased(rt, expired) /\ dispatched' = dispatched
    BY Zenon DEF Prune
  <2>2. rt \in Runtime /\ expired \in SUBSET Keys
    BY RuntimeFields, Zenon DEF IInv, TypeOK
  <2> QED BY <2>1, <2>2, PruneFacts, Zenon
<1> QED BY <1>1, Zenon DEF Lifecycle!vars, LifePhase, LifePlace, LifeWaiting, LifeRunning,
           PhaseOf, WaitingIds, RunningIds, Outstanding, Waiting

(* complete_request ends a request that runs; a late one is invisible.     *)
LEMMA LifeComplete ==
  ASSUME IInv, NEW d \in dispatched, Complete(d)
  PROVE  \/ \E k \in Keys : \E id \in LifeRunning[k] : Lifecycle!Finish(k, id)
         \/ UNCHANGED (Lifecycle!vars)
<1> DEFINE k == d.key
           p == rt.prog[k]
           q == rt'.prog[k]
<1>1. /\ rt \in Runtime /\ d \in Dispatch /\ k \in Keys
      /\ rt' = CompleteRequest(rt, d) /\ dispatched' = dispatched \ {d}
  BY Types, Zenon DEF Complete, IInv, TypeOK
<1>2. \A l \in Keys : d \in Outstanding(l) => l = k /\ Accepts(rt, d)
  <2>1. SUFFICES ASSUME NEW l \in Keys, d \in Outstanding(l)
                 PROVE  l = k /\ Accepts(rt, d)
    BY Zenon
  <2>2. rt.prog[l].live /\ k = l /\ d.gen = rt.prog[l].gen /\ rt.prog[l].epoch = d.epoch
    BY <2>1, Zenon DEF IInv, EpochFences, Outstanding
  <2>3. rt.prog[l].inFlight > 0
    BY <2>1, OutstandingFinite, Types, SMTT(30) DEF IInv, InFlightExact
  <2> QED BY <2>2, <2>3, Zenon DEF Accepts, Current
<1>3. CASE ~Accepts(rt, d)
  <2>1. rt' = rt
    BY <1>1, <1>3, CompleteFacts, Zenon
  <2>2. \A l \in Keys : Outstanding(l)' = Outstanding(l)
    BY <1>1, <1>2, <1>3, <2>1, Zenon DEF Outstanding
  <2>3. LifeRunning' = LifeRunning
    BY <2>2, Zenon DEF LifeRunning, RunningIds
  <2> QED BY <2>1, <2>3, Zenon DEF Lifecycle!vars, LifePhase, LifePlace, LifeWaiting, PhaseOf, WaitingIds
<1>4. CASE Accepts(rt, d)
  <2>1. Frame(k)
    BY <1>1, <1>4, CompleteFacts, FrameFromFacts, Zenon DEF IInv
  <2>2. p.live /\ p.gen = d.gen /\ p.epoch = d.epoch
    BY <1>4, Zenon DEF Accepts, Current
  <2>3. /\ q.live /\ q.gen = p.gen /\ q.state = p.state
        /\ q.placement = p.placement /\ q.epoch = p.epoch
        /\ rt'.pool = rt.pool /\ rt'.nextId = rt.nextId
    BY <1>1, <1>4, <2>2, CompleteFacts, Zenon
  <2>4. d \in Outstanding(k) /\ Outstanding(k)' = Outstanding(k) \ {d}
    BY <1>1, <2>2, <2>3, Zenon DEF Outstanding
  <2>5. OneProgram(k)
    <3>1. \A l \in Keys : l # k => Outstanding(l)' = Outstanding(l)
      BY <1>1, <1>2, <2>1, Zenon DEF Frame, Outstanding
    <3> QED BY <2>1, <2>3, <3>1, Zenon DEF OneProgram
  <2>6. d.id \in RunningIds(k) /\ RunningIds(k)' = RunningIds(k) \ {d.id}
    <3>1. \A e \in Outstanding(k) : e.id = d.id => e = d
      BY Zenon DEF IInv, IdsDistinct, Outstanding
    <3> QED BY <2>4, <3>1, Zenon DEF RunningIds
  <2>7. PhaseOf(k)' = PhaseOf(k) /\ WaitingIds(k)' = WaitingIds(k)
    BY <1>1, <2>1, <2>2, <2>3, SamePool, Zenon DEF PhaseOf
  <2>8. LifePhase' = LifePhase /\ LifePlace' = LifePlace /\ LifeWaiting' = LifeWaiting
    BY <1>1, <2>3, <2>5, <2>7, SeenKept, Zenon
  <2>9. d.id \in LifeRunning[k] /\ LifeRunning' = [LifeRunning EXCEPT ![k] = LifeRunning[k] \ {d.id}]
    BY <1>1, <2>5, <2>6, Seen, SeenBefore, SMTT(30)
  <2>10. Lifecycle!Finish(k, d.id)
    BY <2>3, <2>8, <2>9, Zenon DEF Lifecycle!Finish
  <2> QED BY <1>1, <2>9, <2>10, Zenon
<1> QED BY <1>3, <1>4, Zenon
(* A request that leaves the pool takes its own id, and no other, with it. *)
LEMMA OneLessWaits ==
  ASSUME IInv, NEW r \in rt.pool, rt'.pool = rt.pool \ {r},
         rt'.prog[r.key].gen = rt.prog[r.key].gen
  PROVE  /\ r.id \in WaitingIds(r.key)
         /\ WaitingIds(r.key)' = WaitingIds(r.key) \ {r.id}
         /\ Waiting(rt, r.key, r.gen) = {r} <=> WaitingIds(r.key) = {r.id}
<1> DEFINE k == r.key
           W == Waiting(rt, k, rt.prog[k].gen)
<1>1. k \in Keys /\ rt.prog[k].gen = r.gen
  BY Types, Zenon DEF IInv, WaitersAreLive, Current
<1>2. r \in W /\ \A o \in W : o.id = r.id => o = r
  BY <1>1, Zenon DEF IInv, IdsDistinct, Waiting
<1>3. Waiting(rt', k, rt'.prog[k].gen) = W \ {r}
  BY Zenon DEF Waiting
<1>4. WaitingIds(k) = {o.id : o \in W} /\ WaitingIds(k)' = {o.id : o \in W \ {r}}
  BY <1>3, Zenon DEF WaitingIds
<1> HIDE DEF W
<1>5. {o.id : o \in W \ {r}} = {o.id : o \in W} \ {r.id}
  BY <1>2, Zenon
<1>6. W = {r} <=> {o.id : o \in W} = {r.id}
  <2>1. ASSUME {o.id : o \in W} = {r.id} PROVE W = {r}
    <3>1. \A o \in W : o.id = r.id
      BY <2>1, Zenon
    <3> QED BY <1>2, <3>1, Zenon
  <2> QED BY <2>1, Zenon
<1> QED BY <1>1, <1>2, <1>4, <1>5, <1>6, Zenon DEF W

(* cancel_request withdraws a request.                                     *)
LEMMA LifeCancel ==
  ASSUME IInv, NEW r \in rt.pool, Cancel(r)
  PROVE  r.id \in LifeWaiting[r.key] /\ Lifecycle!Withdraw(r.key, r.id)
<1> DEFINE k == r.key
           p == rt.prog[k]
           q == rt'.prog[k]
           idle == Current(rt, k, r.gen) /\ p.inFlight = 0 /\ Waiting(rt, k, r.gen) = {r}
           empty == RunningIds(k) = {} /\ WaitingIds(k) = {r.id}
<1>1. rt \in Runtime /\ k \in Keys /\ rt' = CancelRequest(rt, r) /\ dispatched' = dispatched
  BY Types, Zenon DEF Cancel, IInv, TypeOK
<1>2. Frame(k)
  BY <1>1, CancelFacts, FrameFromFacts, Zenon DEF IInv
<1>3. p.live /\ p.gen = r.gen /\ Current(rt, k, r.gen)
  BY Zenon DEF IInv, WaitersAreLive, Current
<1>4. /\ q.live /\ q.gen = p.gen /\ q.epoch = p.epoch
      /\ idle => q.state = "Paused" /\ q.placement = NoTarget
      /\ ~idle => q.state = p.state /\ q.placement = p.placement
      /\ rt'.pool = rt.pool \ {r} /\ rt'.nextId = rt.nextId
  BY <1>1, <1>3, CancelFacts, ZenonT(30)
<1>5. /\ r.id \in WaitingIds(k) /\ WaitingIds(k)' = WaitingIds(k) \ {r.id}
      /\ Waiting(rt, k, r.gen) = {r} <=> WaitingIds(k) = {r.id}
  BY <1>4, OneLessWaits, Zenon
<1>6. p.inFlight = 0 <=> RunningIds(k) = {}
  BY <1>1, KeptIds, Zenon
<1>7. idle <=> empty
  BY <1>3, <1>5, <1>6, Zenon
<1> HIDE DEF idle
<1>8. OneProgram(k) /\ RunningIds(k)' = RunningIds(k)
  <2>1. \A l \in Keys : l # k => Outstanding(l)' = Outstanding(l)
    BY <1>1, <1>2, Zenon DEF Frame, Outstanding
  <2>2. \A o : o.key # k => (o \in rt'.pool <=> o \in rt.pool)
    BY <1>4, Zenon
  <2> QED BY <1>1, <1>2, <1>4, <2>1, <2>2, SameEpochRunsTheSame, Zenon DEF OneProgram
<1>9. /\ PhaseOf(k)' = (IF empty THEN "paused" ELSE PhaseOf(k))
      /\ q.placement = (IF empty THEN NoTarget ELSE p.placement)
  <2> HIDE DEF empty
  <2> QED BY <1>3, <1>4, <1>7, Zenon DEF PhaseOf
<1>10. /\ LifeRunning' = LifeRunning
       /\ LifeWaiting' = [LifeWaiting EXCEPT ![k] = LifeWaiting[k] \ {r.id}]
       /\ LifeRunning[k] = RunningIds(k) /\ LifeWaiting[k] = WaitingIds(k)
  BY <1>1, <1>5, <1>8, Seen, SeenBefore, SeenKept, SMTT(30)
<1>11. /\ LifePhase' = [LifePhase EXCEPT ![k] = IF empty THEN "paused" ELSE LifePhase[k]]
       /\ LifePlace' = [LifePlace EXCEPT ![k] = IF empty THEN NoTarget ELSE LifePlace[k]]
  <2> HIDE DEF empty
  <2> QED BY <1>1, <1>8, <1>9, Seen, SeenBefore, SMTT(30)
<1> QED BY <1>4, <1>5, <1>10, <1>11, Zenon DEF Lifecycle!Withdraw

(* admit_front starts a paused Program, runs its oldest request, or both;  *)
(* a refused admission is invisible.                                       *)
LEMMA LifeAdmit ==
  ASSUME IInv, NEW r \in rt.pool, NEW t \in Targets, Admit(r, t)
  PROVE  \/ UNCHANGED (Lifecycle!vars)
         \/ Lifecycle!Start(r.key, t)
         \/ r.id \in LifeWaiting[r.key] /\ Lifecycle!Run(r.key, r.id)
         \/ r.id \in LifeWaiting[r.key] /\ Lifecycle!StartAndRun(r.key, t, r.id)
<1> DEFINE k == r.key
           p == rt.prog[k]
           q == rt'.prog[k]
<1>1. /\ rt \in Runtime /\ k \in Keys /\ rt' = AdmitFront(rt, r, t)
      /\ dispatched' = dispatched \cup DispatchOf(rt, r, t)
  BY Types, Zenon DEF Admit, IInv, TypeOK
<1>2. p.live /\ p.gen = r.gen /\ p.state \in {"Active", "Paused"}
  BY <1>1, Types, Zenon DEF IInv, WaitersAreLive, Current, RuntimeProgram, ProgramState
<1>3. CASE ~Admits(rt, r, t)
  <2>1. rt' = rt /\ dispatched' = dispatched
    BY <1>1, <1>3, RefuseFacts, Zenon
  <2> QED BY <2>1, Zenon DEF Lifecycle!vars, LifePhase, LifePlace, LifeWaiting, LifeRunning,
             PhaseOf, WaitingIds, RunningIds, Outstanding, Waiting
<1>4. CASE Admits(rt, r, t)
  <2>1. /\ Frame(k)
        /\ q.live /\ q.gen = p.gen /\ q.state = "Active" /\ q.placement = t
        /\ rt'.nextId = rt.nextId
    BY <1>4, AdmittedFacts, Zenon
  <2>2. /\ p.state = "Paused" => q.epoch = rt.nextEpoch + 1
        /\ p.state = "Active" => q.epoch = p.epoch /\ p.placement = t
    BY <1>4, AdmittedFacts, Zenon
  <2>3. /\ PhaseOf(k)' = "active"
        /\ PhaseOf(k) = IF p.state = "Active" THEN "active" ELSE "paused"
    BY <1>2, <2>1, Zenon DEF PhaseOf
  <2>4. p.state = "Paused" => RunningIds(k) = {}
    BY <1>1, KeptIds, Zenon
  <2>5. WaitingIds(k) # {}
    BY <1>1, KeptIds, Zenon
  <2>6. CASE ~IsFront(rt, r)
    <3>1. rt'.pool = rt.pool /\ dispatched' = dispatched
      BY <1>4, <2>6, AdmittedFacts, Zenon
    <3>2. OneProgram(k)
      BY <1>1, <2>1, <3>1, OneProgramKept, Zenon
    <3>3. WaitingIds(k)' = WaitingIds(k)
      BY <1>1, <2>1, <3>1, Zenon DEF WaitingIds, Waiting
    <3>4. RunningIds(k)' = RunningIds(k)
      <4>1. CASE p.state = "Paused"
        BY <1>1, <2>2, <2>4, <3>1, <4>1, NewEpochRunsNothing, Zenon
      <4>2. CASE p.state = "Active"
        BY <1>1, <2>2, <3>1, <4>2, SameEpochRunsTheSame, Zenon
      <4> QED BY <1>2, <4>1, <4>2, Zenon
    <3>5. LifeWaiting' = LifeWaiting /\ LifeRunning' = LifeRunning
      BY <1>1, <3>2, <3>3, <3>4, SeenKept, Zenon
    <3>6. CASE p.state = "Active"
      <4>1. LifePhase' = LifePhase /\ LifePlace' = LifePlace
        BY <1>1, <2>1, <2>2, <2>3, <3>2, <3>6, SeenKept, Zenon
      <4> QED BY <2>1, <3>5, <4>1, Zenon DEF Lifecycle!vars
    <3>7. CASE p.state = "Paused"
      <4>1. /\ LifePhase[k] = "paused" /\ LifeWaiting[k] # {}
            /\ LifePhase' = [LifePhase EXCEPT ![k] = "active"]
            /\ LifePlace' = [LifePlace EXCEPT ![k] = t]
        BY <1>1, <2>1, <2>3, <2>5, <3>2, <3>7, Seen, SeenBefore, ZenonT(30)
      <4> QED BY <2>1, <3>5, <4>1, Zenon DEF Lifecycle!Start
    <3> QED BY <1>2, <3>6, <3>7, Zenon
  <2>7. CASE IsFront(rt, r)
    <3>1. rt'.pool = rt.pool \ {r}
      BY <1>4, <2>7, AdmittedFacts, Zenon
    <3>2. PICK d \in Dispatch : /\ dispatched' = dispatched \cup {d} /\ d.id = r.id
                                /\ d.key = k /\ d.epoch = q.epoch
      BY <1>4, <2>7, AdmittedFacts, SMTT(30)
    <3>3. /\ \A l \in Keys : l # k => Outstanding(l)' = Outstanding(l)
          /\ Outstanding(k)' = (IF p.state = "Paused" THEN {} ELSE Outstanding(k)) \cup {d}
      BY <1>4, <3>2, AdmittedRuns, Zenon
    <3>4. RunningIds(k)' = (IF p.state = "Paused" THEN {} ELSE RunningIds(k)) \cup {r.id}
      BY <3>2, <3>3, Zenon DEF RunningIds
    <3>5. OneProgram(k)
      <4>1. \A o : o.key # k => (o \in rt'.pool <=> o \in rt.pool)
        BY <3>1, Zenon
      <4> QED BY <2>1, <3>3, <4>1, Zenon DEF OneProgram
    <3>6. r.id \in WaitingIds(k) /\ WaitingIds(k)' = WaitingIds(k) \ {r.id}
      BY <2>1, <3>1, OneLessWaits, Zenon
    <3>7. \A other \in WaitingIds(k) : r.id <= other
      BY <1>2, <2>7, Zenon DEF IsFront, WaitingIds
    <3>8. /\ LifeWaiting[k] = WaitingIds(k)
          /\ LifeWaiting' = [LifeWaiting EXCEPT ![k] = LifeWaiting[k] \ {r.id}]
      BY <1>1, <3>5, <3>6, Seen, SeenBefore, SMTT(30)
    <3>9. Lifecycle!Oldest(k, r.id)
      BY <3>6, <3>7, <3>8, Zenon DEF Lifecycle!Oldest
    <3>10. CASE p.state = "Active"
      <4>1. LifePhase' = LifePhase /\ LifePlace' = LifePlace
        BY <1>1, <2>1, <2>2, <2>3, <3>5, <3>10, SeenKept, Zenon
      <4>2. /\ LifePhase[k] = "active"
            /\ LifeRunning' = [LifeRunning EXCEPT ![k] = LifeRunning[k] \cup {r.id}]
        BY <1>1, <2>3, <3>4, <3>5, <3>10, Seen, SeenBefore, SMTT(30)
      <4> QED BY <2>1, <3>6, <3>8, <3>9, <4>1, <4>2, Zenon DEF Lifecycle!Run
    <3>11. CASE p.state = "Paused"
      <4>1. /\ LifePhase[k] = "paused"
            /\ LifePhase' = [LifePhase EXCEPT ![k] = "active"]
            /\ LifePlace' = [LifePlace EXCEPT ![k] = t]
        BY <1>1, <2>1, <2>3, <3>5, <3>11, Seen, SeenBefore, ZenonT(30)
      <4>2. LifeRunning' = [LifeRunning EXCEPT ![k] = {r.id}]
        BY <1>1, <3>4, <3>5, <3>11, Seen, SeenBefore, SMTT(30)
      <4> QED BY <2>1, <3>6, <3>8, <3>9, <4>1, <4>2, Zenon DEF Lifecycle!StartAndRun
    <3> QED BY <1>2, <3>10, <3>11, Zenon
  <2> QED BY <2>6, <2>7, Zenon
<1> QED BY <1>3, <1>4, Zenon
(* Every step of the runtime is a step of the life cycle or invisible      *)
(* there.                                                                  *)
LEMMA LifeStep == IInv /\ [Next]_vars => [Lifecycle!Next]_(Lifecycle!vars)
<1> SUFFICES ASSUME IInv, [Next]_vars PROVE [Lifecycle!Next]_(Lifecycle!vars)
  BY Zenon
<1>1. CASE UNCHANGED vars
  <2>1. rt' = rt /\ dispatched' = dispatched
    BY <1>1, Zenon DEF vars
  <2>2. UNCHANGED (Lifecycle!vars)
    BY <2>1, Zenon DEF Lifecycle!vars, LifePhase, LifePlace, LifeWaiting, LifeRunning,
         PhaseOf, WaitingIds, RunningIds, Outstanding, Waiting
  <2> QED BY <2>2, Zenon
<1>2. ASSUME NEW k \in Keys, Retain(k) \/ Pause(k) \/ Release(k)
      PROVE  [Lifecycle!Next]_(Lifecycle!vars)
  <2>1. \/ Lifecycle!Arrive(k) \/ Lifecycle!Pause(k) \/ Lifecycle!Forget(k)
        \/ UNCHANGED (Lifecycle!vars)
    BY <1>2, LifeRetain, LifePause, LifeRelease, Zenon
  <2> QED BY <2>1, Zenon DEF Lifecycle!Next
<1>3. ASSUME NEW k \in Keys, NEW t \in Targets, Resume(k, t)
      PROVE  Lifecycle!Next
  <2>1. Lifecycle!Start(k, t)
    BY <1>3, LifeResume, Zenon
  <2> QED BY <2>1, Zenon DEF Lifecycle!Next
<1>4. ASSUME NEW k \in Keys, NEW removed \in SUBSET Targets, TargetsDisappear(k, removed)
      PROVE  Lifecycle!Next
  <2>1. Lifecycle!LoseTarget(k)
    BY <1>4, LifeInvalidate, Zenon
  <2> QED BY <2>1, Zenon DEF Lifecycle!Next
<1>5. ASSUME NEW r \in rt.pool, Cancel(r)
      PROVE  Lifecycle!Next
  <2>1. r.key \in Keys /\ r.id \in LifeWaiting[r.key] /\ Lifecycle!Withdraw(r.key, r.id)
    BY <1>5, LifeCancel, Types, Zenon DEF IInv, TypeOK
  <2> QED BY <2>1, Zenon DEF Lifecycle!Next
<1>6. ASSUME NEW r \in rt.pool, NEW t \in Targets, Admit(r, t)
      PROVE  [Lifecycle!Next]_(Lifecycle!vars)
  <2>1. r.key \in Keys
    BY Types, Zenon DEF IInv, TypeOK
  <2>2. \/ UNCHANGED (Lifecycle!vars)
        \/ Lifecycle!Start(r.key, t)
        \/ r.id \in LifeWaiting[r.key] /\ Lifecycle!Run(r.key, r.id)
        \/ r.id \in LifeWaiting[r.key] /\ Lifecycle!StartAndRun(r.key, t, r.id)
    BY <1>6, LifeAdmit, Zenon
  <2> QED BY <2>1, <2>2, Zenon DEF Lifecycle!Next
<1>7. ASSUME NEW d \in dispatched, Complete(d)
      PROVE  [Lifecycle!Next]_(Lifecycle!vars)
  <2>1. \/ \E k \in Keys : \E id \in LifeRunning[k] : Lifecycle!Finish(k, id)
        \/ UNCHANGED (Lifecycle!vars)
    BY <1>7, LifeComplete, Zenon
  <2> QED BY <2>1, Zenon DEF Lifecycle!Next
<1>8. CASE Prune
  BY <1>8, LifePrune, Zenon
<1> QED BY <1>1, <1>2, <1>3, <1>4, <1>5, <1>6, <1>7, <1>8, Zenon DEF Next

(* An empty runtime is a life cycle that has not begun.                    *)
LEMMA LifeInitially == Init => Lifecycle!Init
<1> SUFFICES ASSUME Init PROVE Lifecycle!Init
  BY Zenon
<1>1. rt = EmptyRuntime /\ dispatched = {}
  BY Zenon DEF Init
<1>2. /\ \A k \in Keys : rt.prog[k].live = FALSE /\ rt.prog[k].placement = NoTarget
      /\ rt.pool = {} /\ rt.nextId = 0
  BY <1>1, Zenon DEF EmptyRuntime, NoProgram
<1>3. \A k \in Keys : /\ PhaseOf(k) = "absent" /\ WaitingIds(k) = {} /\ RunningIds(k) = {}
  BY <1>1, <1>2, Zenon DEF PhaseOf, WaitingIds, Waiting, RunningIds, Outstanding
<1> QED BY <1>2, <1>3, Zenon DEF Lifecycle!Init, LifePhase, LifePlace, LifeWaiting, LifeRunning

(* The runtime (runtime.rs, program.rs) implements the life cycle of a     *)
(* Program that ProgramLifecycle states: for any set of Programs and       *)
(* targets, any policy and any order of completions, a request runs only   *)
(* after the older ones of its Program, on the target its Program holds,   *)
(* a target is given up only with nothing running on it or lost with all   *)
(* that runs there, and a completion that comes after that changes         *)
(* nothing.                                                                *)
THEOREM RuntimeIsALifecycle == Spec => ImplementsLifecycle
<1>1. Init => Lifecycle!Init
  BY LifeInitially, Zenon
<1>2. Init => IInv
  BY InitEstablishes, Zenon
<1>3. IInv /\ [Next]_vars => IInv'
  BY NextPreserves, Zenon
<1>4. IInv /\ [Next]_vars => [Lifecycle!Next]_(Lifecycle!vars)
  BY LifeStep, Zenon
<1> QED BY <1>1, <1>2, <1>3, <1>4, PTL DEF Spec, ImplementsLifecycle, Lifecycle!Spec
=============================================================================
