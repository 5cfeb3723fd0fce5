---------------------------- MODULE WorkerChoice ------------------------------
(***************************************************************************)
(* Which worker a load-balancing policy or a Program binding strategy      *)
(* picks, as functions of the list it is given.  A worker is [url,         *)
(* healthy, closed, load]: closed says that its circuit breaker lets       *)
(* requests through; a url is [host, rank], rank -1 for a plain one.       *)
(* Positions in a list are 1-based.  A policy that draws at random is the  *)
(* set of what it may pick.                                                *)
(***************************************************************************)
EXTENDS Integers, Sequences, SequencesExt, FiniteSetsExt, Call

(* get_healthy_worker_indices                                               *)
HealthyIndices(workers) ==
  SelectSeq([i \in DOMAIN workers |-> i], LAMBDA i : workers[i].healthy /\ workers[i].closed)

(* The first of the indices with the least load, as min_by_key returns it.  *)
MinLoad(workers, indices) ==
  CHOOSE i \in ToSet(indices) :
    \A j \in ToSet(indices) : workers[i].load < workers[j].load \/ (workers[i].load = workers[j].load /\ i <= j)

-----------------------------------------------------------------------------
(* policies/consistent_hash.rs.  hash is fbi_hash: any function of the      *)
(* virtual nodes <<url, v>> and the keys into the ring's positions.  Of two *)
(* virtual nodes at one position the later one stays.                       *)
RingOf(urls, hash, nodes) ==
  LET points == {hash[<<urls[i], v>>] : i \in DOMAIN urls, v \in nodes}
      owners(p) == {i \in DOMAIN urls : \E v \in nodes : hash[<<urls[i], v>>] = p}
  IN [p \in points |-> urls[Max(owners(p))]]

(* find_worker_by_hash: the first point at or after h, or the first of all. *)
RingFind(ring, h) ==
  LET after == {p \in DOMAIN ring : p >= h}
  IN ring[Min(IF after = {} THEN DOMAIN ring ELSE after)]

(* The position of the target: exactly its URL when it names a rank, else   *)
(* the first worker of its host.                                            *)
PositionOf(workers, target) ==
  LET here == {i \in DOMAIN workers : workers[i].url = target \/ (target.rank < 0 /\ workers[i].url.host = target.host)}
  IN IF here = {} THEN 0 ELSE Min(here)

(* select_worker_with_headers over the ring that is installed.              *)
ConsistentHashSelect(workers, ring, h) ==
  LET healthy == HealthyIndices(workers)
      at == IF DOMAIN ring = {} THEN 0 ELSE PositionOf(workers, RingFind(ring, h))
  IN IF healthy = <<>> THEN 0
     ELSE IF at # 0 /\ workers[at].healthy /\ workers[at].closed THEN at ELSE healthy[1]

ScoreOf(workers, i, score) == score[workers[i].url]

(* rendezvous_hash.rs: the highest score, the last of equal ones.           *)
RendezvousSelect(workers, score) ==
  LET healthy == ToSet(HealthyIndices(workers))
      best == {i \in healthy : \A j \in healthy : ScoreOf(workers, j, score) <= ScoreOf(workers, i, score)}
  IN IF healthy = {} THEN 0 ELSE Max(best)

(* furc_hash: bit[d][k] is the k-th bit read at depth d, whatever the key   *)
(* gives; bits are read until a number below m comes out.                   *)
MaxTries == 2   \* 32 in the code

Depth(m) == Min({d \in 0 .. m : 2 ^ d >= m})

Number(bit, d, k, n) == FoldLeft(LAMBDA num, j : 2 * num + bit[d][k + j], 1, [j \in 1 .. n |-> j])

FurcHash(bit, m) ==
  LET ones(s) == {d \in 0 .. s.d : bit[d][IF d = s.d THEN s.k ELSE 0] = 1}
      try(s, t) ==
        IF s.done THEN s
        ELSE IF ones(s) = {} THEN [s EXCEPT !.done = TRUE, !.num = 0]
        ELSE LET d == Max(ones(s))
                 k == IF d = s.d THEN s.k ELSE 0
                 n == IF d = 0 THEN 0 ELSE d - 1
                 num == Number(bit, d, k, n)
             IN [d |-> d, k |-> k + n + 1, done |-> num < m, num |-> IF num < m THEN num ELSE 0]
  IN IF m <= 1 THEN 0
     ELSE FoldLeft(try, [d |-> Depth(m), k |-> 0, done |-> FALSE, num |-> 0], [t \in 1 .. MaxTries |-> t]).num

-----------------------------------------------------------------------------
(* power_of_two.rs: cached[url] is a set of at most one monitored load.     *)
WorkerLoad(worker, cached) ==
  IF cached[worker.url] # {} THEN CHOOSE n \in cached[worker.url] : TRUE ELSE worker.load

LessLoaded(workers, cached, i, j) ==
  IF WorkerLoad(workers[i], cached) <= WorkerLoad(workers[j], cached) THEN i ELSE j

PowerOfTwoSelect(workers, cached) ==
  LET healthy == ToSet(HealthyIndices(workers))
  IN IF Cardinality(healthy) <= 1 THEN healthy
     ELSE {LessLoaded(workers, cached, i, j) : <<i, j>> \in {p \in healthy \X healthy : p[1] # p[2]}}

(* round_robin.rs                                                           *)
RoundRobinSelect(workers, count) ==
  LET healthy == HealthyIndices(workers)
  IN IF healthy = <<>> THEN 0 ELSE healthy[(count % Len(healthy)) + 1]

-----------------------------------------------------------------------------
(* cache_aware.rs, select_worker_with_headers.  c is [absolute, relative in *)
(* tenths, threshold in tenths]; match is what the tree answers, [known:    *)
(* the model has a tree, tenant, matched, input].  The outcome is the set   *)
(* it may pick, the url whose tree is fed and the tenant that is dropped.   *)

LoadsOf(workers) == HealthyIndices(workers)

IsImbalanced(workers, c) ==
  LET loads == {workers[i].load : i \in ToSet(LoadsOf(workers))}
  IN Max(loads) - Min(loads) > c.absolute /\ Max(loads) * 10 > Min(loads) * c.relative

(* The shortest queue; the tree is fed only where the model has one.        *)
SelectWorkerMinLoad(workers, healthy, match) ==
  LET i == MinLoad(workers, healthy)
  IN [pick |-> {i}, feed |-> IF match.known THEN {workers[i].url} ELSE {}, drop |-> {}]

CacheAwareSelect(workers, c, match) ==
  LET healthy == HealthyIndices(workers)
      hit == match.matched * 10 > c.threshold * match.input /\ match.input > 0
      home == {i \in DOMAIN workers : workers[i].url = match.tenant}
      at == IF ~hit THEN MinLoad(workers, healthy)
            ELSE IF home # {} /\ workers[Min(home)].healthy THEN Min(home) ELSE 0
      to(i) == [pick |-> {i}, feed |-> {workers[i].url}, drop |-> {}]
  IN CASE healthy = <<>> -> [pick |-> {}, feed |-> {}, drop |-> {}]
       [] healthy # <<>> /\ IsImbalanced(workers, c) -> SelectWorkerMinLoad(workers, healthy, match)
       [] healthy # <<>> /\ ~IsImbalanced(workers, c) /\ ~match.known ->
            [pick |-> ToSet(healthy), feed |-> {}, drop |-> {}]
       [] OTHER -> IF at # 0 THEN to(at)
                   ELSE [pick |-> {healthy[1]}, feed |-> {}, drop |-> {match.tenant}]

-----------------------------------------------------------------------------
(* binding/mod.rs.  A candidate is [id, programs, tokens, capacity, matched *)
(* (of the input's characters), pressure in tenths, admissible].            *)
Top(candidates, above(_, _)) ==
  CHOOSE x \in candidates : \A y \in candidates : x = y \/ above(x, y) \/ (~above(y, x) /\ x.id < y.id)

LeastProgramCount(candidates) == Top(candidates, LAMBDA x, y : x.programs < y.programs)

ReasoningTokenBalance(candidates) ==
  Top(candidates, LAMBDA x, y : x.capacity - x.tokens > y.capacity - y.tokens)

(* evaluate_initial_placement: affinity times headroom, then headroom, then *)
(* affinity.                                                                *)
InitialPlacement(candidates, input) ==
  LET headroom(x) == 10 - x.pressure
      score(x) == (input + x.matched) * headroom(x)
  IN Top(candidates, LAMBDA x, y : \/ score(x) > score(y)
                                   \/ score(x) = score(y) /\ headroom(x) > headroom(y)
                                   \/ score(x) = score(y) /\ headroom(x) = headroom(y) /\ x.matched > y.matched)

Eligible(candidates) ==
  LET now == {x \in candidates : x.admissible} IN IF now = {} THEN candidates ELSE now

CacheAwareBinding(candidates, input) == InitialPlacement(Eligible(candidates), input)

RoundRobinBinding(candidates, next) ==
  LET ordered == SetToSortSeq(candidates, LAMBDA x, y : x.id < y.id) IN ordered[(next % Len(ordered)) + 1]

SelectBinding(strategy, candidates, input, next) ==
  CASE strategy = "least_program_count" -> LeastProgramCount(candidates)
    [] strategy = "reasoning_token_balance" -> ReasoningTokenBalance(candidates)
    [] strategy = "cache_aware" -> CacheAwareBinding(candidates, input)
    [] strategy = "program_round_robin" -> RoundRobinBinding(candidates, next)

-----------------------------------------------------------------------------
Without(workers, gone) == [i \in DOMAIN workers |-> IF i = gone THEN [workers[i] EXCEPT !.healthy = FALSE] ELSE workers[i]]

(* A worker that turns unhealthy moves only the sessions that were on it,   *)
(* and one that leaves the list moves no others either: the promise of      *)
(* consistent_hash.rs and rendezvous_hash.rs that a session keeps its       *)
(* worker while that worker serves.                                         *)
OnlyItsSessionsMove ==
  Calling("hash") =>
    LET urls(list) == [i \in DOMAIN list |-> list[i].url]
        chosen(list) == ConsistentHashSelect(list, RingOf(urls(list), call.hash, call.nodes), call.key)
        ranked(list) == RendezvousSelect(list, call.score)
        list == call.workers
    IN \A gone \in DOMAIN list :
         /\ chosen(list) # gone => chosen(Without(list, gone)) = chosen(list) \/ ~list[chosen(list)].healthy
                                   \/ chosen(list) # PositionOf(list, RingFind(RingOf(urls(list), call.hash, call.nodes), call.key))
         /\ ranked(list) # gone => ranked(Without(list, gone)) = ranked(list)

(* The ring itself: taking a worker out of the list leaves every key that   *)
(* was not its own where it was, collisions of virtual nodes included.      *)
LeavingMovesOnlyItsKeys ==
  Calling("hash") =>
    LET urls == [i \in DOMAIN call.workers |-> call.workers[i].url]
        find(list) == RingFind(RingOf(list, call.hash, call.nodes), call.key)
    IN \A gone \in DOMAIN urls :
         (Len(urls) > 1 /\ find(urls) # urls[gone] /\ ~(\E j \in DOMAIN urls \ {gone} : urls[j] = urls[gone])) =>
           find(RemoveAt(urls, gone)) = find(urls)

(* furc_hash always returns a legal bucket, and one more bucket moves a key *)
(* to the new one or not at all (as long as it does not give up).           *)
BucketsGrowConsistently ==
  Calling("furc") =>
    /\ FurcHash(call.bit, call.m) \in 0 .. call.m - 1
    /\ FurcHash(call.bit, call.m + 1) \in {FurcHash(call.bit, call.m), call.m, 0}

(* The worker with strictly the highest load of all is never picked by the  *)
(* power of two choices while another is healthy, wherever each load comes  *)
(* from, and an unhealthy or tripped worker never.                          *)
NeverTheMostLoaded ==
  Calling("two") =>
    \A i \in PowerOfTwoSelect(call.workers, call.cached) :
      /\ call.workers[i].healthy /\ call.workers[i].closed
      /\ LET others == ToSet(HealthyIndices(call.workers)) \ {i}
         IN others # {} => \E j \in others : WorkerLoad(call.workers[i], call.cached) <= WorkerLoad(call.workers[j], call.cached)

(* Round robin takes turns: as many selections as there are healthy         *)
(* workers pick each of them once, wherever the counter stands.             *)
RoundRobinTakesTurns ==
  Calling("two") =>
    LET healthy == HealthyIndices(call.workers)
    IN \A start \in 0 .. Len(call.workers) :
         {RoundRobinSelect(call.workers, start + k) : k \in 0 .. Len(healthy) - 1} = ToSet(healthy)

(* "Unhealthy workers must not affect whether healthy workers use cache     *)
(* affinity or load balancing": the loads of the unhealthy change nothing,  *)
(* a tenant is dropped only when it serves no more, and whoever is picked   *)
(* is healthy.                                                              *)
UnhealthyLoadIsIgnored ==
  Calling("cache") =>
    LET out == CacheAwareSelect(call.workers, call.c, call.match)
        idle == [i \in DOMAIN call.workers |->
                   IF call.workers[i].healthy /\ call.workers[i].closed THEN call.workers[i]
                   ELSE [call.workers[i] EXCEPT !.load = 0]]
    IN /\ out = CacheAwareSelect(idle, call.c, call.match)
       /\ \A i \in out.pick : call.workers[i].healthy
       /\ \A u \in out.drop : \A i \in DOMAIN call.workers : call.workers[i].url = u => ~call.workers[i].healthy

(* A Program is never bound to a candidate that another one beats in what   *)
(* its strategy balances, and under cache_aware to a full rank only when    *)
(* every rank is full.                                                      *)
BindingIsUndominated ==
  Calling("bind") =>
    LET x == SelectBinding(call.strategy, call.candidates, call.input, call.next)
    IN \A y \in call.candidates :
         /\ call.strategy = "least_program_count" => x.programs <= y.programs
         /\ call.strategy = "reasoning_token_balance" => x.capacity - x.tokens >= y.capacity - y.tokens
         /\ call.strategy = "cache_aware" =>
              /\ y.admissible => x.admissible
              /\ (y.admissible = x.admissible /\ y.pressure <= x.pressure /\ y.pressure < 10) => y.matched <= x.matched \/ x.pressure < y.pressure

=============================================================================
