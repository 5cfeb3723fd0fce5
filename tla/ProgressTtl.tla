----------------------------- MODULE ProgressTtl ------------------------------
(***************************************************************************)
(* The numbers behind Progress-TTL admission: the rolling windows of       *)
(* factors.rs, the formulas of policy.rs with the admission test that uses *)
(* them, the backend metrics of observations.rs and the token estimator.   *)
(*                                                                         *)
(* Arithmetic is exact: a fraction is [n, d].  A window is a sequence,     *)
(* oldest first; a sample is [growth, completion, decode, rounds], growth  *)
(* and decode being sets of at most one number.  c is the configuration:   *)
(* ratios are tenths, costs are per token.                                 *)
(***************************************************************************)
EXTENDS Integers, Sequences, SequencesExt, FiniteSetsExt, Call

Ratio(n, d) == [n |-> n, d |-> d]
Whole(n) == Ratio(n, 1)
NoMore(a, b) == a.n * b.d <= b.n * a.d
Lower(a, b) == IF NoMore(a, b) THEN a ELSE b
Plus(a, b) == Ratio(a.n * b.d + b.n * a.d, a.d * b.d)
Times(a, b) == Ratio(a.n * b.n, a.d * b.d)
Over(a, b) == Ratio(a.n * b.d, a.d * b.n)
Minus(a, b) == Plus(a, Ratio(-b.n, b.d))
AtLeast0(a) == IF a.n < 0 THEN Whole(0) ELSE a

Total(ns) == FoldLeft(LAMBDA a, b : a + b, 0, ns)

-----------------------------------------------------------------------------
(* factors.rs                                                               *)
PushBounded(window, sample, limit) ==
  IF limit = 0 THEN window
  ELSE Append(IF Len(window) = limit THEN Tail(window) ELSE window, sample)

WindowComplete(window, limit) == limit > 0 /\ Len(window) >= limit

(* The mean of the values that are there, as a set of at most one fraction. *)
OptionalAverage(values) ==
  IF values = <<>> THEN {} ELSE {Ratio(Total(values), Len(values))}

Average(values) == IF values = <<>> THEN Whole(0) ELSE Ratio(Total(values), Len(values))

Present(window, field(_)) ==
  LET got == SelectSeq(window, LAMBDA s : field(s) # {})
  IN [i \in DOMAIN got |-> CHOOSE v \in field(got[i]) : TRUE]

AverageContextGrowth(window) == Average(Present(window, LAMBDA s : s.growth))

AverageDecodeSeconds(window) ==
  OptionalAverage(SelectSeq(Present(window, LAMBDA s : s.decode), LAMBDA v : v >= 0))

AverageRounds(window) == Average([i \in DOMAIN window |-> window[i].rounds])

AverageCompletion(window) == Average([i \in DOMAIN window |-> window[i].completion])

-----------------------------------------------------------------------------
(* policy.rs                                                                *)
CacheMissImpact(c, tokens) ==
  IF tokens = 0 THEN Whole(0)
  ELSE Ratio((c.intercept + c.linear * tokens + c.quadratic * tokens * tokens) * (20 - c.alpha), 10)

Lesser(a, b) == IF a < b THEN a ELSE b

MinTtl == 1   \* the 0.05 s of the code, the unit of a TTL here

TtlLimit(c, impact) == Lesser(c.maxTtl, impact)

(* The grid between the least and the largest TTL, in the code's order.     *)
TtlCandidates(limit) ==
  LET least == Lesser(MinTtl, limit)
  IN <<0, least, limit>> \o (IF limit > least THEN [i \in 1 .. limit - least + 1 |-> least + i - 1] ELSE <<>>)

(* The log-normal fit gives each TTL above zero a utility; utility is any   *)
(* such fit.                                                                *)
FittedActingTtl(c, intervals, impact, utility) ==
  LET limit == TtlLimit(c, impact)
      worth(t) == IF t <= 0 THEN 0 ELSE utility[t]
      better(best, t) == IF worth(t) >= worth(best) THEN t ELSE best
  IN IF ~WindowComplete(intervals, c.window) \/ ~(\E i \in DOMAIN intervals : intervals[i] > 0)
        \/ limit <= 0
       THEN 0
       ELSE FoldLeft(better, 0, TtlCandidates(limit))

Ceiling(a) == -((-a.n) \div a.d)

TargetRounds(c, window) ==
  IF ~WindowComplete(window, c.window) THEN 0
  ELSE LET twice == Ceiling(Times(Whole(2), AverageRounds(window)))
       IN IF twice < 1 THEN 1 ELSE Lesser(twice, c.maxRounds)

GrowthReserve(c, window, remaining) ==
  IF TargetRounds(c, window) <= 0 THEN Whole(0)
  ELSE Times(AverageContextGrowth(window), Whole(TargetRounds(c, window) + Total(remaining)))

DecodeThroughput(c, batch, context) == Ratio(batch, c.fixed + c.step * batch + c.context * context)

NoLossWhenFull(before, after, costs) ==   \* mutant: a rank left without rounds costs nothing
  IF costs = <<>> \/ after.n <= 0 THEN Whole(0)
  ELSE Times(Over(AtLeast0(Minus(before, after)), after), Average(costs))

Unbounded == [n |-> 1000000, d |-> 1]   \* f64::INFINITY: above every gain

(* What shortening the protected Programs' continuous execution costs.      *)
ContinuityLoss(before, after, costs) ==
  IF before.n > 0 /\ after.n <= 0 THEN Unbounded
  ELSE IF costs = <<>> \/ after.n <= 0 THEN Whole(0)
  ELSE Times(Over(AtLeast0(Minus(before, after)), after), Average(costs))

Low(c) == Ratio(c.capacity * c.low, 10)

(* estimate_batch_gain: what one more request in the decode batch is worth, *)
(* against the candidate's recovery and the continuity it takes from others.*)
BatchGainAdmits(c, window, running, used, required, candidate, protected) ==
  LET before == DecodeThroughput(c, Len(running), Total(running))
      after == DecodeThroughput(c, Len(running) + 1, Total(running) + candidate)
      measured == AverageDecodeSeconds(window)
      seconds == IF measured # {} THEN CHOOSE v \in measured : TRUE
                 ELSE Over(Times(Whole(Len(running)), AverageCompletion(window)), before)
      growth == AverageContextGrowth(window)
      rounds == Whole(Total([i \in DOMAIN protected |-> protected[i].rounds]))
      room == AtLeast0(Minus(Low(c), Whole(used)))
      left == AtLeast0(Minus(room, Plus(Whole(required), Times(growth, Whole(TargetRounds(c, window))))))
      loss == IF growth.n <= 0 THEN Whole(0)
              ELSE ContinuityLoss(Lower(rounds, Over(room, growth)), Lower(rounds, Over(left, growth)),
                                  [i \in DOMAIN protected |-> protected[i].cost])
  IN /\ c.gain /\ WindowComplete(window, c.window) /\ running # <<>> /\ seconds.n > 0
     /\ NoMore(Plus(CacheMissImpact(c, candidate), loss),
            Times(seconds, AtLeast0(Minus(Over(after, before), Whole(1)))))

(* rank_admission_plan of one rank for a waiting Program, whose forced      *)
(* deadline, usage and active Programs ([done, cost, context, reasoning])   *)
(* are given.  busy: a fresh observation counts too many waiting requests.  *)
(* A rank without a token capacity (NoCapacity) only counts its Programs.   *)
NoCapacity == -1

CountFits(c, active) == Len(active) + 1 <= c.maxActive

ImmediateFits(c, used, required) == NoMore(Whole(used + required), Low(c))

Admitted(c, window, busy, forced, active, used, required, candidate) ==
  LET rounds == TargetRounds(c, window)
      left(a) == IF rounds > a.done THEN rounds - a.done ELSE 0
      reserve == GrowthReserve(c, window, [i \in DOMAIN active |-> left(active[i])])
      kept == SelectSeq(active, LAMBDA a : left(a) > 0)
      running == SelectSeq(active, LAMBDA a : a.reasoning)
      costs == [i \in DOMAIN kept |-> [rounds |-> left(kept[i]), cost |-> kept[i].cost]]
  IN /\ ~busy
     /\ \/ forced
        \/ /\ CountFits(c, active)
           /\ \/ c.capacity = NoCapacity
              \/ /\ ImmediateFits(c, used, required)
                 /\ \/ NoMore(Plus(Whole(used + required), reserve), Low(c))
                    \/ BatchGainAdmits(c, window, [i \in DOMAIN running |-> running[i].context], used,
                                       required, candidate, costs)

-----------------------------------------------------------------------------
(* observations.rs.  A metrics line is [kind, name, engine, value]: kind    *)
(* tells comments and lines without a value apart, engine is the label's    *)
(* value, -1 when it is missing or not a number, value a set of at most one *)
(* number.                                                                  *)
NoMetrics == [usage |-> {}, running |-> {}, waiting |-> {}]

EngineOf(line) == IF line.engine < 0 THEN 0 ELSE line.engine

ParseVllmMetrics(lines, engine) ==
  LET own == SelectSeq(lines, LAMBDA l : l.kind = "series" /\ EngineOf(l) = engine)
      step(m, l) == IF l.name \in DOMAIN m THEN [m EXCEPT ![l.name] = l.value] ELSE m
  IN IF own = <<>> THEN {} ELSE {FoldLeft(step, NoMetrics, own)}

RankOf(target) == IF target.rank < 0 THEN 0 ELSE target.rank

(* observe: one scrape per base URL; a target is a [id, base, rank], a      *)
(* scrape that failed is the empty set.                                     *)
ObserveTargets(targets, scrapes) ==
  LET got(t) == UNION {ParseVllmMetrics(s, RankOf(t)) : s \in scrapes[t.base]}
  IN UNION {{[id |-> t.id, metrics |-> m] : m \in got(t)} : t \in ToSet(targets)}

-----------------------------------------------------------------------------
(* token_estimator.rs: the coefficient in tokens per byte.                  *)
DefaultCoefficient == Ratio(1, 4)

ObservedCoefficient(actual, bytes) ==
  LET raw == Ratio(actual, bytes)
  IN IF NoMore(raw, Ratio(1, 100)) THEN Ratio(1, 100) ELSE IF NoMore(Whole(4), raw) THEN Whole(4) ELSE raw

ObserveUsage(coefficient, actual, bytes) ==
  IF bytes = 0 \/ actual = 0 THEN coefficient
  ELSE Plus(Times(Ratio(9, 10), coefficient), Times(Ratio(1, 10), ObservedCoefficient(actual, bytes)))

EstimateTokens(coefficient, bytes) ==
  LET tokens == Ceiling(Times(Whole(bytes), coefficient)) IN IF tokens < 1 THEN 1 ELSE tokens

-----------------------------------------------------------------------------
(* A retained Program is never kept longer than recomputing its context     *)
(* would cost or than the configured limit, never before the interval       *)
(* window is full, and no candidate TTL is worth more (fitted_acting_ttl).  *)
TtlIsWorthItsCost ==
  Calling("ttl") =>
    LET ttl == FittedActingTtl(call.c, call.intervals, call.impact, call.utility)
        worth(t) == IF t = 0 THEN 0 ELSE call.utility[t]
        full == Len(call.intervals) >= call.c.window /\ \E i \in DOMAIN call.intervals : call.intervals[i] > 0
    IN /\ ttl <= call.c.maxTtl /\ (ttl > 0 => full /\ ttl <= call.impact)
       /\ worth(ttl) >= 0
       /\ full => \A t \in 0 .. Lesser(call.c.maxTtl, call.impact) : worth(t) <= worth(ttl)

(* A window of samples is the newest of them, as many as it may hold.       *)
WindowsKeepTheNewest ==
  Calling("ttl") =>
    \A limit \in 0 .. Len(call.intervals) + 1 :
      FoldLeft(LAMBDA w, s : PushBounded(w, s, limit), <<>>, call.intervals)
        = SubSeq(call.intervals, Len(call.intervals) - Lesser(limit, Len(call.intervals)) + 1, Len(call.intervals))

AdmittedAt(used) ==
  Admitted(call.c, call.window, call.busy, call.forced, call.active, used, call.required, call.candidate)

(* "It never bypasses immediate capacity or Program-count limits"           *)
(* (docs/program_scheduling.md): whatever the modelled gain, a Program that *)
(* is not forced in fits below the low watermark, where there is one, and   *)
(* the count.                                                               *)
GainNeverBypassesCapacity ==
  (Calling("admit") /\ ~call.forced /\ AdmittedAt(call.used)) =>
    /\ call.c.capacity # NoCapacity => (call.used + call.required) * 10 <= call.c.capacity * call.c.low
    /\ Len(call.active) < call.c.maxActive

(* Less usage never turns an admission into a refusal: the two tests and    *)
(* the continuity loss agree on what a fuller rank means, though the loss   *)
(* is not monotone by itself.                                               *)
AdmissionIsMonotone ==
  Calling("admit") /\ call.used > 0 /\ AdmittedAt(call.used) => AdmittedAt(call.used - 1)

(* Each target is given the numbers of its own engine on its own host, and  *)
(* a scrape that fails or changes elsewhere changes nothing for it.         *)
ObservationsAreOfTheirEngine ==
  Calling("scrape") =>
    \A o \in ObserveTargets(call.targets, call.scrapes) :
      \E t \in ToSet(call.targets) :
        /\ t.id = o.id
        /\ o \in ObserveTargets(<<t>>, [b \in DOMAIN call.scrapes |-> IF b = t.base THEN call.scrapes[b] ELSE {}])
        /\ \A s \in call.scrapes[t.base] :
             o \in ObserveTargets(<<t>>, [b \in DOMAIN call.scrapes |->
                     {SelectSeq(s, LAMBDA l : l.engine = t.rank \/ (l.engine < 0 /\ t.rank <= 0) \/ (l.engine = 0 /\ t.rank < 0))}])

(* However far off the reports of the backend are, the coefficient stays    *)
(* within its bounds, so an estimate is at least one token and at most four *)
(* per byte.                                                                *)
EstimatesStayBounded ==
  Calling("estimate") =>
    LET step(k, o) == ObserveUsage(k, o.actual, o.bytes)
        final == FoldLeft(step, DefaultCoefficient, call.reports)
    IN /\ NoMore(Ratio(1, 100), final) /\ NoMore(final, Whole(4))
       /\ EstimateTokens(final, call.bytes) \in 1 .. (IF call.bytes = 0 THEN 1 ELSE 4 * call.bytes)

=============================================================================
