---------------------------- MODULE IngestProofs ----------------------------
(***************************************************************************)
(* KV-event ingest, for any blocks, any number of batches, restarts and    *)
(* faults, and any replay depth: nothing stale is credited while a source  *)
(* is exposed, and no answer carries a match of a suspended source.        *)
(*                                                                         *)
(* The invariant says where the subscriber is in the handling of one       *)
(* message (Flow), by what is still to do, and what each place has to know *)
(* of the credit: it comes from the batches of one epoch up to the one     *)
(* reached (Credits), or is gone (after a clear), or may be anything while *)
(* the source is hidden and about to be cleared (Purging).                 *)
(***************************************************************************)
EXTENDS KvIngest, Induction, SequenceTheorems

-----------------------------------------------------------------------------
(* The engine's cache as a function of the log.                             *)

CacheOf(log, n) == CacheAfter(SubSeq(log, 1, n))

CacheRule(seq, g) ==
  g = [s \in SUBSET DOMAIN seq |-> IF s = {} THEN {} ELSE Effect(g[s \ {Max(s)}], seq[Max(s)])]

(* The fold over a log, as the function it chooses.                         *)
LEMMA FoldIsACache ==
  ASSUME NEW seq
  PROVE  CacheAfter(seq) = (CHOOSE g : CacheRule(seq, g))[DOMAIN seq]
BY Zenon DEF CacheAfter, MapThenFoldSet, CacheRule

(* A batch leaves the cache a set of blocks.                                *)
LEMMA EffectIn ==
  ASSUME NEW v \in SUBSET AllBlocks, NEW ev \in Events
  PROVE  Effect(v, ev) \in SUBSET AllBlocks
BY DEF Effect, Events

(* Max is the greatest number of a nonempty finite set.                     *)
LEMMA MaxIsIn ==
  ASSUME NEW S \in SUBSET Int, IsFiniteSet(S), S # {}
  PROVE  Max(S) \in S /\ \A y \in S : Max(S) >= y
BY GreatestExists, Zenon DEF Max

(* A function obeying the rule of the cache exists.                         *)
LEMMA CacheExists ==
  ASSUME NEW seq \in Seq(Events)
  PROVE  \E g \in [SUBSET DOMAIN seq -> SUBSET AllBlocks] : CacheRule(seq, g)
<1> DEFINE S == DOMAIN seq
           V == SUBSET AllBlocks
<1>1. IsFiniteSet(S) /\ S \subseteq Int /\ S = 1 .. Len(seq)
  BY FS_Interval
<1>2. PICK c : c = [s \in SUBSET S |-> Max(s)]
  BY Zenon
<1>3. PICK step : step = [s \in SUBSET S |-> [v \in V |-> Effect(v, seq[Max(s)])]]
  BY Zenon
<1>4. ASSUME NEW s \in SUBSET S, s # {} PROVE c[s] = Max(s) /\ c[s] \in s
  <2>1. IsFiniteSet(s) /\ s \in SUBSET Int
    BY <1>1, FS_Subset
  <2> QED
    BY <1>2, <1>4, <2>1, MaxIsIn
<1>5. ASSUME NEW s \in SUBSET S, s # {}, NEW v \in V
      PROVE  step[s][v] = Effect(v, seq[Max(s)]) /\ step[s][v] \in V
  <2>1. step[s][v] = Effect(v, seq[Max(s)])
    BY <1>3
  <2>2. seq[Max(s)] \in Events
    BY <1>4, <1>5
  <2> QED
    BY <2>1, <2>2, EffectIn
<1>6. PICK g \in [SUBSET S -> V] : \A s \in SUBSET S : g[s] = IF s = {} THEN {} ELSE step[s][g[s \ {c[s]}]]
  <2>1. {} \in V
    OBVIOUS
  <2> HIDE DEF S, V
  <2>2. ChoosesFrom(S, c) /\ StepsIn(S, V, step)
    BY <1>4, <1>5, Zenon DEF ChoosesFrom, StepsIn
  <2>3. \E g : Follows(S, V, {}, c, step, g)
    BY <1>1, <2>1, <2>2, SubsetRecursion, Zenon
  <2> QED
    BY <2>3, Zenon DEF Follows
<1>7. ASSUME NEW s \in SUBSET S PROVE g[s] = IF s = {} THEN {} ELSE Effect(g[s \ {Max(s)}], seq[Max(s)])
  <2>1. CASE s = {}
    BY <1>6, <2>1, Zenon
  <2>2. CASE s # {}
    <3>1. g[s] = step[s][g[s \ {Max(s)}]]
      BY <1>4, <1>6, <2>2
    <3>2. g[s \ {Max(s)}] \in V
      OBVIOUS
    <3> QED
      BY <1>5, <2>2, <3>1, <3>2
  <2> QED
    BY <2>1, <2>2
<1>8. g = [s \in SUBSET S |-> IF s = {} THEN {} ELSE Effect(g[s \ {Max(s)}], seq[Max(s)])]
  BY <1>7
<1> QED
  BY <1>8, Zenon DEF CacheRule

(* The greatest number of 1 .. n, and what is left without it.              *)
LEMMA MaxOfInterval ==
  ASSUME NEW k \in Nat
  PROVE  Max(1 .. k + 1) = k + 1 /\ (1 .. k + 1) \ {k + 1} = 1 .. k /\ 1 .. k + 1 # {}
<1>1. IsFiniteSet(1 .. k + 1) /\ 1 .. k + 1 \in SUBSET Int /\ k + 1 \in 1 .. k + 1
  BY FS_Interval
<1>2. PICK m : m = Max(1 .. k + 1)
  OBVIOUS
<1>3. m \in 1 .. k + 1 /\ \A y \in 1 .. k + 1 : m >= y
  BY <1>1, <1>2, MaxIsIn
<1>4. m = k + 1
  BY <1>1, <1>3
<1>5. (1 .. k + 1) \ {k + 1} = 1 .. k
  OBVIOUS
<1> QED
  BY <1>1, <1>2, <1>4, <1>5

(* The first places of a sequence are places of it.                         *)
LEMMA Segment ==
  ASSUME NEW seq \in Seq(Events), NEW k \in Nat, k <= Len(seq)
  PROVE  1 .. k \in SUBSET DOMAIN seq
<1>1. PICK n \in Nat : n = Len(seq) /\ DOMAIN seq = 1 .. n
  BY SMT
<1>2. k <= n
  BY <1>1, Zenon
<1>3. 1 .. k \subseteq 1 .. n
  BY <1>2, SMT
<1> QED
  BY <1>1, <1>3, Zenon

(* The caches of two logs agree as far as the logs do.                      *)
Agree(seq, seq2, m) ==
  /\ seq \in Seq(Events) /\ seq2 \in Seq(Events) /\ m \in Nat
  /\ m <= Len(seq) /\ m <= Len(seq2) /\ \A i \in 1 .. m : seq[i] = seq2[i]

SameCache(g, g2, m) == g[1 .. m] = g2[1 .. m]

(* Two functions obeying the rule for a log and for a longer one agree on   *)
(* what they share.                                                         *)
LEMMA CachesAgree ==
  ASSUME NEW seq, NEW seq2, NEW m, Agree(seq, seq2, m),
         NEW g, CacheRule(seq, g), NEW g2, CacheRule(seq2, g2)
  PROVE  SameCache(g, g2, m)
<1> DEFINE N == {k \in Nat : k <= m => g[1 .. k] = g2[1 .. k]}
<1>0. ASSUME NEW k \in Nat, k <= m
      PROVE  /\ 1 .. k \in SUBSET DOMAIN seq /\ 1 .. k \in SUBSET DOMAIN seq2
  <2>1. PICK n \in Nat, n2 \in Nat : n = Len(seq) /\ n2 = Len(seq2) /\ m <= n /\ m <= n2 /\ m \in Nat
    BY SMT DEF Agree
  <2>2. k <= n /\ k <= n2
    BY <1>0, <2>1, SMT
  <2> QED
    BY <2>1, <2>2, Segment, Zenon DEF Agree
<1>1. 0 \in N
  <2>1. 1 .. 0 = {}
    OBVIOUS
  <2>2. g[{}] = {} /\ g2[{}] = {}
    BY SMT DEF CacheRule
  <2> QED
    BY <2>1, <2>2, Zenon
<1>2. ASSUME NEW k \in Nat, k \in N PROVE k + 1 \in N
  <2>1. ASSUME k + 1 <= m PROVE g[1 .. k + 1] = g2[1 .. k + 1]
    <3>0. k + 1 \in Nat /\ k <= m /\ k + 1 \in 1 .. m
      BY <2>1, SMT DEF Agree
    <3>1. g[1 .. k] = g2[1 .. k]
      BY <1>2, <3>0, Zenon
    <3>2. PICK I : I = 1 .. k + 1
      BY Zenon
    <3>3. I \in SUBSET DOMAIN seq /\ I \in SUBSET DOMAIN seq2
      BY <1>0, <2>1, <3>0, <3>2, Zenon
    <3>4. Max(I) = k + 1 /\ I \ {Max(I)} = 1 .. k /\ I # {}
      BY <3>2, MaxOfInterval, Zenon
    <3>5. seq[k + 1] = seq2[k + 1]
      BY <3>0, Zenon DEF Agree
    <3>6. g[I] = Effect(g[I \ {Max(I)}], seq[Max(I)]) /\ g2[I] = Effect(g2[I \ {Max(I)}], seq2[Max(I)])
      BY <3>3, <3>4, Zenon DEF CacheRule
    <3> QED
      BY <3>1, <3>2, <3>4, <3>5, <3>6, Zenon
  <2>2. k + 1 \in Nat
    BY SMT
  <2> QED
    BY <2>1, <2>2, Zenon
<1>3. m \in N
  <2>1. m \in Nat
    BY Zenon DEF Agree
  <2> HIDE DEF N
  <2> QED
    BY <1>1, <1>2, <2>1, SetInduction, Zenon
<1>4. m <= m
  BY SMT DEF Agree
<1> QED
  BY <1>3, <1>4, Zenon DEF SameCache

(* The cache after n batches is given by a function obeying the rule.       *)
LEMMA CacheIsRule ==
  ASSUME NEW log \in Seq(Events), NEW n \in Nat, n <= Len(log)
  PROVE  /\ SubSeq(log, 1, n) \in Seq(Events) /\ Len(SubSeq(log, 1, n)) = n
         /\ \A i \in 1 .. n : SubSeq(log, 1, n)[i] = log[i]
         /\ \E g : CacheRule(SubSeq(log, 1, n), g) /\ CacheOf(log, n) = g[1 .. n]
<1>1. PICK seq : seq = SubSeq(log, 1, n)
  BY Zenon
<1>2. seq \in Seq(Events) /\ Len(seq) = n /\ \A i \in 1 .. n : seq[i] = log[i]
  BY <1>1
<1>3. PICK g : g = CHOOSE f : CacheRule(seq, f)
  OBVIOUS
<1>4. CacheRule(seq, g)
  BY <1>2, <1>3, CacheExists, Zenon
<1>5. CacheOf(log, n) = g[DOMAIN seq]
  BY <1>1, <1>3, FoldIsACache, Zenon DEF CacheOf
<1>6. DOMAIN seq = 1 .. n
  BY <1>2
<1> QED
  BY <1>1, <1>2, <1>4, <1>5, <1>6

(* The engine's cache after one more batch is the effect of that batch.     *)
LEMMA CacheGrows ==
  ASSUME NEW log \in Seq(Events), NEW n \in Nat, n < Len(log)
  PROVE  CacheOf(log, n + 1) = Effect(CacheOf(log, n), log[n + 1])
<1>1. PICK seq : seq = SubSeq(log, 1, n)
  BY Zenon
<1>2. PICK seq2 : seq2 = SubSeq(log, 1, n + 1)
  BY Zenon
<1>3. /\ seq \in Seq(Events) /\ Len(seq) = n /\ \A i \in 1 .. n : seq[i] = log[i]
      /\ \E g : CacheRule(seq, g) /\ CacheOf(log, n) = g[1 .. n]
  BY <1>1, CacheIsRule
<1>4. /\ seq2 \in Seq(Events) /\ Len(seq2) = n + 1 /\ \A i \in 1 .. n + 1 : seq2[i] = log[i]
      /\ \E g : CacheRule(seq2, g) /\ CacheOf(log, n + 1) = g[1 .. n + 1]
  BY <1>2, CacheIsRule
<1>5. PICK g : CacheRule(seq, g) /\ CacheOf(log, n) = g[1 .. n]
  BY <1>3
<1>6. PICK g2 : CacheRule(seq2, g2) /\ CacheOf(log, n + 1) = g2[1 .. n + 1]
  BY <1>4
<1>7. \A i \in 1 .. n : seq[i] = seq2[i]
  BY <1>3, <1>4
<1>8. g[1 .. n] = g2[1 .. n]
  <2>1. Agree(seq, seq2, n)
    BY <1>3, <1>4, <1>7, SMT DEF Agree
  <2>2. CacheRule(seq, g) /\ CacheRule(seq2, g2)
    BY <1>5, <1>6, Zenon
  <2>3. SameCache(g, g2, n)
    BY <2>1, <2>2, CachesAgree, Zenon
  <2> QED
    BY <2>3, Zenon DEF SameCache
<1>9. PICK I : I = 1 .. n + 1
  OBVIOUS
<1>10. I \in SUBSET DOMAIN seq2 /\ I # {} /\ Max(I) = n + 1 /\ I \ {Max(I)} = 1 .. n
  <2>1. n + 1 \in Nat /\ n + 1 <= Len(seq2)
    BY <1>4, SMT
  <2>2. I \in SUBSET DOMAIN seq2
    BY <1>4, <1>9, <2>1, Segment, Zenon
  <2> QED
    BY <1>9, <2>2, MaxOfInterval, Zenon
<1>11. g2[I] = Effect(g2[I \ {Max(I)}], seq2[Max(I)])
  BY <1>6, <1>10, Zenon DEF CacheRule
<1>12. seq2[n + 1] = log[n + 1]
  BY <1>4
<1> QED
  BY <1>5, <1>6, <1>8, <1>9, <1>10, <1>11, <1>12, Zenon

(* What is appended to a log does not change the cache after an earlier     *)
(* batch.                                                                   *)
LEMMA CacheKeeps ==
  ASSUME NEW log \in Seq(Events), NEW ev \in Events, NEW n \in Nat, n <= Len(log)
  PROVE  CacheOf(Append(log, ev), n) = CacheOf(log, n)
<1>1. SubSeq(Append(log, ev), 1, n) = SubSeq(log, 1, n)
  OBVIOUS
<1> QED
  BY <1>1, Zenon DEF CacheOf

-----------------------------------------------------------------------------
(* What the subscriber still has to do, as operations put before others.    *)

Ops == {"hide", "bump", "clear", "apply", "show", "replay"}

Push(a, s) == <<a>> \o s

(* A sequence with the elements of two others, one after the other, is      *)
(* their concatenation.                                                     *)
LEMMA ConcatIs ==
  ASSUME NEW S, NEW s \in Seq(S), NEW u \in Seq(S), NEW t \in Seq(S), Len(t) = Len(s) + Len(u),
         \A i \in 1 .. Len(s) : t[i] = s[i],
         \A i \in 1 .. Len(u) : t[Len(s) + i] = u[i]
  PROVE  s \o u = t
<1>1. Len(s) \in Nat /\ Len(u) \in Nat
  BY LenProperties, Zenon
<1>2. PICK m, n \in Nat : m = Len(s) /\ n = Len(u)
  BY <1>1, Zenon
<1>3. PICK c : c = s \o u
  BY Zenon
<1>4. /\ c \in Seq(S) /\ Len(c) = Len(t)
      /\ \A i \in 1 .. m + n : c[i] = IF i <= m THEN s[i] ELSE u[i - m]
  BY <1>2, <1>3, ConcatProperties, Zenon
<1>5. ASSUME NEW i \in 1 .. m + n PROVE c[i] = t[i]
  <2>1. CASE i <= m
    <3>1. i \in 1 .. m
      BY <1>2, <2>1
    <3> QED BY <1>2, <1>4, <2>1, <3>1, Zenon
  <2>2. CASE ~(i <= m)
    <3>1. i - m \in 1 .. n /\ m + (i - m) = i
      BY <1>2, <2>2
    <3> QED BY <1>2, <1>4, <2>2, <3>1, Zenon
  <2> QED BY <2>1, <2>2, Zenon
<1> QED BY <1>2, <1>3, <1>4, <1>5, SeqEqual, Zenon

(* One element before a sequence.                                           *)
LEMMA OneBefore ==
  ASSUME NEW S, NEW a \in S, NEW o \in Seq(S), Len(o) = 1, o[1] = a, NEW s \in Seq(S)
  PROVE  /\ o \o s \in Seq(S) /\ Len(o \o s) = Len(s) + 1 /\ (o \o s)[1] = a
         /\ \A i \in 1 .. Len(s) : (o \o s)[i + 1] = s[i]
<1>1. /\ o \o s \in Seq(S) /\ Len(o \o s) = Len(o) + Len(s)
      /\ \A i \in 1 .. Len(o) + Len(s) : (o \o s)[i] = IF i <= Len(o) THEN o[i] ELSE s[i - Len(o)]
  BY ConcatProperties, Zenon
<1>2. PICK t \in Seq(S) : t = o \o s
  BY <1>1, Zenon
<1>3. /\ Len(t) = Len(o) + Len(s)
      /\ \A i \in 1 .. Len(o) + Len(s) : t[i] = IF i <= Len(o) THEN o[i] ELSE s[i - Len(o)]
  BY <1>1, <1>2, Zenon
<1>4. Len(t) = Len(s) + 1 /\ t[1] = a /\ \A i \in 1 .. Len(s) : t[i + 1] = s[i]
  BY <1>3
<1> QED
  BY <1>2, <1>4, Zenon

(* One element and another.                                                 *)
LEMMA TwoOnes ==
  ASSUME NEW S, NEW a \in S, NEW b \in S
  PROVE <<a>> \o <<b>> = <<a, b>>
<1>10. <<a>> \in Seq(S) /\ Len(<<a>>) = 1 /\ <<a>>[1] = a
  OBVIOUS
<1>1. PICK s \in Seq(S) : s = <<a>> /\ Len(s) = 1 /\ s[1] = a
  BY <1>10, Zenon
<1>20. <<b>> \in Seq(S) /\ Len(<<b>>) = 1 /\ <<b>>[1] = b
  OBVIOUS
<1>2. PICK u \in Seq(S) : u = <<b>> /\ Len(u) = 1 /\ u[1] = b
  BY <1>20, Zenon
<1>30. <<a, b>> \in Seq(S) /\ Len(<<a, b>>) = 2 /\ <<a, b>>[1] = a /\ <<a, b>>[2] = b
  OBVIOUS
<1>3. PICK t \in Seq(S) : t = <<a, b>> /\ Len(t) = 2 /\ t[1] = a /\ t[2] = b
  BY <1>30, Zenon
<1>4. \A i \in 1 .. Len(s) : t[i] = s[i]
  <2> HIDE <1>3
  <2>1. s[1] = a /\ t[1] = a /\ Len(s) = 1
    BY <1>1, <1>3, Zenon
  <2> QED BY <2>1
<1>5. \A i \in 1 .. Len(u) : t[Len(s) + i] = u[i]
  <2>1. u[1] = b /\ t[2] = b /\ Len(s) = 1 /\ Len(u) = 1
    BY <1>1, <1>2, <1>3, Zenon
  <2> QED BY <2>1
<1>6. Len(t) = Len(s) + Len(u)
  <2>1. Len(t) = 2 /\ Len(s) = 1 /\ Len(u) = 1
    BY <1>1, <1>2, <1>3, Zenon
  <2> QED BY <2>1
<1>7. s \o u = t
  BY <1>4, <1>5, <1>6, ConcatIs, Zenon
<1> QED
  BY <1>1, <1>2, <1>3, <1>7, Zenon

(* Push adds an operation in front, and nothing else.                       *)
LEMMA PushIs ==
  ASSUME NEW a \in Ops, NEW s \in Seq(Ops)
  PROVE  Push(a, s) \in Seq(Ops) /\ Push(a, s) # <<>> /\ Head(Push(a, s)) = a /\ Tail(Push(a, s)) = s
<1> HIDE DEF Ops
<1>1. <<a>> \in Seq(Ops) /\ Len(<<a>>) = 1 /\ <<a>>[1] = a
  OBVIOUS
<1>5. PICK o \in Seq(Ops) : o = <<a>> /\ Len(o) = 1 /\ o[1] = a
  BY <1>1, Zenon
<1>6. /\ o \o s \in Seq(Ops) /\ Len(o \o s) = Len(s) + 1 /\ (o \o s)[1] = a
      /\ \A i \in 1 .. Len(s) : (o \o s)[i + 1] = s[i]
  BY <1>5, OneBefore
<1>2. PICK t \in Seq(Ops) : t = o \o s /\ Len(t) = Len(s) + 1 /\ t[1] = a /\ \A i \in 1 .. Len(s) : t[i + 1] = s[i]
  BY <1>6, Zenon
<1>3. Head(t) = a /\ t # <<>>
  BY <1>2
<1>4. Tail(t) = s
  BY <1>2, <1>3
<1> QED
  BY <1>2, <1>3, <1>4, <1>5, Zenon DEF Push

(* The empty program is neutral.                                            *)
LEMMA EmptyIs ==
  ASSUME NEW s \in Seq(Ops)
  PROVE  <<>> \o s = s /\ s \o <<>> = s /\ <<>> \in Seq(Ops)
<1> HIDE DEF Ops
<1> QED
OBVIOUS

(* Two operations before a program.                                         *)
LEMMA PairIs ==
  ASSUME NEW a \in Ops, NEW b \in Ops, NEW s \in Seq(Ops)
  PROVE  <<a, b>> \o s = Push(a, Push(b, s))
<1> HIDE DEF Ops
<1>1. <<a, b>> = <<a>> \o <<b>>
  BY TwoOnes, Zenon
<1>2. (<<a>> \o <<b>>) \o s = <<a>> \o (<<b>> \o s)
  <2>1. <<a>> \in Seq(Ops) /\ <<b>> \in Seq(Ops)
    OBVIOUS
  <2> QED BY <2>1, ConcatAssociative
<1> QED
  BY <1>1, <1>2 DEF Push

(* Two operations alone.                                                    *)
LEMMA PairAlone ==
  ASSUME NEW a \in Ops, NEW b \in Ops
  PROVE  <<a, b>> = Push(a, Push(b, <<>>))
<1> HIDE DEF Ops
<1>1. <<a, b>> = <<a>> \o <<b>>
  BY TwoOnes, Zenon
<1>2. <<b>> = <<b>> \o <<>>
  OBVIOUS
<1> QED BY <1>1, <1>2, Zenon DEF Push

(* One operation alone.                                                     *)
LEMMA OneIs ==
  ASSUME NEW a \in Ops
  PROVE  <<a>> = Push(a, <<>>)
<1> HIDE DEF Ops
<1> QED BY DEF Push

Suspends(s) == Push("hide", Push("bump", s))

Clears(s) == Suspends(Push("clear", s))

Again == Push("apply", Push("bump", Push("show", <<>>)))

Fetch == Push("replay", <<>>)

(* Before the rest s: on the way through a suspension, and on the way       *)
(* through an invalidation.                                                 *)
Suspending(s) == {Suspends(s), Push("bump", s)}

Clearing(s) == {Clears(s), Push("bump", Push("clear", s)), Push("clear", s)}

(* On the way to discard what a replay left, and then to the rest.          *)
Discarding(s) == Clearing(s) \cup Suspending(Clears(s)) \cup Clearing(Suspends(Clears(s)))

-----------------------------------------------------------------------------
(* The invariant.                                                           *)

Fates == {"ok", "lost", "undecodable", "malformed"}

Messages == [epoch : Nat, seq : Int, fate : Fates]

Copies == [block : AllBlocks, owner : Int]

Sub == [last : Int, incarnation : Nat, suspended : BOOLEAN, todo : Seq(Ops), msg : Messages, high : Int,
        reply : [epoch : Nat, upto : Int], vouch : [epoch : Nat, n : Nat], epochs : SUBSET Nat,
        stop : BOOLEAN, ended : BOOLEAN]

Index == [held : SUBSET Copies, hidden : BOOLEAN]

Request == [pc : {"idle", "match", "filter", "check", "done"}, stale : BOOLEAN,
            found : SUBSET AllBlocks, sound : BOOLEAN]

Engine == [logs : Seq(Seq(Events)), faults : Nat]

IngestTypes ==
  /\ engine \in Engine /\ wire \in Seq(Messages) /\ sub \in Sub
  /\ index \in Index /\ request \in Request

(* Messages, replies and what the subscriber answers for are of the logs.   *)
Sent(logs, m) == m.epoch \in 1 .. Len(logs) /\ m.seq \in Nat /\ m.seq < Len(logs[m.epoch])

Known(logs, s) ==
  /\ s.vouch.epoch \in 1 .. Len(logs) /\ s.vouch.n <= Len(logs[s.vouch.epoch])
  /\ s.epochs \subseteq 1 .. Len(logs) /\ IsFiniteSet(s.epochs) /\ s.last >= -1
  /\ s.todo # <<>> => Sent(logs, s.msg)
  /\ s.reply.epoch # 0 => /\ s.reply.epoch \in 1 .. Len(logs)
                          /\ s.reply.upto < Len(logs[s.reply.epoch])

Queued(logs, w) == \A i \in 1 .. Len(w) : Sent(logs, w[i])

BlocksOf(held) == {h.block : h \in held}

(* What is held comes from the batches of one epoch up to the n-th, unless  *)
(* from several epochs.                                                     *)
Holds(logs, held, epochs, n) ==
  /\ n \in Nat /\ (epochs = {} => held = {})
  /\ \A e \in epochs : epochs = {e} => n <= Len(logs[e]) /\ BlocksOf(held) \subseteq CacheOf(logs[e], n)

Owned(held, incarnation) ==
  \A h \in held : h.owner = IF h.block \in PoolBlocks THEN -1 ELSE incarnation

Reached(s) == IF s.reply.epoch # 0 THEN s.high + 1 ELSE s.last + 1

Credits(logs, s, x) == Holds(logs, x.held, s.epochs, Reached(s)) /\ Owned(x.held, s.incarnation)

Sound(logs, s, x) ==
  (\A e, f \in s.epochs : e = f) => BlocksOf(x.held) \subseteq CacheOf(logs[s.vouch.epoch], s.vouch.n)

(* Where the subscriber is.                                                 *)
Resting(logs, s, x) ==
  /\ s.todo = <<>> /\ s.reply.epoch = 0 /\ Credits(logs, s, x)
  /\ x.hidden = s.suspended
  /\ s.suspended => s.msg.fate # "ok" /\ s.epochs = {}

Applying(logs, s, x) ==
  /\ s.todo = Push("apply", <<>>) /\ s.reply.epoch = 0 /\ Credits(logs, s, x)
  /\ ~x.hidden /\ ~s.suspended /\ s.msg.seq = s.last + 1

Reviving(logs, s, x) ==
  /\ s.todo = Again /\ s.reply.epoch = 0 /\ Credits(logs, s, x)
  /\ x.hidden /\ s.suspended /\ s.epochs = {} /\ s.msg.seq > s.last

Resuming(logs, s, x) ==
  /\ s.todo \in {Push("bump", Push("show", <<>>)), Push("show", <<>>)}
  /\ s.reply.epoch = 0 /\ Credits(logs, s, x)
  /\ x.hidden /\ s.suspended /\ Sound(logs, s, x)

Fetching(logs, s, x) ==
  /\ s.todo \in {Fetch} \cup Suspending(Fetch) /\ Credits(logs, s, x)
  /\ s.suspended /\ s.msg.seq > s.last
  /\ Head(s.todo) # "hide" => x.hidden
  /\ s.reply.epoch # 0 => s.todo = Fetch /\ s.last <= s.high /\ s.high < s.msg.seq

Purging(s, x) ==
  /\ s.reply.epoch = 0 /\ s.suspended
  /\ Head(s.todo) # "hide" => x.hidden
  /\ \/ s.todo \in Discarding(<<>>) /\ s.msg.fate # "ok"
     \/ s.todo \in Discarding(Again) /\ s.msg.seq > s.last
     \/ s.todo \in Clearing(Suspends(Fetch)) /\ s.msg.seq > s.last

Flow(logs, s, x) ==
  \/ Resting(logs, s, x) \/ Applying(logs, s, x) \/ Reviving(logs, s, x)
  \/ Resuming(logs, s, x) \/ Fetching(logs, s, x) \/ Purging(s, x)

(* A match collected while the source was not sound is stale, or hidden     *)
(* until the generation moves.                                              *)
Asked(r, s, x) ==
  /\ r.pc = "filter" /\ ~r.sound => r.stale \/ (x.hidden /\ (s.todo # <<>> => Head(s.todo) # "show"))
  /\ r.pc = "check" /\ r.found # {} /\ ~r.sound => r.stale
  /\ r.pc = "done" /\ r.found # {} => r.sound

IngestInvariant ==
  /\ IngestTypes
  /\ Known(engine.logs, sub) /\ Queued(engine.logs, wire)
  /\ Flow(engine.logs, sub, index)
  /\ ~index.hidden => Sound(engine.logs, sub, index)
  /\ Asked(request, sub, index)

-----------------------------------------------------------------------------
(* The programs that the source writes with concatenation, as Push.         *)
LEMMA ProgramsAre ==
  ASSUME NEW s \in Seq(Ops)
  PROVE  /\ <<>> \in Seq(Ops) /\ <<>> \o s = s
         /\ Suspend \o s = Suspends(s) /\ Invalidate \o s = Clears(s) /\ Invalidate = Clears(<<>>)
         /\ Resume = Push("bump", Push("show", <<>>))
         /\ <<"apply">> \o Resume = Again /\ <<"apply">> \o <<>> = Push("apply", <<>>)
         /\ <<"replay">> = Fetch
<1>1. /\ "hide" \in Ops /\ "bump" \in Ops /\ "clear" \in Ops /\ "apply" \in Ops /\ "show" \in Ops
      /\ "replay" \in Ops
  BY Zenon DEF Ops
<1>2. <<>> \in Seq(Ops) /\ <<>> \o s = s
  BY EmptyIs, Zenon
<1>3. \A t \in Seq(Ops) : Suspend \o t = Suspends(t)
  BY <1>1, PairIs, Zenon DEF Suspend, Suspends
<1>4. <<"clear">> = Push("clear", <<>>) /\ <<"replay">> = Push("replay", <<>>)
  BY <1>1, OneIs, Zenon
<1>5. Push("clear", <<>>) \in Seq(Ops) /\ Push("clear", s) \in Seq(Ops)
  BY <1>1, <1>2, PushIs, Zenon
<1>6. Invalidate = Clears(<<>>)
  BY <1>3, <1>4, <1>5, Zenon DEF Invalidate, Clears
<1>7. Suspend \in Seq(Ops)
  <2>1. Suspend = Push("hide", Push("bump", <<>>))
    BY <1>1, PairAlone, Zenon DEF Suspend
  <2>2. Push("bump", <<>>) \in Seq(Ops)
    BY <1>1, <1>2, PushIs, Zenon
  <2> QED
    BY <1>1, <2>1, <2>2, PushIs, Zenon
<1>8. (Suspend \o <<"clear">>) \o s = Suspend \o (<<"clear">> \o s)
  <2>1. <<"clear">> \in Seq(Ops)
    BY <1>4, <1>5, Zenon
  <2> QED
    BY <1>7, <2>1, ConcatAssociative
<1>9. Invalidate \o s = Clears(s)
  BY <1>3, <1>5, <1>8, Zenon DEF Invalidate, Clears, Push
<1>10. Resume = Push("bump", Push("show", <<>>))
  BY <1>1, PairAlone, Zenon DEF Resume
<1> QED
  BY <1>2, <1>3, <1>4, <1>6, <1>9, <1>10, Zenon DEF Again, Push, Fetch

(* A step through a suspension: on, or at its end.                          *)
LEMMA SuspendingWalk ==
  ASSUME NEW s \in Seq(Ops), NEW t \in Suspending(s)
  PROVE  /\ t \in Seq(Ops) /\ t # <<>>
         /\ \/ Head(t) = "hide" /\ Tail(t) \in Suspending(s)
            \/ Head(t) = "bump" /\ Tail(t) = s
<1>1. "hide" \in Ops /\ "bump" \in Ops
  BY Zenon DEF Ops
<1>2. PICK u \in Seq(Ops) : u = Push("bump", s) /\ u # <<>> /\ Head(u) = "bump" /\ Tail(u) = s
  BY <1>1, PushIs, Zenon
<1>3. PICK v \in Seq(Ops) : v = Push("hide", u) /\ v # <<>> /\ Head(v) = "hide" /\ Tail(v) = u
  BY <1>1, PushIs, Zenon
<1>4. Suspending(s) = {v, u}
  BY <1>2, <1>3, Zenon DEF Suspending, Suspends
<1> QED
  BY <1>2, <1>3, <1>4, Zenon

(* A step through an invalidation: on, or at its end after the clear.       *)
LEMMA ClearingWalk ==
  ASSUME NEW s \in Seq(Ops), NEW t \in Clearing(s)
  PROVE  /\ t \in Seq(Ops) /\ t # <<>>
         /\ \/ Head(t) \in {"hide", "bump"} /\ Tail(t) \in Clearing(s)
            \/ Head(t) = "clear" /\ Tail(t) = s
<1>1. "hide" \in Ops /\ "bump" \in Ops /\ "clear" \in Ops
  BY Zenon DEF Ops
<1>2. PICK u \in Seq(Ops) : u = Push("clear", s) /\ u # <<>> /\ Head(u) = "clear" /\ Tail(u) = s
  BY <1>1, PushIs, Zenon
<1>3. PICK v \in Seq(Ops) : v = Push("bump", u) /\ v # <<>> /\ Head(v) = "bump" /\ Tail(v) = u
  BY <1>1, PushIs, Zenon
<1>4. PICK w \in Seq(Ops) : w = Push("hide", v) /\ w # <<>> /\ Head(w) = "hide" /\ Tail(w) = v
  BY <1>1, PushIs, Zenon
<1>5. Clearing(s) = {w, v, u}
  BY <1>2, <1>3, <1>4, Zenon DEF Clearing, Clears, Suspends
<1> QED
  BY <1>2, <1>3, <1>4, <1>5, Zenon

(* A step through a discard: on, or after a clear on or at its end.         *)
LEMMA DiscardingWalk ==
  ASSUME NEW s \in Seq(Ops), NEW t \in Discarding(s)
  PROVE  /\ t \in Seq(Ops) /\ t # <<>>
         /\ \/ Head(t) \in {"hide", "bump"} /\ Tail(t) \in Discarding(s)
            \/ Head(t) = "clear" /\ Tail(t) \in Discarding(s) \cup {s}
<1>1. "hide" \in Ops /\ "bump" \in Ops /\ "clear" \in Ops
  BY Zenon DEF Ops
<1>2. PICK u \in Seq(Ops) : u = Clears(s) /\ u \in Clearing(s)
  <2>1. Clears(s) \in Clearing(s)
    BY Zenon DEF Clearing
  <2> QED
    BY <2>1, ClearingWalk, Zenon
<1>3. PICK v \in Seq(Ops) : v = Suspends(u) /\ v \in Suspending(u)
  <2>1. Suspends(u) \in Suspending(u)
    BY Zenon DEF Suspending
  <2> QED
    BY <2>1, SuspendingWalk, Zenon
<1>4. Discarding(s) = Clearing(s) \cup Suspending(u) \cup Clearing(v)
  BY <1>2, <1>3, Zenon DEF Discarding
<1>5. CASE t \in Clearing(s)
  BY <1>4, <1>5, ClearingWalk, Zenon
<1>6. CASE t \in Suspending(u)
  BY <1>2, <1>4, <1>6, SuspendingWalk, Zenon
<1>7. CASE t \in Clearing(v)
  <2>1. /\ t \in Seq(Ops) /\ t # <<>>
        /\ \/ Head(t) \in {"hide", "bump"} /\ Tail(t) \in Clearing(v)
           \/ Head(t) = "clear" /\ Tail(t) = v
    BY <1>7, ClearingWalk, Zenon
  <2> QED
    BY <1>3, <1>4, <2>1, Zenon
<1> QED
  BY <1>4, <1>5, <1>6, <1>7, Zenon

(* The heads and tails of the programs without a suspension.                *)
LEMMA EndsAre ==
  /\ <<>> \in Seq(Ops)
  /\ Again \in Seq(Ops) /\ Again # <<>> /\ Head(Again) = "apply"
  /\ Tail(Again) = Push("bump", Push("show", <<>>))
  /\ Push("bump", Push("show", <<>>)) \in Seq(Ops) /\ Push("bump", Push("show", <<>>)) # <<>>
  /\ Head(Push("bump", Push("show", <<>>))) = "bump"
  /\ Tail(Push("bump", Push("show", <<>>))) = Push("show", <<>>)
  /\ Push("show", <<>>) \in Seq(Ops) /\ Push("show", <<>>) # <<>>
  /\ Head(Push("show", <<>>)) = "show" /\ Tail(Push("show", <<>>)) = <<>>
  /\ Push("apply", <<>>) \in Seq(Ops) /\ Push("apply", <<>>) # <<>>
  /\ Head(Push("apply", <<>>)) = "apply" /\ Tail(Push("apply", <<>>)) = <<>>
  /\ Fetch \in Seq(Ops) /\ Fetch # <<>> /\ Head(Fetch) = "replay" /\ Tail(Fetch) = <<>>
<1>1. "bump" \in Ops /\ "show" \in Ops /\ "apply" \in Ops /\ "replay" \in Ops
  BY Zenon DEF Ops
<1>2. <<>> \in Seq(Ops)
  OBVIOUS
<1>3. PICK u \in Seq(Ops) : u = Push("show", <<>>) /\ u # <<>> /\ Head(u) = "show" /\ Tail(u) = <<>>
  BY <1>1, <1>2, PushIs, ZenonT(40)
<1>4. PICK v \in Seq(Ops) : v = Push("bump", u) /\ v # <<>> /\ Head(v) = "bump" /\ Tail(v) = u
  BY <1>1, PushIs, Zenon
<1>5. PICK w \in Seq(Ops) : w = Push("apply", v) /\ w # <<>> /\ Head(w) = "apply" /\ Tail(w) = v
  BY <1>1, PushIs, Zenon
<1>6. /\ Push("apply", <<>>) \in Seq(Ops) /\ Push("apply", <<>>) # <<>>
      /\ Head(Push("apply", <<>>)) = "apply" /\ Tail(Push("apply", <<>>)) = <<>>
  BY <1>1, <1>2, PushIs, Zenon
<1>7. Fetch \in Seq(Ops) /\ Fetch # <<>> /\ Head(Fetch) = "replay" /\ Tail(Fetch) = <<>>
  BY <1>1, <1>2, PushIs, Zenon DEF Fetch
<1>8. Again = w
  BY <1>3, <1>4, <1>5, Zenon DEF Again
<1> QED
  BY <1>2, <1>3, <1>4, <1>5, <1>6, <1>7, <1>8, Zenon

-----------------------------------------------------------------------------
(* What a batch does to the credit.                                         *)

(* apply_batch follows the engine: what is credited stays within the cache, *)
(* and owned by the incarnation.                                            *)
LEMMA AppliesTo ==
  ASSUME NEW held \in SUBSET Copies, NEW ev \in Events, NEW C, sub.incarnation \in Nat,
         Owned(held, sub.incarnation), BlocksOf(held) \subseteq C
  PROVE  /\ Applied(held, ev) \in SUBSET Copies
         /\ Owned(Applied(held, ev), sub.incarnation)
         /\ BlocksOf(Applied(held, ev)) \subseteq Effect(C, ev)
<1>1. PICK i \in Int : i = Owner(ev.block) /\ i = IF ev.block \in PoolBlocks THEN -1 ELSE sub.incarnation
  BY DEF Owner
<1>7. PICK own : own = [block |-> ev.block, owner |-> i]
  BY Zenon
<1>2. own = [block |-> ev.block, owner |-> i] /\ own.block = ev.block /\ own.owner = i
  BY <1>7, Zenon
<1>3. CASE ev.kind = "store"
  <2>1. Applied(held, ev) = held \cup {own} /\ Effect(C, ev) = C \cup {ev.block}
    BY <1>1, <1>2, <1>3 DEF Applied, Effect
  <2>2. ev.block \in AllBlocks
    BY <1>3 DEF Events
  <2>3. own \in Copies
    BY <1>2, <2>2 DEF Copies
  <2>4. Owned(held \cup {own}, sub.incarnation)
    BY <1>1, <1>2, Zenon DEF Owned
  <2>5. BlocksOf(held \cup {own}) \subseteq C \cup {ev.block}
    BY <1>2, Zenon DEF BlocksOf
  <2> QED
    BY <2>1, <2>3, <2>4, <2>5, Zenon
<1>4. CASE ev.kind = "remove"
  <2>1. Applied(held, ev) = held \ {own} /\ Effect(C, ev) = C \ {ev.block}
    BY <1>1, <1>2, <1>4 DEF Applied, Effect
  <2>2. ASSUME NEW h \in held, h.block = ev.block PROVE h = own
    <3>1. h.owner = i /\ h \in Copies
      BY <1>1, <2>2, Zenon DEF Owned
    <3> QED
      BY <1>2, <2>2, <3>1 DEF Copies
  <2>3. Owned(held \ {own}, sub.incarnation)
    BY Zenon DEF Owned
  <2>4. BlocksOf(held \ {own}) \subseteq C \ {ev.block}
    BY <2>2, Zenon DEF BlocksOf
  <2> QED
    BY <2>1, <2>3, <2>4, Zenon
<1>5. CASE ev.kind = "clear"
  <2>1. Applied(held, ev) = {h \in held : h.block \in PoolBlocks} /\ Effect(C, ev) = C \cap PoolBlocks
    BY <1>5 DEF Applied, Effect
  <2>2. Owned({h \in held : h.block \in PoolBlocks}, sub.incarnation)
    BY Zenon DEF Owned
  <2>3. BlocksOf({h \in held : h.block \in PoolBlocks}) \subseteq C \cap PoolBlocks
    BY Zenon DEF BlocksOf
  <2> QED
    BY <2>1, <2>2, <2>3, Zenon
<1>6. ev.kind \in {"store", "remove", "clear"}
  BY DEF Events
<1> QED
  BY <1>3, <1>4, <1>5, <1>6, Zenon

(* The next batch of an epoch, applied to what came from the batches before *)
(* it or to nothing.                                                        *)
LEMMA HoldsApplied ==
  ASSUME NEW logs \in Seq(Seq(Events)), NEW e \in 1 .. Len(logs), NEW n \in Nat, n < Len(logs[e]),
         NEW held \in SUBSET Copies, NEW epochs, NEW m, Holds(logs, held, epochs, m),
         epochs = {} \/ m = n, sub.incarnation \in Nat, Owned(held, sub.incarnation)
  PROVE  /\ Applied(held, logs[e][n + 1]) \in SUBSET Copies
         /\ Owned(Applied(held, logs[e][n + 1]), sub.incarnation)
         /\ Holds(logs, Applied(held, logs[e][n + 1]), epochs \cup {e}, n + 1)
<1>1. PICK log \in Seq(Events) : log = logs[e] /\ n < Len(log)
  OBVIOUS
<1>2. PICK ev \in Events : ev = logs[e][n + 1] /\ ev = log[n + 1]
  BY <1>1
<1>3. CacheOf(log, n + 1) = Effect(CacheOf(log, n), ev)
  BY <1>1, <1>2, CacheGrows, Zenon
<1>4. Applied(held, ev) \in SUBSET Copies /\ Owned(Applied(held, ev), sub.incarnation)
  <2>1. BlocksOf(held) \subseteq BlocksOf(held)
    BY Zenon
  <2> QED
    BY <2>1, AppliesTo, Zenon
<1>5. epochs \subseteq {e} => BlocksOf(held) \subseteq CacheOf(log, n)
  <2>1. CASE epochs = {}
    BY <2>1, Zenon DEF Holds, BlocksOf
  <2>2. CASE epochs = {e}
    BY <1>1, <2>2, Zenon DEF Holds
  <2> QED
    BY <2>1, <2>2, Zenon
<1>6. epochs \subseteq {e} => BlocksOf(Applied(held, ev)) \subseteq CacheOf(log, n + 1)
  <2> SUFFICES ASSUME epochs \subseteq {e}
               PROVE  BlocksOf(Applied(held, ev)) \subseteq Effect(CacheOf(log, n), ev)
    BY <1>3, Zenon
  <2>1. PICK C : C = CacheOf(log, n) /\ BlocksOf(held) \subseteq C
    BY <1>5, Zenon
  <2>2. BlocksOf(Applied(held, ev)) \subseteq Effect(C, ev)
    BY <2>1, AppliesTo, Zenon
  <2> QED
    BY <2>1, <2>2, Zenon
<1>7. n + 1 \in Nat /\ n + 1 <= Len(log)
  BY <1>1
<1>8. Holds(logs, Applied(held, ev), epochs \cup {e}, n + 1)
  BY <1>1, <1>6, <1>7, Zenon DEF Holds
<1> QED
  BY <1>2, <1>4, <1>8, Zenon

(* Credit for one epoch is sound for who answers for that epoch.            *)
LEMMA SoundFrom ==
  ASSUME NEW logs, NEW s, NEW x, NEW n, Holds(logs, x.held, s.epochs, n),
         s.vouch.epoch \in s.epochs, s.vouch.n = n
  PROVE  Sound(logs, s, x)
<1> SUFFICES ASSUME \A e, f \in s.epochs : e = f
             PROVE  BlocksOf(x.held) \subseteq CacheOf(logs[s.vouch.epoch], s.vouch.n)
  BY Zenon DEF Sound
<1>1. s.epochs = {s.vouch.epoch}
  BY Zenon
<1> QED
  BY <1>1, Zenon DEF Holds

(* Logs only grow.                                                          *)
Grows(a, b) ==
  /\ a \in Seq(Seq(Events)) /\ b \in Seq(Seq(Events)) /\ Len(a) <= Len(b)
  /\ \A e \in 1 .. Len(a) :
       /\ Len(a[e]) <= Len(b[e])
       /\ \A n \in Nat : n <= Len(a[e]) => CacheOf(b[e], n) = CacheOf(a[e], n)

(* A message of a log is one of the grown log.                              *)
LEMMA GrownSent ==
  ASSUME NEW a, NEW b, Grows(a, b), NEW m \in Messages, Sent(a, m)
  PROVE  Sent(b, m)
<1>1. m.epoch \in 1 .. Len(a) /\ m.seq \in Nat /\ m.seq < Len(a[m.epoch]) /\ Len(a[m.epoch]) <= Len(b[m.epoch])
  BY Zenon DEF Grows, Sent
<1>2. a \in Seq(Seq(Events)) /\ b \in Seq(Seq(Events)) /\ Len(a) <= Len(b)
  BY Zenon DEF Grows
<1>3. PICK e : e = m.epoch
  BY Zenon
<1>4. PICK k \in Int : k = m.seq
  BY <1>1
<1>5. Len(a) \in Nat /\ Len(b) \in Nat /\ Len(a[e]) \in Nat /\ Len(b[e]) \in Nat
  <2>1. e \in 1 .. Len(a)
    BY <1>1, <1>3, Zenon
  <2> QED
    BY <1>2, <2>1
<1>6. e \in 1 .. Len(a) /\ k < Len(a[e]) /\ Len(a[e]) <= Len(b[e])
  BY <1>1, <1>3, <1>4, Zenon
<1>7. e \in 1 .. Len(b) /\ k < Len(b[e])
  <2>1. PICK la, lb, na, nb \in Nat :
          la = Len(a) /\ lb = Len(b) /\ na = Len(a[e]) /\ nb = Len(b[e])
    BY <1>5, Zenon
  <2>2. la <= lb /\ e \in 1 .. la /\ k < na /\ na <= nb
    BY <1>2, <1>6, <2>1, Zenon
  <2>3. e \in 1 .. lb /\ k < nb
    BY <1>4, <2>2
  <2> QED BY <2>1, <2>3, Zenon
<1> QED
  BY <1>1, <1>3, <1>4, <1>7, Zenon DEF Sent

(* Credit for the batches of a log is credit for those of the grown log.    *)
LEMMA GrownHolds ==
  ASSUME NEW a, NEW b, Grows(a, b), NEW held, NEW epochs \in SUBSET (1 .. Len(a)), NEW n,
         Holds(a, held, epochs, n)
  PROVE  Holds(b, held, epochs, n)
<1>1. ASSUME NEW e \in epochs, epochs = {e}
      PROVE  n <= Len(b[e]) /\ BlocksOf(held) \subseteq CacheOf(b[e], n)
  <2>1. n \in Nat /\ n <= Len(a[e]) /\ BlocksOf(held) \subseteq CacheOf(a[e], n)
    BY <1>1, Zenon DEF Holds
  <2>2. e \in 1 .. Len(a)
    BY <1>1, Zenon
  <2>3. CacheOf(b[e], n) = CacheOf(a[e], n) /\ Len(a[e]) <= Len(b[e])
    BY <2>1, <2>2, Zenon DEF Grows
  <2>4. Len(a[e]) \in Nat /\ Len(b[e]) \in Nat
    BY <2>2 DEF Grows
  <2>5. n <= Len(b[e])
    BY <2>1, <2>3, <2>4
  <2> QED
    BY <2>1, <2>3, <2>5, Zenon
<1> QED
  BY <1>1, Zenon DEF Holds

-----------------------------------------------------------------------------
(* What the subscriber refers to stays in grown logs.                       *)
LEMMA GrownKnown ==
  ASSUME NEW a, NEW b, Grows(a, b), NEW s \in Sub, Known(a, s)
  PROVE  Known(b, s)
<1>1. a \in Seq(Seq(Events)) /\ b \in Seq(Seq(Events)) /\ Len(a) <= Len(b)
  BY Zenon DEF Grows
<1>2. \A e \in 1 .. Len(a) : e \in 1 .. Len(b)
  BY <1>1
<1>3. ASSUME NEW e \in 1 .. Len(a), NEW n \in Int
      PROVE  (n <= Len(a[e]) => n <= Len(b[e])) /\ (n < Len(a[e]) => n < Len(b[e]))
  <2>1. Len(a[e]) <= Len(b[e])
    BY Zenon DEF Grows
  <2>2. Len(a[e]) \in Nat /\ Len(b[e]) \in Nat
    BY <1>1
  <2> QED
    BY <2>1, <2>2
<1>4. s.msg \in Messages /\ s.vouch.n \in Int /\ s.reply.upto \in Int
  BY DEF Sub
<1>5. s.vouch.epoch \in 1 .. Len(b) /\ s.vouch.n <= Len(b[s.vouch.epoch])
  BY <1>2, <1>3, <1>4, Zenon DEF Known
<1>6. s.todo # <<>> => Sent(b, s.msg)
  BY <1>4, GrownSent, Zenon DEF Known
<1>7. s.reply.epoch # 0 => /\ s.reply.epoch \in 1 .. Len(b) /\ s.reply.upto < Len(b[s.reply.epoch])
  BY <1>2, <1>3, <1>4, Zenon DEF Known
<1> QED
  BY <1>2, <1>5, <1>6, <1>7, Zenon DEF Known

(* Growing logs leave the subscriber where it is.                           *)
LEMMA GrownFlow ==
  ASSUME NEW a, NEW b, Grows(a, b), NEW s \in Sub, Known(a, s), NEW x \in Index, Flow(a, s, x)
  PROVE  Flow(b, s, x)
<1>1. s.epochs \in SUBSET (1 .. Len(a))
  BY Zenon DEF Known
<1>2. Credits(a, s, x) => Credits(b, s, x)
  BY <1>1, GrownHolds, Zenon DEF Credits
<1>3. Sound(a, s, x) => Sound(b, s, x)
  BY Zenon DEF Sound, Known, Grows, Sub
<1> QED
  BY <1>2, <1>3, Zenon DEF Flow, Resting, Applying, Reviving, Resuming, Fetching

(* Growing logs leave sound credit sound.                                   *)
LEMMA GrownSound ==
  ASSUME NEW a, NEW b, Grows(a, b), NEW s \in Sub, Known(a, s), NEW x, Sound(a, s, x)
  PROVE  Sound(b, s, x)
<1>1. s.vouch.n \in Nat
  BY DEF Sub
<1>2. CacheOf(b[s.vouch.epoch], s.vouch.n) = CacheOf(a[s.vouch.epoch], s.vouch.n)
  BY <1>1, Zenon DEF Known, Grows
<1> QED
  BY <1>2, Zenon DEF Sound

(* The engine's steps: its logs grow, and nothing else of the invariant     *)
(* moves.                                                                   *)
LEMMA EngineSteps ==
  ASSUME IngestInvariant, Grows(engine.logs, engine'.logs), engine' \in Engine,
         wire' \in Seq(Messages), Queued(engine'.logs, wire'), UNCHANGED <<sub, index, request>>
  PROVE  IngestInvariant'
<1>1. PICK g \in Engine : g = engine'
  BY Zenon
<1>2. sub \in Sub /\ index \in Index /\ Known(engine.logs, sub) /\ Flow(engine.logs, sub, index)
  BY Zenon DEF IngestInvariant, IngestTypes
<1>3. Grows(engine.logs, g.logs)
  BY <1>1, ZenonT(40)
<1>4. Known(g.logs, sub) /\ Flow(g.logs, sub, index)
  BY <1>2, <1>3, GrownKnown, GrownFlow, Zenon
<1>5. ~index.hidden => Sound(g.logs, sub, index)
  BY <1>2, <1>3, GrownSound, Zenon DEF IngestInvariant
<1>6. sub' = sub /\ index' = index /\ request' = request
  BY Zenon
<1> QED
  BY <1>1, <1>4, <1>5, <1>6, Zenon DEF IngestInvariant, IngestTypes

(* Publish: a batch more, its message on the wire, damaged or lost.         *)
LEMMA StepPublish ==
  ASSUME IngestInvariant, Publish
  PROVE  IngestInvariant'
<1>1. PICK ev \in Events, fate \in Fates :
        LET msg == [epoch |-> Epoch, seq |-> Len(engine.logs[Epoch]), fate |-> fate]
        IN /\ engine' = [logs |-> [engine.logs EXCEPT ![Epoch] = Append(@, ev)],
                         faults |-> IF fate = "ok" THEN engine.faults ELSE engine.faults + 1]
           /\ wire' = IF fate = "lost" THEN wire ELSE Append(wire, msg)
  BY Zenon DEF Publish, Fates
<1>2. PICK logs : logs = engine.logs
  BY Zenon
<1>3. logs \in Seq(Seq(Events)) /\ engine.faults \in Nat /\ wire \in Seq(Messages)
  BY <1>2, Zenon DEF IngestInvariant, IngestTypes, Engine
<1>4. PICK e : e = Len(logs)
  BY Zenon
<1>5. e \in 1 .. Len(logs)
  <2>1. sub.vouch.epoch \in 1 .. Len(logs)
    BY <1>2, Zenon DEF IngestInvariant, Known
  <2> QED
    BY <1>3, <1>4, <2>1
<1>6. PICK log \in Seq(Events) : log = logs[e]
  BY <1>3, <1>5
<1>7. PICK more \in Seq(Events) : /\ more = Append(log, ev) /\ Len(more) = Len(log) + 1
                                  /\ \A n \in Nat : n <= Len(log) => CacheOf(more, n) = CacheOf(log, n)
  <2>1. Append(log, ev) \in Seq(Events) /\ Len(Append(log, ev)) = Len(log) + 1
    OBVIOUS
  <2> QED
    BY <2>1, CacheKeeps, Zenon
<1>8. PICK grown \in Seq(Seq(Events)) :
        /\ grown = [logs EXCEPT ![e] = more] /\ Len(grown) = Len(logs) /\ grown[e] = more
        /\ \A d \in 1 .. Len(logs) : d # e => grown[d] = logs[d]
  <2>1. [logs EXCEPT ![e] = more] \in Seq(Seq(Events)) /\ Len([logs EXCEPT ![e] = more]) = Len(logs)
    BY <1>3, <1>5
  <2>2. \A d \in 1 .. Len(logs) : [logs EXCEPT ![e] = more][d] = IF d = e THEN more ELSE logs[d]
    BY <1>3, <1>5
  <2> QED
    BY <1>5, <2>1, <2>2, Zenon
<1>9. Grows(logs, grown)
  <2>1. ASSUME NEW d \in 1 .. Len(logs)
        PROVE  /\ Len(logs[d]) <= Len(grown[d])
               /\ \A n \in Nat : n <= Len(logs[d]) => CacheOf(grown[d], n) = CacheOf(logs[d], n)
    <3>1. CASE d = e
      <4>1. Len(log) <= Len(more)
        BY <1>7
      <4> QED
        BY <1>6, <1>7, <1>8, <3>1, <4>1, Zenon
    <3>2. CASE d # e
      <4>1. grown[d] = logs[d]
        BY <1>8, <2>1, <3>2, Zenon
      <4>2. Len(logs[d]) <= Len(logs[d])
        BY <1>3, <2>1
      <4> QED
        BY <4>1, <4>2, Zenon
    <3> QED
      BY <3>1, <3>2, Zenon
  <2>2. Len(logs) <= Len(grown)
    BY <1>3, <1>8
  <2> QED
    BY <1>3, <2>1, <2>2, Zenon DEF Grows
<1>10. PICK f \in Nat : engine' = [logs |-> grown, faults |-> f]
  <2>1. (IF fate = "ok" THEN engine.faults ELSE engine.faults + 1) \in Nat
    BY <1>3
  <2>2. [engine.logs EXCEPT ![Epoch] = Append(@, ev)] = grown
    BY <1>2, <1>4, <1>6, <1>7, <1>8, Zenon DEF Epoch
  <2> QED
    BY <1>1, <2>1, <2>2, Zenon
<1>11. engine' \in Engine /\ engine'.logs = grown
  BY <1>10, Zenon DEF Engine
<1>12. PICK msg \in Messages : /\ msg = [epoch |-> Epoch, seq |-> Len(engine.logs[Epoch]), fate |-> fate]
                               /\ msg.epoch = e /\ msg.seq = Len(log)
  <2>1. e \in Nat /\ Len(log) \in Int
    BY <1>3, <1>4
  <2>2. Epoch = e /\ Len(engine.logs[Epoch]) = Len(log)
    BY <1>2, <1>4, <1>6, Zenon DEF Epoch
  <2>3. PICK k \in Int : k = Len(log)
    BY <2>1, Zenon
  <2>4. PICK msg : msg = [epoch |-> e, seq |-> k, fate |-> fate]
    BY Zenon
  <2>5. msg \in Messages /\ msg.epoch = e /\ msg.seq = k
    BY <2>1, <2>4 DEF Messages
  <2> QED
    BY <2>2, <2>3, <2>4, <2>5, Zenon
<1>13. Sent(grown, msg)
  <2>1. Len(log) \in Nat /\ Len(log) < Len(more) /\ e \in 1 .. Len(grown)
    BY <1>5, <1>7, <1>8
  <2> QED
    BY <1>8, <1>12, <2>1, Zenon DEF Sent
<1>14. Queued(logs, wire)
  BY <1>2, Zenon DEF IngestInvariant
<1>15. Queued(grown, wire)
  <2>1. ASSUME NEW i \in 1 .. Len(wire) PROVE Sent(grown, wire[i])
    <3>1. wire[i] \in Messages
      BY <1>3, <2>1
    <3> QED
      BY <1>9, <1>14, <2>1, <3>1, GrownSent, Zenon DEF Queued
  <2> QED
    BY <2>1, Zenon DEF Queued
<1>16. Append(wire, msg) \in Seq(Messages) /\ Queued(grown, Append(wire, msg))
  <2>1. PICK w \in Seq(Messages) : /\ w = Append(wire, msg)
                                   /\ \A i \in 1 .. Len(w) : \/ i \in 1 .. Len(wire) /\ w[i] = wire[i]
                                                             \/ w[i] = msg
    <3>1. Append(wire, msg) \in Seq(Messages) /\ Len(Append(wire, msg)) = Len(wire) + 1
      BY <1>3
    <3>2. \A i \in 1 .. Len(wire) + 1 : \/ i \in 1 .. Len(wire) /\ Append(wire, msg)[i] = wire[i]
                                        \/ Append(wire, msg)[i] = msg
      BY <1>3
    <3> QED
      BY <3>1, <3>2, Zenon
  <2> QED
    BY <1>13, <1>15, <2>1, Zenon DEF Queued
<1>17. wire' \in Seq(Messages) /\ Queued(grown, wire')
  BY <1>1, <1>3, <1>12, <1>15, <1>16, Zenon
<1>18. UNCHANGED <<sub, index, request>>
  BY Zenon DEF Publish
<1> QED
  BY <1>2, <1>9, <1>11, <1>17, <1>18, EngineSteps, Zenon

-----------------------------------------------------------------------------
(* EngineRestart: a new and empty log.                                      *)
LEMMA StepEngineRestart ==
  ASSUME IngestInvariant, EngineRestart
  PROVE  IngestInvariant'
<1>1. PICK logs : logs = engine.logs
  BY Zenon
<1>2. logs \in Seq(Seq(Events)) /\ engine \in Engine /\ wire \in Seq(Messages) /\ Queued(logs, wire)
  BY <1>1, Zenon DEF IngestInvariant, IngestTypes, Engine
<1>3. PICK grown \in Seq(Seq(Events)) : /\ grown = Append(logs, <<>>) /\ Len(grown) = Len(logs) + 1
                                        /\ \A d \in 1 .. Len(logs) : grown[d] = logs[d]
  <2>1. <<>> \in Seq(Events)
    OBVIOUS
  <2>2. Append(logs, <<>>) \in Seq(Seq(Events)) /\ Len(Append(logs, <<>>)) = Len(logs) + 1
    BY <1>2, <2>1
  <2>3. \A d \in 1 .. Len(logs) : Append(logs, <<>>)[d] = logs[d]
    BY <1>2, <2>1
  <2> QED
    BY <2>2, <2>3, Zenon
<1>4. Grows(logs, grown)
  <2>1. ASSUME NEW d \in 1 .. Len(logs)
        PROVE  /\ Len(logs[d]) <= Len(grown[d])
               /\ \A n \in Nat : n <= Len(logs[d]) => CacheOf(grown[d], n) = CacheOf(logs[d], n)
    <3>1. grown[d] = logs[d]
      BY <1>3, <2>1, Zenon
    <3>2. Len(logs[d]) <= Len(logs[d])
      BY <1>2, <2>1
    <3> QED
      BY <3>1, <3>2, Zenon
  <2>2. Len(logs) <= Len(grown)
    BY <1>2, <1>3
  <2> QED
    BY <1>2, <2>1, <2>2, Zenon DEF Grows
<1>5. engine' \in Engine /\ engine'.logs = grown
  <2>1. engine' = [engine EXCEPT !.logs = grown]
    BY <1>1, <1>3, Zenon DEF EngineRestart
  <2> QED
    BY <1>2, <2>1, Zenon DEF Engine
<1>6. Queued(grown, wire)
  <2>1. ASSUME NEW i \in 1 .. Len(wire) PROVE Sent(grown, wire[i])
    <3>1. wire[i] \in Messages
      BY <1>2, <2>1
    <3> QED
      BY <1>2, <1>4, <2>1, <3>1, GrownSent, Zenon DEF Queued
  <2> QED
    BY <2>1, Zenon DEF Queued
<1>7. UNCHANGED <<sub, index, request>> /\ wire' = wire
  BY Zenon DEF EngineRestart
<1> QED
  BY <1>1, <1>2, <1>4, <1>5, <1>6, <1>7, EngineSteps, Zenon

-----------------------------------------------------------------------------
(* The subscriber's steps: its state becomes q, the index y, the request p. *)

SubSteps(q, y, p) ==
  /\ q \in Sub /\ y \in Index /\ p \in Request
  /\ sub' = q /\ index' = y /\ request' = p /\ UNCHANGED engine

Keeps(q, y, p) ==
  /\ Known(engine.logs, q) /\ Flow(engine.logs, q, y) /\ Asked(p, q, y)
  /\ ~y.hidden => Sound(engine.logs, q, y)

(* The conjuncts of the invariant after a step of the subscriber.           *)
LEMMA SubscriberSteps ==
  ASSUME IngestInvariant, NEW q, NEW y, NEW p, SubSteps(q, y, p), Keeps(q, y, p),
         wire' \in Seq(Messages), Queued(engine.logs, wire')
  PROVE  IngestInvariant'
BY Zenon DEF IngestInvariant, IngestTypes, SubSteps, Keeps

(* What an operation done leaves of the subscriber.                         *)
Alike(q, s) ==
  /\ q.last = s.last /\ q.incarnation = s.incarnation /\ q.msg = s.msg /\ q.high = s.high
  /\ q.reply = s.reply

(* The conjuncts of the invariant.                                          *)
LEMMA StateIs ==
  ASSUME IngestInvariant
  PROVE  /\ sub \in Sub /\ index \in Index /\ request \in Request /\ engine \in Engine
         /\ wire \in Seq(Messages) /\ engine.logs \in Seq(Seq(Events))
         /\ Known(engine.logs, sub) /\ Queued(engine.logs, wire) /\ Flow(engine.logs, sub, index)
         /\ Asked(request, sub, index)
         /\ ~index.hidden => Sound(engine.logs, sub, index)
BY Zenon DEF IngestInvariant, IngestTypes, Engine

(* Reached depends on what Alike keeps.                                     *)
LEMMA AlikeReach ==
  ASSUME NEW q, NEW s, Alike(q, s)
  PROVE  Reached(q) = Reached(s)
BY Zenon DEF Alike, Reached

(* What is left to do is a program.                                         *)
LEMMA DoneIs ==
  ASSUME sub \in Sub, sub.todo # <<>>
  PROVE  Tail(sub.todo) \in Seq(Ops)
<1>1. PICK t \in Seq(Ops) : t = sub.todo /\ t # <<>>
  BY Zenon DEF Sub
<1>2. Tail(t) \in Seq(Ops)
  BY <1>1
<1> QED
  BY <1>1, <1>2, Zenon

(* Where the next operation is ...                                          *)
LEMMA AtHide ==
  ASSUME IngestInvariant, Doing("hide")
  PROVE  \/ Fetching(engine.logs, sub, index) /\ sub.todo \in Suspending(Fetch) /\ sub.reply.epoch = 0
         \/ Purging(sub, index)
<1>1. sub.todo # <<>> /\ Head(sub.todo) = "hide" /\ Flow(engine.logs, sub, index)
  BY StateIs, Zenon DEF Doing
<1>2. ~Resting(engine.logs, sub, index)
  BY <1>1, Zenon DEF Resting
<1>3. ~Applying(engine.logs, sub, index) /\ ~Reviving(engine.logs, sub, index)
  BY <1>1, EndsAre, Zenon DEF Applying, Reviving
<1>4. ~Resuming(engine.logs, sub, index)
  BY <1>1, EndsAre, Zenon DEF Resuming
<1>5. Fetching(engine.logs, sub, index) => sub.todo \in Suspending(Fetch) /\ sub.reply.epoch = 0
  BY <1>1, EndsAre, Zenon DEF Fetching
<1> QED
  BY <1>1, <1>2, <1>3, <1>4, <1>5, Zenon DEF Flow

(* ... at a bump ...                                                        *)
LEMMA AtBump ==
  ASSUME IngestInvariant, Doing("bump")
  PROVE  \/ Fetching(engine.logs, sub, index) /\ sub.todo \in Suspending(Fetch) /\ sub.reply.epoch = 0
         \/ Purging(sub, index)
         \/ Resuming(engine.logs, sub, index) /\ sub.todo = Push("bump", Push("show", <<>>))
<1>1. sub.todo # <<>> /\ Head(sub.todo) = "bump" /\ Flow(engine.logs, sub, index)
  BY StateIs, Zenon DEF Doing
<1>2. ~Resting(engine.logs, sub, index)
  BY <1>1, Zenon DEF Resting
<1>3. ~Applying(engine.logs, sub, index) /\ ~Reviving(engine.logs, sub, index)
  BY <1>1, EndsAre, Zenon DEF Applying, Reviving
<1>4. Resuming(engine.logs, sub, index) => sub.todo = Push("bump", Push("show", <<>>))
  BY <1>1, EndsAre, Zenon DEF Resuming
<1>5. Fetching(engine.logs, sub, index) => sub.todo \in Suspending(Fetch) /\ sub.reply.epoch = 0
  BY <1>1, EndsAre, Zenon DEF Fetching
<1> QED
  BY <1>1, <1>2, <1>3, <1>4, <1>5, Zenon DEF Flow

(* Going on through a purge, up to the clear.                               *)
LEMMA RestsAre == <<>> \in Seq(Ops) /\ Again \in Seq(Ops) /\ Suspends(Fetch) \in Seq(Ops)
<1>1. Suspends(Fetch) \in Suspending(Fetch) /\ Fetch \in Seq(Ops)
  BY EndsAre, Zenon DEF Suspending
<1> QED
  BY <1>1, SuspendingWalk, EndsAre, Zenon

(* A purge hides, bumps and clears.                                         *)
LEMMA PurgeAt ==
  ASSUME NEW s, NEW x, Purging(s, x)
  PROVE  s.todo # <<>> /\ Head(s.todo) \in {"hide", "bump", "clear"}
BY RestsAre, DiscardingWalk, ClearingWalk, Zenon DEF Purging

(* A discard goes on until a clear.                                         *)
LEMMA DiscardingOn ==
  ASSUME NEW s \in Seq(Ops), NEW t \in Discarding(s), Head(t) # "clear"
  PROVE  Tail(t) \in Discarding(s)
<1>1. (Head(t) \in {"hide", "bump"} /\ Tail(t) \in Discarding(s)) \/ Head(t) = "clear"
  BY DiscardingWalk, Zenon
<1> QED
  BY <1>1, Zenon

(* An invalidation goes on until its clear.                                 *)
LEMMA ClearingOn ==
  ASSUME NEW s \in Seq(Ops), NEW t \in Clearing(s), Head(t) # "clear"
  PROVE  Tail(t) \in Clearing(s)
<1>1. (Head(t) \in {"hide", "bump"} /\ Tail(t) \in Clearing(s)) \/ Head(t) = "clear"
  BY ClearingWalk, Zenon
<1> QED
  BY <1>1, Zenon

(* Neither of them shows the source.                                        *)
LEMMA NotShown ==
  ASSUME NEW s \in Seq(Ops), NEW t, t \in Discarding(s) \/ t \in Clearing(s)
  PROVE  t # <<>> /\ Head(t) # "show"
<1>1. t # <<>> /\ (Head(t) \in {"hide", "bump"} \/ Head(t) = "clear")
  BY DiscardingWalk, ClearingWalk, Zenon
<1> QED
  BY <1>1, Zenon

(* A purge goes on, hidden, until a clear.                                  *)
LEMMA PurgeGoes ==
  ASSUME NEW s, NEW x, Purging(s, x), NEW q, NEW y, q.todo = Tail(s.todo), Alike(q, s),
         q.suspended = s.suspended, y.hidden, Head(s.todo) # "clear"
  PROVE  Purging(q, y) /\ q.todo # <<>> /\ Head(q.todo) # "show"
<1>1. q.reply.epoch = 0 /\ q.suspended /\ q.msg = s.msg /\ q.last = s.last
  BY Zenon DEF Purging, Alike
<1>2. CASE s.todo \in Discarding(<<>>) /\ s.msg.fate # "ok"
  <2>1. q.todo \in Discarding(<<>>)
    BY <1>2, RestsAre, DiscardingOn, Zenon
  <2>4. PICK t \in Discarding(<<>>) : t = q.todo
    BY <2>1, Zenon
  <2>5. t # <<>> /\ Head(t) # "show"
    BY RestsAre, NotShown, Zenon
  <2>2. q.todo # <<>> /\ Head(q.todo) # "show"
    BY <2>4, <2>5, Zenon
  <2>3. Purging(q, y)
    BY <1>1, <1>2, <2>1, Zenon DEF Purging
  <2> QED
    BY <2>2, <2>3, Zenon
<1>3. CASE s.todo \in Discarding(Again) /\ s.msg.seq > s.last
  <2>1. q.todo \in Discarding(Again)
    BY <1>3, RestsAre, DiscardingOn, Zenon
  <2>4. PICK t \in Discarding(Again) : t = q.todo
    BY <2>1, Zenon
  <2>5. t # <<>> /\ Head(t) # "show"
    BY RestsAre, NotShown, Zenon
  <2>2. q.todo # <<>> /\ Head(q.todo) # "show"
    BY <2>4, <2>5, Zenon
  <2>3. Purging(q, y)
    BY <1>1, <1>3, <2>1, Zenon DEF Purging
  <2> QED
    BY <2>2, <2>3, Zenon
<1>4. CASE s.todo \in Clearing(Suspends(Fetch)) /\ s.msg.seq > s.last
  <2>1. q.todo \in Clearing(Suspends(Fetch))
    BY <1>4, RestsAre, ClearingOn, Zenon
  <2>4. PICK t \in Clearing(Suspends(Fetch)) : t = q.todo
    BY <2>1, Zenon
  <2>5. t # <<>> /\ Head(t) # "show"
    BY RestsAre, NotShown, Zenon
  <2>2. q.todo # <<>> /\ Head(q.todo) # "show"
    BY <2>4, <2>5, Zenon
  <2>3. Purging(q, y)
    BY <1>1, <1>4, <2>1, Zenon DEF Purging
  <2> QED
    BY <2>2, <2>3, Zenon
<1> QED
  BY <1>2, <1>3, <1>4, Zenon DEF Purging

-----------------------------------------------------------------------------
(* The wire stays.                                                          *)
LEMMA QuietSteps ==
  ASSUME IngestInvariant, NEW q, NEW y, NEW p, SubSteps(q, y, p), Keeps(q, y, p), wire' = wire
  PROVE  IngestInvariant'
BY StateIs, SubscriberSteps, Zenon

(* What is known of an operation whose message, reply and epochs stay.      *)
LEMMA KnownKept ==
  ASSUME NEW logs, NEW s, NEW q, Known(logs, s), Alike(q, s), q.epochs = s.epochs,
         q.vouch = s.vouch, s.todo # <<>>
  PROVE  Known(logs, q)
BY Zenon DEF Known, Alike

(* The same credit for a subscriber that reached the same batch.            *)
LEMMA CreditsKept ==
  ASSUME NEW logs, NEW s, NEW q, NEW x, NEW y, Credits(logs, s, x), Alike(q, s), q.epochs = s.epochs,
         y.held = x.held
  PROVE  Credits(logs, q, y)
<1>1. Reached(q) = Reached(s) /\ q.incarnation = s.incarnation
  BY AlikeReach, Zenon DEF Alike
<1> QED
  BY <1>1, Zenon DEF Credits

(* One field is updated.                                                    *)
WithTodo(s, t) == [s EXCEPT !.todo = t]

WithVouch(s, e, n) == [s EXCEPT !.vouch = [epoch |-> e, n |-> n]]

(* q is s but for what it has still to do.                                  *)
Advanced(q, s) ==
  q \in Sub /\ Alike(q, s) /\ q.suspended = s.suspended /\ q.epochs = s.epochs

(* Only what is left to do changes ...                                      *)
LEMMA TodoIs ==
  ASSUME NEW s \in Sub, NEW t \in Seq(Ops)
  PROVE  /\ Advanced(WithTodo(s, t), s) /\ WithTodo(s, t).todo = t
         /\ WithTodo(s, t).vouch = s.vouch
<1>0. PICK q : q = [s EXCEPT !.todo = t]
  BY Zenon
<1>1. q \in Sub
  BY <1>0, Zenon DEF Sub
<1>2. /\ q.todo = t /\ Alike(q, s) /\ q.suspended = s.suspended
      /\ q.epochs = s.epochs /\ q.vouch = s.vouch
  BY <1>0, Zenon DEF Sub, Alike
<1> QED
  BY <1>0, <1>1, <1>2, Zenon DEF WithTodo, Advanced

(* ... or only what the subscriber answers for ...                          *)
LEMMA VouchIs ==
  ASSUME NEW s \in Sub, NEW e \in Nat, NEW n \in Nat
  PROVE  /\ Advanced(WithVouch(s, e, n), s) /\ WithVouch(s, e, n).todo = s.todo
         /\ WithVouch(s, e, n).vouch.epoch = e /\ WithVouch(s, e, n).vouch.n = n
<1>1. PICK v : v = [epoch |-> e, n |-> n]
  BY Zenon
<1>2. v \in [epoch : Nat, n : Nat] /\ v.epoch = e /\ v.n = n
  BY <1>1, Zenon
<1>0. PICK q : q = [s EXCEPT !.vouch = v]
  BY Zenon
<1>3. q \in Sub
  BY <1>0, <1>2, Zenon DEF Sub
<1>4. /\ q.todo = s.todo /\ Alike(q, s) /\ q.suspended = s.suspended
      /\ q.epochs = s.epochs /\ q.vouch = v
  BY <1>0, Zenon DEF Sub, Alike
<1>5. WithVouch(s, e, n) = q
  BY <1>0, <1>1, Zenon DEF WithVouch
<1> QED
  BY <1>2, <1>3, <1>4, <1>5, Zenon DEF Advanced

(* ... or only whether the source is hidden.                                *)
LEMMA HiddenIs ==
  ASSUME NEW x \in Index, NEW b \in BOOLEAN, NEW y, y = [x EXCEPT !.hidden = b]
  PROVE  y \in Index /\ y.hidden = b /\ y.held = x.held
BY Zenon DEF Index

(* Hide: the source is hidden, and answers for the message at hand.         *)
LEMMA StepHide ==
  ASSUME IngestInvariant, Hide
  PROVE  IngestInvariant'
<1>1. /\ sub.todo # <<>> /\ Head(sub.todo) = "hide" /\ Doing("hide")
      /\ index' = [index EXCEPT !.hidden = TRUE]
      /\ UNCHANGED <<engine, wire, request>>
  BY Zenon DEF Hide, Doing
<1>2. /\ sub \in Sub /\ index \in Index /\ request \in Request
      /\ Known(engine.logs, sub) /\ Flow(engine.logs, sub, index) /\ Asked(request, sub, index)
  BY StateIs, Zenon
<1>3. Tail(sub.todo) \in Seq(Ops)
  BY <1>1, <1>2, DoneIs, Zenon
<1>4. sub.msg.epoch \in 1 .. Len(engine.logs) /\ sub.msg.seq + 1 \in Nat
      /\ sub.msg.seq + 1 <= Len(engine.logs[sub.msg.epoch])
  <2>1. Sent(engine.logs, sub.msg)
    BY <1>1, <1>2, Zenon DEF Known
  <2>2. PICK k \in Nat : k = sub.msg.seq
    BY <2>1, Zenon DEF Sent
  <2>3. PICK e : e = sub.msg.epoch
    BY Zenon
  <2>4. PICK logs \in Seq(Seq(Events)) : logs = engine.logs
    BY StateIs, Zenon
  <2>5. e \in 1 .. Len(logs) /\ k < Len(logs[e])
    BY <2>1, <2>2, <2>3, <2>4, Zenon DEF Sent
  <2>6. k + 1 \in Nat /\ k + 1 <= Len(logs[e])
    BY <2>5
  <2> QED
    BY <2>2, <2>3, <2>4, <2>5, <2>6, Zenon
<1>5. PICK q : /\ sub' = q /\ q.todo = Tail(sub.todo) /\ Advanced(q, sub)
               /\ q.vouch = sub.vouch \/ (q.vouch.epoch = sub.msg.epoch /\ q.vouch.n = sub.msg.seq + 1)
  <2>1. PICK d : d = WithTodo(sub, Tail(sub.todo))
    BY Zenon
  <2>2. d \in Sub /\ d.todo = Tail(sub.todo) /\ Advanced(d, sub) /\ d.vouch = sub.vouch /\ Done = d
    BY <1>2, <1>3, <2>1, TodoIs, Zenon DEF Done, WithTodo, Advanced
  <2>3. CASE sub.msg.fate = "malformed"
    <3>1. sub' = d
      BY <2>2, <2>3, Zenon DEF Hide
    <3> QED
      BY <2>2, <3>1, Zenon
  <2>4. CASE sub.msg.fate # "malformed"
    <3>1. PICK e : e = sub.msg.epoch
      BY Zenon
    <3>2. PICK n \in Nat : n = sub.msg.seq + 1
      BY <1>4, Zenon
    <3>3. e \in Nat
      BY <1>2, <3>1, Zenon DEF Sub, Messages
    <3>4. sub' = WithVouch(d, e, n)
      BY <2>2, <2>4, <3>1, <3>2, Zenon DEF Hide, WithVouch
    <3>5. PICK q : q = WithVouch(d, e, n)
      BY Zenon
    <3>6. q.todo = d.todo /\ Advanced(q, d) /\ q.vouch.epoch = e /\ q.vouch.n = n
      BY <2>2, <3>3, <3>5, VouchIs, ZenonT(40)
    <3>7. Advanced(q, sub)
      BY <2>2, <3>6, Zenon DEF Advanced, Alike
    <3> QED
      BY <2>2, <3>1, <3>2, <3>4, <3>5, <3>6, <3>7, Zenon
  <2> QED
    BY <2>3, <2>4, Zenon
<1>11. q \in Sub /\ Alike(q, sub) /\ q.suspended = sub.suspended /\ q.epochs = sub.epochs
  BY <1>5, Zenon DEF Advanced
<1>6. PICK y \in Index : index' = y /\ y.hidden /\ y.held = index.held
  BY <1>1, <1>2, HiddenIs, Zenon
<1>7. SubSteps(q, y, request)
  BY <1>1, <1>2, <1>5, <1>11, <1>6, Zenon DEF SubSteps
<1>8. Known(engine.logs, q)
  BY <1>1, <1>2, <1>4, <1>5, <1>11, Zenon DEF Known, Alike
<1>9. Flow(engine.logs, q, y) /\ (q.todo # <<>> => Head(q.todo) # "show")
  <2>1. CASE Purging(sub, index)
    BY <1>1, <1>5, <1>11, <1>6, <2>1, PurgeGoes, Zenon DEF Flow
  <2>2. CASE Fetching(engine.logs, sub, index) /\ sub.todo \in Suspending(Fetch) /\ sub.reply.epoch = 0
    <3>1. q.todo \in Suspending(Fetch) /\ Head(q.todo) # "show"
      BY <1>1, <1>5, <1>11, <2>2, EndsAre, SuspendingWalk, Zenon
    <3>2. Credits(engine.logs, q, y)
      BY <1>5, <1>11, <1>6, <2>2, CreditsKept, Zenon DEF Fetching
    <3>3. Fetching(engine.logs, q, y)
      BY <1>5, <1>11, <1>6, <2>2, <3>1, <3>2, Zenon DEF Fetching, Alike
    <3> QED
      BY <3>1, <3>3, Zenon DEF Flow
  <2> QED
    BY <1>1, <2>1, <2>2, AtHide, Zenon
<1>10. Asked(request, q, y)
  BY <1>2, <1>6, <1>9, Zenon DEF Asked
<1> QED
  BY <1>1, <1>6, <1>7, <1>8, <1>9, <1>10, QuietSteps, Zenon DEF Keeps

(* Bump: every query in flight becomes stale.                               *)
LEMMA StepBump ==
  ASSUME IngestInvariant, Bump
  PROVE  IngestInvariant'
<1>1. /\ sub.todo # <<>> /\ Head(sub.todo) = "bump" /\ Doing("bump")
      /\ request' = [request EXCEPT !.stale = request.pc # "idle"]
      /\ sub' = [sub EXCEPT !.todo = Tail(sub.todo)]
      /\ UNCHANGED <<engine, wire, index>>
  BY Zenon DEF Bump, Doing, Done
<1>2. /\ sub \in Sub /\ index \in Index /\ request \in Request
      /\ Known(engine.logs, sub) /\ Flow(engine.logs, sub, index) /\ Asked(request, sub, index)
      /\ ~index.hidden => Sound(engine.logs, sub, index)
  BY StateIs, Zenon
<1>3. Tail(sub.todo) \in Seq(Ops)
  BY <1>1, <1>2, DoneIs, Zenon
<1>4. PICK q : q = WithTodo(sub, Tail(sub.todo))
  BY Zenon
<1>5. /\ sub' = q /\ q.todo = Tail(sub.todo) /\ q \in Sub /\ Alike(q, sub) /\ q.suspended = sub.suspended
      /\ q.epochs = sub.epochs /\ q.vouch = sub.vouch
  <2>1. sub' = q
    BY <1>1, <1>4, Zenon DEF WithTodo
  <2> QED
    BY <1>2, <1>3, <1>4, <2>1, TodoIs, Zenon DEF Advanced
<1>6. PICK p \in Request : /\ request' = p /\ p.pc = request.pc /\ p.found = request.found
                           /\ p.sound = request.sound /\ (p.pc # "idle" => p.stale)
  <2>1. PICK b \in BOOLEAN : b = (request.pc # "idle")
    BY Zenon
  <2>2. PICK p : p = [request EXCEPT !.stale = b]
    BY Zenon
  <2>3. p \in Request /\ p.pc = request.pc /\ p.found = request.found /\ p.sound = request.sound /\ p.stale = b
    BY <1>2, <2>2, Zenon DEF Request
  <2> QED
    BY <1>1, <2>1, <2>2, <2>3, Zenon
<1>7. SubSteps(q, index, p)
  BY <1>1, <1>2, <1>5, <1>6, Zenon DEF SubSteps
<1>8. Known(engine.logs, q)
  BY <1>1, <1>2, <1>5, KnownKept, Zenon
<1>9. Sound(engine.logs, sub, index) => Sound(engine.logs, q, index)
  BY <1>5, Zenon DEF Sound
<1>10. Flow(engine.logs, q, index)
  <2>1. CASE Purging(sub, index)
    <3>1. index.hidden
      BY <1>1, <2>1, Zenon DEF Purging
    <3> QED
      BY <1>1, <1>5, <2>1, <3>1, PurgeGoes, Zenon DEF Flow
  <2>2. CASE Fetching(engine.logs, sub, index) /\ sub.todo \in Suspending(Fetch) /\ sub.reply.epoch = 0
    <3>1. q.todo = Fetch
      BY <1>1, <1>5, <2>2, EndsAre, SuspendingWalk, Zenon
    <3>2. Credits(engine.logs, q, index)
      BY <1>5, <2>2, CreditsKept, Zenon DEF Fetching
    <3>3. Fetching(engine.logs, q, index)
      BY <1>1, <1>5, <2>2, <3>1, <3>2, Zenon DEF Fetching, Alike
    <3> QED
      BY <3>3, Zenon DEF Flow
  <2>3. CASE Resuming(engine.logs, sub, index) /\ sub.todo = Push("bump", Push("show", <<>>))
    <3>1. q.todo = Push("show", <<>>)
      BY <1>5, <2>3, EndsAre, Zenon
    <3>2. Credits(engine.logs, q, index)
      BY <1>5, <2>3, CreditsKept, Zenon DEF Resuming
    <3>3. Resuming(engine.logs, q, index)
      BY <1>5, <1>9, <2>3, <3>1, <3>2, Zenon DEF Resuming, Alike
    <3> QED
      BY <3>3, Zenon DEF Flow
  <2> QED
    BY <1>1, <2>1, <2>2, <2>3, AtBump, Zenon
<1>11. Asked(p, q, index)
  BY <1>2, <1>6, Zenon DEF Asked
<1> QED
  BY <1>1, <1>2, <1>7, <1>8, <1>9, <1>10, <1>11, QuietSteps, Zenon DEF Keeps

-----------------------------------------------------------------------------
(* ... at a clear ...                                                       *)
LEMMA AtClear ==
  ASSUME IngestInvariant, Doing("clear")
  PROVE  Purging(sub, index)
<1>1. sub.todo # <<>> /\ Head(sub.todo) = "clear" /\ Flow(engine.logs, sub, index)
  BY StateIs, Zenon DEF Doing
<1>2. ~Resting(engine.logs, sub, index)
  BY <1>1, Zenon DEF Resting
<1>3. ~Applying(engine.logs, sub, index) /\ ~Reviving(engine.logs, sub, index)
  BY <1>1, EndsAre, Zenon DEF Applying, Reviving
<1>4. ~Resuming(engine.logs, sub, index)
  BY <1>1, EndsAre, Zenon DEF Resuming
<1>5. ~Fetching(engine.logs, sub, index)
  <2>1. sub.todo # Fetch
    BY <1>1, EndsAre, Zenon
  <2>2. sub.todo \notin Suspending(Fetch)
    BY <1>1, EndsAre, SuspendingWalk, Zenon
  <2> QED
    BY <2>1, <2>2, Zenon DEF Fetching
<1> QED
  BY <1>1, <1>2, <1>3, <1>4, <1>5, Zenon DEF Flow

(* ... at a show ...                                                        *)
LEMMA AtShow ==
  ASSUME IngestInvariant, Doing("show")
  PROVE  Resuming(engine.logs, sub, index) /\ sub.todo = Push("show", <<>>)
<1>1. sub.todo # <<>> /\ Head(sub.todo) = "show" /\ Flow(engine.logs, sub, index)
  BY StateIs, Zenon DEF Doing
<1>2. ~Resting(engine.logs, sub, index)
  BY <1>1, Zenon DEF Resting
<1>3. ~Applying(engine.logs, sub, index) /\ ~Reviving(engine.logs, sub, index)
  BY <1>1, EndsAre, Zenon DEF Applying, Reviving
<1>4. Resuming(engine.logs, sub, index) => sub.todo = Push("show", <<>>)
  BY <1>1, EndsAre, Zenon DEF Resuming
<1>5. ~Fetching(engine.logs, sub, index)
  <2>1. sub.todo # Fetch
    BY <1>1, EndsAre, Zenon
  <2>2. sub.todo \notin Suspending(Fetch)
    BY <1>1, EndsAre, SuspendingWalk, Zenon
  <2> QED
    BY <2>1, <2>2, Zenon DEF Fetching
<1>6. ~Purging(sub, index)
  BY <1>1, PurgeAt, Zenon
<1> QED
  BY <1>1, <1>2, <1>3, <1>4, <1>5, <1>6, Zenon DEF Flow

(* ... at an apply ...                                                      *)
LEMMA AtApply ==
  ASSUME IngestInvariant, Doing("apply")
  PROVE  Applying(engine.logs, sub, index) \/ Reviving(engine.logs, sub, index)
<1>1. sub.todo # <<>> /\ Head(sub.todo) = "apply" /\ Flow(engine.logs, sub, index)
  BY StateIs, Zenon DEF Doing
<1>2. ~Resting(engine.logs, sub, index)
  BY <1>1, Zenon DEF Resting
<1>4. ~Resuming(engine.logs, sub, index)
  BY <1>1, EndsAre, Zenon DEF Resuming
<1>5. ~Fetching(engine.logs, sub, index)
  <2>1. sub.todo # Fetch
    BY <1>1, EndsAre, Zenon
  <2>2. sub.todo \notin Suspending(Fetch)
    BY <1>1, EndsAre, SuspendingWalk, Zenon
  <2> QED
    BY <2>1, <2>2, Zenon DEF Fetching
<1>6. ~Purging(sub, index)
  BY <1>1, PurgeAt, Zenon
<1> QED
  BY <1>1, <1>2, <1>4, <1>5, <1>6, Zenon DEF Flow

(* ... and at a replay.                                                     *)
LEMMA AtReplay ==
  ASSUME IngestInvariant, Doing("replay")
  PROVE  Fetching(engine.logs, sub, index) /\ sub.todo = Fetch
<1>1. sub.todo # <<>> /\ Head(sub.todo) = "replay" /\ Flow(engine.logs, sub, index)
  BY StateIs, Zenon DEF Doing
<1>2. ~Resting(engine.logs, sub, index)
  BY <1>1, Zenon DEF Resting
<1>3. ~Applying(engine.logs, sub, index) /\ ~Reviving(engine.logs, sub, index)
  BY <1>1, EndsAre, Zenon DEF Applying, Reviving
<1>4. ~Resuming(engine.logs, sub, index)
  BY <1>1, EndsAre, Zenon DEF Resuming
<1>5. Fetching(engine.logs, sub, index) => sub.todo = Fetch
  <2>2. sub.todo \notin Suspending(Fetch)
    BY <1>1, EndsAre, SuspendingWalk, Zenon
  <2> QED
    BY <2>2, Zenon DEF Fetching
<1>6. ~Purging(sub, index)
  BY <1>1, PurgeAt, Zenon
<1> QED
  BY <1>1, <1>2, <1>3, <1>4, <1>5, <1>6, Zenon DEF Flow

-----------------------------------------------------------------------------
(* After a clear, a discard goes on or ends.                                *)
LEMMA DiscardingEnds ==
  ASSUME NEW s \in Seq(Ops), NEW t \in Discarding(s), Head(t) = "clear"
  PROVE  Tail(t) \in Discarding(s) \/ Tail(t) = s
<1>1. Head(t) \in {"hide", "bump"} \/ Tail(t) \in Discarding(s) \cup {s}
  BY DiscardingWalk, Zenon
<1> QED
  BY <1>1, Zenon

(* After its clear, an invalidation ends.                                   *)
LEMMA ClearingEnds ==
  ASSUME NEW s \in Seq(Ops), NEW t \in Clearing(s), Head(t) = "clear"
  PROVE  Tail(t) = s
<1>1. Head(t) \in {"hide", "bump"} \/ Tail(t) = s
  BY ClearingWalk, Zenon
<1> QED
  BY <1>1, Zenon

(* The source is cleared.                                                   *)
Cleared(q, y) == q.epochs = {} /\ y.held = {} /\ y.hidden /\ q.suspended /\ q.reply.epoch = 0

(* A cleared source credits nothing.                                        *)
LEMMA NothingCredited ==
  ASSUME NEW logs, NEW q, NEW y, Cleared(q, y), q.last + 1 \in Nat
  PROVE  Credits(logs, q, y)
<1>1. Reached(q) = q.last + 1
  BY Zenon DEF Cleared, Reached
<1> QED
  BY <1>1, Zenon DEF Credits, Cleared, Holds, Owned

(* After a clear the subscriber rests on damage, goes on purging, fetches,  *)
(* or applies the message at hand.                                          *)
LEMMA ClearGoes ==
  ASSUME NEW logs, NEW s, NEW x, Purging(s, x), NEW q, NEW y, q.todo = Tail(s.todo), Alike(q, s),
         Cleared(q, y), q.last + 1 \in Nat, Head(s.todo) = "clear"
  PROVE  Flow(logs, q, y) /\ (q.todo # <<>> => Head(q.todo) # "show")
<1>1. /\ q.reply.epoch = 0 /\ q.suspended /\ q.msg = s.msg /\ q.last = s.last /\ y.hidden
      /\ q.epochs = {} /\ Credits(logs, q, y)
  BY NothingCredited, Zenon DEF Cleared, Alike
<1>2. CASE s.todo \in Discarding(<<>>) /\ s.msg.fate # "ok"
  <2>1. q.todo \in Discarding(<<>>) \/ q.todo = <<>>
    BY <1>2, RestsAre, DiscardingEnds, Zenon
  <2>2. CASE q.todo \in Discarding(<<>>)
    <3>1. PICK t \in Discarding(<<>>) : t = q.todo
      BY <2>2, Zenon
    <3>2. Head(t) # "show"
      BY RestsAre, NotShown, Zenon
    <3>3. Purging(q, y)
      BY <1>1, <1>2, <2>2, Zenon DEF Purging
    <3> QED
      BY <3>1, <3>2, <3>3, Zenon DEF Flow
  <2>3. CASE q.todo = <<>>
    BY <1>1, <1>2, <2>3, Zenon DEF Resting, Flow
  <2> QED
    BY <2>1, <2>2, <2>3, Zenon
<1>3. CASE s.todo \in Discarding(Again) /\ s.msg.seq > s.last
  <2>1. q.todo \in Discarding(Again) \/ q.todo = Again
    BY <1>3, RestsAre, DiscardingEnds, Zenon
  <2>2. CASE q.todo \in Discarding(Again)
    <3>1. PICK t \in Discarding(Again) : t = q.todo
      BY <2>2, Zenon
    <3>2. Head(t) # "show"
      BY RestsAre, NotShown, Zenon
    <3>3. Purging(q, y)
      BY <1>1, <1>3, <2>2, Zenon DEF Purging
    <3> QED
      BY <3>1, <3>2, <3>3, Zenon DEF Flow
  <2>3. CASE q.todo = Again
    <3>1. Reviving(logs, q, y)
      BY <1>1, <1>3, <2>3, Zenon DEF Reviving
    <3>2. Head(q.todo) # "show"
      BY <2>3, EndsAre, Zenon
    <3> QED
      BY <3>1, <3>2, Zenon DEF Flow
  <2> QED
    BY <2>1, <2>2, <2>3, Zenon
<1>4. CASE s.todo \in Clearing(Suspends(Fetch)) /\ s.msg.seq > s.last
  <2>1. q.todo = Suspends(Fetch)
    BY <1>4, RestsAre, ClearingEnds, Zenon
  <2>2. q.todo \in Suspending(Fetch)
    BY <2>1, Zenon DEF Suspending
  <2>3. Head(q.todo) # "show"
    BY <2>2, EndsAre, SuspendingWalk, Zenon
  <2>4. Fetching(logs, q, y)
    BY <1>1, <1>4, <2>2, Zenon DEF Fetching
  <2> QED
    BY <2>3, <2>4, Zenon DEF Flow
<1> QED
  BY <1>2, <1>3, <1>4, Zenon DEF Purging

(* Only what is held changes.                                               *)
LEMMA HeldIs ==
  ASSUME NEW x \in Index, NEW h \in SUBSET Copies, NEW y, y = [x EXCEPT !.held = h]
  PROVE  y \in Index /\ y.hidden = x.hidden /\ y.held = h
BY Zenon DEF Index

(* ClearSourceOp: nothing is credited any more.                             *)
LEMMA StepClear ==
  ASSUME IngestInvariant, ClearSourceOp
  PROVE  IngestInvariant'
<1>1. /\ sub.todo # <<>> /\ Head(sub.todo) = "clear" /\ Doing("clear")
      /\ index' = [index EXCEPT !.held = {}] /\ sub' = [Done EXCEPT !.epochs = {}]
      /\ UNCHANGED <<engine, wire, request>>
  BY Zenon DEF ClearSourceOp, Doing
<1>2. /\ sub \in Sub /\ index \in Index /\ request \in Request
      /\ Known(engine.logs, sub) /\ Asked(request, sub, index)
  BY StateIs, Zenon
<1>3. Tail(sub.todo) \in Seq(Ops)
  BY <1>1, <1>2, DoneIs, Zenon
<1>4. Purging(sub, index) /\ index.hidden /\ sub.suspended /\ sub.reply.epoch = 0
  BY <1>1, AtClear, Zenon DEF Purging
<1>5. PICK q : /\ sub' = q /\ q \in Sub /\ Alike(q, sub) /\ q.todo = Tail(sub.todo) /\ q.epochs = {}
               /\ q.vouch = sub.vouch /\ q.suspended = sub.suspended
  <2>1. PICK d : d = WithTodo(sub, Tail(sub.todo))
    BY Zenon
  <2>2. d \in Sub /\ d.todo = Tail(sub.todo) /\ Advanced(d, sub) /\ d.vouch = sub.vouch /\ Done = d
    BY <1>2, <1>3, <2>1, TodoIs, Zenon DEF Done, WithTodo, Advanced
  <2>3. PICK q : q = [d EXCEPT !.epochs = {}]
    BY Zenon
  <2>4. q \in Sub
    BY <2>2, <2>3, Zenon DEF Sub
  <2>5. q.todo = d.todo /\ Alike(q, d) /\ q.suspended = d.suspended /\ q.vouch = d.vouch /\ q.epochs = {}
    BY <2>2, <2>3, Zenon DEF Sub, Alike
  <2>6. Alike(q, sub) /\ q.suspended = sub.suspended
    BY <2>2, <2>5, Zenon DEF Advanced, Alike
  <2>7. sub' = q
    BY <1>1, <2>2, <2>3, Zenon
  <2> QED
    BY <2>2, <2>4, <2>5, <2>6, <2>7, Zenon
<1>6. PICK y \in Index : index' = y /\ y.hidden = index.hidden /\ y.held = {}
  <2>1. PICK h \in SUBSET Copies : h = {}
    BY Zenon
  <2> QED
    BY <1>1, <1>2, <2>1, HeldIs, Zenon
<1>7. SubSteps(q, y, request)
  BY <1>1, <1>2, <1>5, <1>6, Zenon DEF SubSteps
<1>8. Known(engine.logs, q)
  BY <1>1, <1>2, <1>5, FS_EmptySet, Zenon DEF Known, Alike
<1>9. Flow(engine.logs, q, y) /\ (q.todo # <<>> => Head(q.todo) # "show")
  <2>1. Cleared(q, y)
    BY <1>4, <1>5, <1>6, Zenon DEF Cleared, Alike
  <2>2. PICK k \in Int : k = sub.last /\ k >= -1
    BY <1>2, Zenon DEF Known, Sub
  <2>3. k + 1 \in Nat
    BY <2>2
  <2>4. q.last + 1 \in Nat
    BY <1>5, <2>2, <2>3, Zenon DEF Alike
  <2> QED
    BY <1>1, <1>4, <1>5, <2>1, <2>4, ClearGoes, Zenon
<1>10. Asked(request, q, y)
  BY <1>2, <1>4, <1>6, <1>9, Zenon DEF Asked
<1> QED
  BY <1>1, <1>4, <1>6, <1>7, <1>8, <1>9, <1>10, QuietSteps, Zenon DEF Keeps

(* Show: what is exposed is sound, and a match collected before is stale.   *)
LEMMA StepShow ==
  ASSUME IngestInvariant, Show
  PROVE  IngestInvariant'
<1>1. /\ sub.todo # <<>> /\ Head(sub.todo) = "show" /\ Doing("show")
      /\ index' = [index EXCEPT !.hidden = FALSE] /\ sub' = [Done EXCEPT !.suspended = FALSE]
      /\ UNCHANGED <<engine, wire, request>>
  BY Zenon DEF Show, Doing
<1>2. /\ sub \in Sub /\ index \in Index /\ request \in Request
      /\ Known(engine.logs, sub) /\ Asked(request, sub, index)
  BY StateIs, Zenon
<1>3. Tail(sub.todo) \in Seq(Ops)
  BY <1>1, <1>2, DoneIs, Zenon
<1>4. /\ Resuming(engine.logs, sub, index) /\ sub.todo = Push("show", <<>>)
      /\ Credits(engine.logs, sub, index) /\ Sound(engine.logs, sub, index)
  BY <1>1, AtShow, Zenon DEF Resuming
<1>5. PICK q : /\ sub' = q /\ q \in Sub /\ Alike(q, sub) /\ q.todo = Tail(sub.todo) /\ q.epochs = sub.epochs
               /\ q.vouch = sub.vouch /\ q.suspended = FALSE
  <2>1. PICK d : d = WithTodo(sub, Tail(sub.todo))
    BY Zenon
  <2>2. d \in Sub /\ d.todo = Tail(sub.todo) /\ Advanced(d, sub) /\ d.vouch = sub.vouch /\ Done = d
    BY <1>2, <1>3, <2>1, TodoIs, Zenon DEF Done, WithTodo, Advanced
  <2>3. PICK q : q = [d EXCEPT !.suspended = FALSE]
    BY Zenon
  <2>4. q \in Sub
    BY <2>2, <2>3, Zenon DEF Sub
  <2>5. q.todo = d.todo /\ Alike(q, d) /\ q.suspended = FALSE /\ q.vouch = d.vouch /\ q.epochs = d.epochs
    BY <2>2, <2>3, Zenon DEF Sub, Alike
  <2>6. Alike(q, sub) /\ q.epochs = sub.epochs
    BY <2>2, <2>5, Zenon DEF Advanced, Alike
  <2>7. sub' = q
    BY <1>1, <2>2, <2>3, Zenon
  <2> QED
    BY <2>2, <2>4, <2>5, <2>6, <2>7, Zenon
<1>6. PICK y \in Index : index' = y /\ y.hidden = FALSE /\ y.held = index.held
  BY <1>1, <1>2, HiddenIs, Zenon
<1>7. SubSteps(q, y, request)
  BY <1>1, <1>2, <1>5, <1>6, Zenon DEF SubSteps
<1>8. Known(engine.logs, q)
  BY <1>1, <1>2, <1>5, KnownKept, Zenon
<1>9. Sound(engine.logs, q, y)
  BY <1>4, <1>5, <1>6, Zenon DEF Sound
<1>10. Flow(engine.logs, q, y)
  <2>1. Credits(engine.logs, q, y)
    BY <1>4, <1>5, <1>6, CreditsKept, Zenon
  <2>2. q.todo = <<>> /\ q.reply.epoch = 0
    BY <1>4, <1>5, EndsAre, Zenon DEF Alike, Resuming
  <2> QED
    BY <1>5, <1>6, <2>1, <2>2, Zenon DEF Resting, Flow
<1>11. Asked(request, q, y)
  BY <1>1, <1>2, Zenon DEF Asked
<1> QED
  BY <1>1, <1>7, <1>8, <1>9, <1>10, <1>11, QuietSteps, Zenon DEF Keeps

-----------------------------------------------------------------------------
(* The message at hand is a batch of a log.                                 *)
LEMMA MessageIs ==
  ASSUME IngestInvariant, sub.todo # <<>>
  PROVE  /\ sub.msg \in Messages /\ sub.msg.epoch \in 1 .. Len(engine.logs)
         /\ sub.msg.epoch \in Nat /\ sub.msg.seq \in Nat /\ sub.msg.seq + 1 \in Nat
         /\ sub.msg.seq < Len(engine.logs[sub.msg.epoch])
         /\ sub.msg.seq + 1 <= Len(engine.logs[sub.msg.epoch])
<1>1. Sent(engine.logs, sub.msg) /\ sub.msg \in Messages
  BY StateIs, Zenon DEF Known, Sub
<1>2. PICK k \in Nat : k = sub.msg.seq
  BY <1>1, Zenon DEF Sent
<1>3. PICK e : e = sub.msg.epoch
  BY Zenon
<1>4. PICK logs \in Seq(Seq(Events)) : logs = engine.logs
  BY StateIs, Zenon
<1>5. e \in 1 .. Len(logs) /\ k < Len(logs[e])
  BY <1>1, <1>2, <1>3, <1>4, Zenon DEF Sent
<1>6. k + 1 \in Nat /\ k + 1 <= Len(logs[e]) /\ e \in Nat
  BY <1>5
<1> QED
  BY <1>1, <1>2, <1>3, <1>4, <1>5, <1>6, Zenon

(* ApplyLive: the next batch of what is credited, or the first after a      *)
(* clear.                                                                   *)
LEMMA StepApply ==
  ASSUME IngestInvariant, ApplyLive
  PROVE  IngestInvariant'
<1>1. /\ sub.todo # <<>> /\ Head(sub.todo) = "apply" /\ Doing("apply")
      /\ index' = [index EXCEPT !.held = Applied(index.held, engine.logs[sub.msg.epoch][sub.msg.seq + 1])]
      /\ sub' = [Done EXCEPT !.last = sub.msg.seq, !.epochs = Done.epochs \cup {sub.msg.epoch},
                             !.vouch = [epoch |-> sub.msg.epoch, n |-> sub.msg.seq + 1]]
      /\ UNCHANGED <<engine, wire, request>>
  BY Zenon DEF ApplyLive, Doing
<1>2. /\ sub \in Sub /\ index \in Index /\ request \in Request /\ engine.logs \in Seq(Seq(Events))
      /\ Known(engine.logs, sub) /\ Asked(request, sub, index)
  BY StateIs, Zenon
<1>3. Tail(sub.todo) \in Seq(Ops)
  BY <1>1, <1>2, DoneIs, Zenon
<1>4. PICK logs \in Seq(Seq(Events)) : logs = engine.logs
  BY <1>2, Zenon
<1>5. PICK n \in Nat : n = sub.msg.seq
  BY <1>1, MessageIs, Zenon
<1>6. PICK e \in 1 .. Len(logs) : e = sub.msg.epoch
  BY <1>1, <1>4, MessageIs, Zenon
<1>7. e \in Nat /\ n + 1 \in Nat /\ n < Len(logs[e]) /\ n + 1 <= Len(logs[e])
  BY <1>1, <1>4, <1>5, <1>6, MessageIs, Zenon
<1>8. PICK held \in SUBSET Copies : held = index.held
  BY <1>2, Zenon DEF Index
<1>9. PICK epochs \in SUBSET Nat : epochs = sub.epochs
  BY <1>2, Zenon DEF Sub
<1>10. /\ Applying(logs, sub, index) \/ Reviving(logs, sub, index)
       /\ Credits(logs, sub, index) /\ sub.reply.epoch = 0
  BY <1>1, <1>4, AtApply, Zenon DEF Applying, Reviving
<1>11. PICK m : /\ m = sub.last + 1 /\ Holds(logs, held, epochs, m) /\ Owned(held, sub.incarnation)
                /\ epochs = {} \/ m = n
  BY <1>5, <1>8, <1>9, <1>10, Zenon DEF Credits, Reached, Applying, Reviving
<1>12. sub.incarnation \in Nat
  BY <1>2, Zenon DEF Sub
<1>13. PICK h : h = Applied(held, logs[e][n + 1])
  BY Zenon
<1>14. h \in SUBSET Copies /\ Owned(h, sub.incarnation) /\ Holds(logs, h, epochs \cup {e}, n + 1)
  BY <1>7, <1>11, <1>12, <1>13, HoldsApplied, Zenon
<1>15. PICK q : /\ sub' = q /\ q \in Sub /\ q.todo = Tail(sub.todo) /\ q.epochs = epochs \cup {e}
                /\ q.last = n /\ q.vouch.epoch = e /\ q.vouch.n = n + 1 /\ q.msg = sub.msg
                /\ q.reply = sub.reply /\ q.suspended = sub.suspended /\ q.incarnation = sub.incarnation
  <2>1. PICK d : d = WithTodo(sub, Tail(sub.todo))
    BY Zenon
  <2>2. d \in Sub /\ d.todo = Tail(sub.todo) /\ Advanced(d, sub) /\ Done = d
    BY <1>2, <1>3, <2>1, TodoIs, Zenon DEF Done, WithTodo, Advanced
  <2>3. PICK v : v = [epoch |-> e, n |-> n + 1]
    BY Zenon
  <2>4. v \in [epoch : Nat, n : Nat] /\ v.epoch = e /\ v.n = n + 1
    BY <1>7, <2>3, Zenon
  <2>5. PICK E \in SUBSET Nat : E = epochs \cup {e}
    BY <1>7, Zenon
  <2>6. PICK q : q = [d EXCEPT !.last = n, !.epochs = E, !.vouch = v]
    BY Zenon
  <2>7. n \in Int
    OBVIOUS
  <2>8. q \in Sub
    BY <2>2, <2>4, <2>6, <2>7, Zenon DEF Sub
  <2>9. /\ q.todo = d.todo /\ q.last = n /\ q.epochs = E /\ q.vouch = v /\ q.msg = d.msg /\ q.reply = d.reply
        /\ q.suspended = d.suspended /\ q.incarnation = d.incarnation
    BY <2>2, <2>6, Zenon DEF Sub
  <2>10. /\ d.epochs = epochs /\ d.msg = sub.msg /\ d.reply = sub.reply /\ d.suspended = sub.suspended
         /\ d.incarnation = sub.incarnation
    BY <1>9, <2>2, Zenon DEF Advanced, Alike
  <2>11. sub' = q
    BY <1>1, <1>5, <1>6, <2>2, <2>3, <2>5, <2>6, <2>10, Zenon
  <2> QED
    BY <2>2, <2>4, <2>5, <2>8, <2>9, <2>10, <2>11, Zenon
<1>16. PICK y \in Index : index' = y /\ y.hidden = index.hidden /\ y.held = h
  <2>1. index' = [index EXCEPT !.held = h]
    BY <1>1, <1>4, <1>5, <1>6, <1>8, <1>13, Zenon
  <2>2. PICK y : y = [index EXCEPT !.held = h]
    BY Zenon
  <2>3. y \in Index /\ y.hidden = index.hidden /\ y.held = h
    BY <1>2, <1>14, <2>2, Zenon DEF Index
  <2> QED
    BY <2>1, <2>2, <2>3, Zenon
<1>17. SubSteps(q, y, request)
  BY <1>1, <1>2, <1>15, <1>16, Zenon DEF SubSteps
<1>18. Known(logs, q)
  <2>1. IsFiniteSet(epochs \cup {e})
    BY <1>2, <1>9, FS_AddElement, Zenon DEF Known
  <2>2. n >= -1
    OBVIOUS
  <2>3. Sent(logs, sub.msg) /\ epochs \subseteq 1 .. Len(logs)
    BY <1>1, <1>2, <1>4, <1>9, Zenon DEF Known
  <2> QED
    BY <1>7, <1>10, <1>15, <2>1, <2>2, <2>3, Zenon DEF Known
<1>19. Credits(logs, q, y)
  <2>1. Reached(q) = n + 1
    BY <1>10, <1>15, Zenon DEF Reached
  <2> QED
    BY <1>14, <1>15, <1>16, <2>1, Zenon DEF Credits
<1>20. Sound(logs, q, y)
  <2>1. Holds(logs, y.held, q.epochs, n + 1) /\ q.vouch.epoch \in q.epochs
    BY <1>14, <1>15, <1>16, Zenon
  <2> QED
    BY <1>15, <2>1, SoundFrom, Zenon
<1>21. Flow(logs, q, y) /\ Asked(request, q, y)
  <2>1. CASE Applying(logs, sub, index)
    <3>1. q.todo = <<>>
      BY <1>15, <2>1, EndsAre, Zenon DEF Applying
    <3>4. index.hidden = FALSE /\ sub.suspended = FALSE
      <4>1. index.hidden \in BOOLEAN /\ sub.suspended \in BOOLEAN
        BY <1>2, Zenon DEF Index, Sub
      <4> QED
        BY <2>1, <4>1, Zenon DEF Applying
    <3>5. y.hidden = q.suspended /\ q.suspended = FALSE /\ q.reply.epoch = 0
      BY <1>10, <1>15, <1>16, <3>4, Zenon
    <3>2. Resting(logs, q, y)
      BY <1>19, <3>1, <3>5, Zenon DEF Resting
    <3>3. Asked(request, q, y)
      BY <1>2, <2>1, Zenon DEF Applying, Asked
    <3> QED
      BY <3>2, <3>3, Zenon DEF Flow
  <2>2. CASE Reviving(logs, sub, index)
    <3>1. q.todo = Push("bump", Push("show", <<>>)) /\ Head(q.todo) # "show"
      BY <1>15, <2>2, EndsAre, Zenon DEF Reviving
    <3>2. Resuming(logs, q, y)
      BY <1>10, <1>15, <1>16, <1>19, <1>20, <2>2, <3>1, Zenon DEF Reviving, Resuming
    <3>3. Asked(request, q, y)
      BY <1>2, <1>16, <2>2, <3>1, Zenon DEF Reviving, Asked
    <3> QED
      BY <3>2, <3>3, Zenon DEF Flow
  <2> QED
    BY <1>10, <2>1, <2>2, Zenon
<1> QED
  BY <1>1, <1>4, <1>17, <1>18, <1>20, <1>21, QuietSteps, Zenon DEF Keeps

-----------------------------------------------------------------------------
(* No reply is awaited.                                                     *)
LEMMA IdleReply == IdleSub.reply = [epoch |-> 0, upto |-> -1]
BY DEF IdleSub

(* No reply is awaited: the type and the epoch of that.                     *)
LEMMA NoReply ==
  /\ IdleSub.reply \in [epoch : Nat, upto : Int]
  /\ IdleSub.reply.epoch = 0
BY IdleReply

(* The running engine has a log.                                            *)
LEMMA EpochIs ==
  ASSUME IngestInvariant
  PROVE  Epoch \in 1 .. Len(engine.logs) /\ Epoch \in Nat /\ Epoch # 0 /\ engine.logs[Epoch] \in Seq(Events)
<1>1. PICK logs \in Seq(Seq(Events)) : logs = engine.logs
  BY StateIs, Zenon
<1>2. PICK v : v \in 1 .. Len(logs)
  BY <1>1, StateIs, Zenon DEF Known
<1>3. Len(logs) \in 1 .. Len(logs) /\ Len(logs) \in Nat /\ Len(logs) # 0 /\ logs[Len(logs)] \in Seq(Events)
  BY <1>2
<1> QED
  BY <1>1, <1>3, Zenon DEF Epoch

(* ReplayAsk: the running engine answers from what it published.            *)
LEMMA StepReplayAsk ==
  ASSUME IngestInvariant, ReplayAsk
  PROVE  IngestInvariant'
<1>1. /\ sub.todo # <<>> /\ Doing("replay") /\ sub.reply.epoch = 0
      /\ sub' = [sub EXCEPT !.high = sub.last,
                            !.reply = [epoch |-> Epoch, upto |-> Len(engine.logs[Epoch]) - 1]]
      /\ UNCHANGED <<engine, wire, index, request>>
  BY Zenon DEF ReplayAsk, Doing
<1>2. /\ sub \in Sub /\ index \in Index /\ request \in Request /\ engine.logs \in Seq(Seq(Events))
      /\ Known(engine.logs, sub) /\ Asked(request, sub, index)
  BY StateIs, Zenon
<1>3. Fetching(engine.logs, sub, index) /\ sub.todo = Fetch /\ Head(sub.todo) = "replay" /\ index.hidden
  BY <1>1, AtReplay, Zenon DEF Doing, Fetching
<1>4. PICK u \in Int : u = Len(engine.logs[Epoch]) - 1 /\ u < Len(engine.logs[Epoch])
  <2>1. PICK log \in Seq(Events) : log = engine.logs[Epoch]
    BY EpochIs, Zenon
  <2>2. Len(log) - 1 \in Int /\ Len(log) - 1 < Len(log)
    OBVIOUS
  <2> QED
    BY <2>1, <2>2, Zenon
<1>5. PICK r : r = [epoch |-> Epoch, upto |-> u]
  BY Zenon
<1>6. r \in [epoch : Nat, upto : Int] /\ r.epoch = Epoch /\ r.upto = u
  BY <1>5, EpochIs, Zenon
<1>7. PICK q : q = [sub EXCEPT !.high = sub.last, !.reply = r]
  BY Zenon
<1>8. q \in Sub
  BY <1>2, <1>6, <1>7, Zenon DEF Sub
<1>9. /\ q.high = sub.last /\ q.reply = r /\ q.last = sub.last /\ q.todo = sub.todo /\ q.msg = sub.msg
      /\ q.vouch = sub.vouch /\ q.epochs = sub.epochs /\ q.suspended = sub.suspended
      /\ q.incarnation = sub.incarnation
  BY <1>2, <1>7, Zenon DEF Sub
<1>10. sub' = q
  BY <1>1, <1>4, <1>5, <1>7, Zenon
<1>11. SubSteps(q, index, request)
  BY <1>1, <1>2, <1>8, <1>10, Zenon DEF SubSteps
<1>12. Known(engine.logs, q)
  <2>1. q.reply.epoch \in 1 .. Len(engine.logs) /\ q.reply.upto < Len(engine.logs[q.reply.epoch])
    BY <1>4, <1>6, <1>9, EpochIs, Zenon
  <2> QED
    BY <1>2, <1>9, <2>1, Zenon DEF Known
<1>13. Credits(engine.logs, q, index)
  <2>1. Reached(q) = Reached(sub)
    BY <1>1, <1>6, <1>9, EpochIs, Zenon DEF Reached
  <2> QED
    BY <1>3, <1>9, <2>1, Zenon DEF Credits, Fetching
<1>14. Fetching(engine.logs, q, index)
  <2>1. PICK l \in Int : l = sub.last
    BY <1>2, Zenon DEF Sub
  <2>2. PICK k \in Nat : k = sub.msg.seq
    BY <1>1, MessageIs, Zenon
  <2>3. k > l
    BY <1>3, <2>1, <2>2, Zenon DEF Fetching
  <2>4. l <= l /\ l < k
    BY <2>3
  <2>5. q.last <= q.high /\ q.high < q.msg.seq
    BY <1>9, <2>1, <2>2, <2>4, Zenon
  <2> QED
    BY <1>3, <1>9, <1>13, <2>5, Zenon DEF Fetching
<1>15. Asked(request, q, index)
  BY <1>2, <1>9, Zenon DEF Asked
<1> QED
  BY <1>1, <1>3, <1>11, <1>12, <1>14, <1>15, QuietSteps, Zenon DEF Keeps, Flow

-----------------------------------------------------------------------------
(* ReplayFrame: the next batch of the epoch that answers; the last one      *)
(* resumes.                                                                 *)
LEMMA StepReplayFrame ==
  ASSUME IngestInvariant, ReplayFrame
  PROVE  IngestInvariant'
<1>1. /\ sub.todo # <<>> /\ Doing("replay") /\ sub.reply.epoch # 0
      /\ sub.high + 1 \in Oldest .. sub.reply.upto
      /\ index' = [index EXCEPT !.held = Applied(index.held, engine.logs[sub.reply.epoch][sub.high + 1 + 1])]
      /\ UNCHANGED <<engine, wire, request>>
  BY Zenon DEF ReplayFrame, Doing
<1>2. /\ sub \in Sub /\ index \in Index /\ request \in Request /\ engine.logs \in Seq(Seq(Events))
      /\ Known(engine.logs, sub) /\ Asked(request, sub, index)
  BY StateIs, Zenon
<1>3. Fetching(engine.logs, sub, index) /\ sub.todo = Fetch /\ Head(sub.todo) = "replay" /\ index.hidden
  BY <1>1, AtReplay, Zenon DEF Doing, Fetching
<1>4. PICK logs \in Seq(Seq(Events)) : logs = engine.logs
  BY <1>2, Zenon
<1>5. PICK e \in 1 .. Len(logs) : e = sub.reply.epoch /\ sub.reply.upto < Len(logs[e])
  BY <1>1, <1>2, <1>4, Zenon DEF Known
<1>6. PICK k \in Nat : k = sub.msg.seq
  BY <1>1, MessageIs, Zenon
<1>7. PICK g \in Int : g = sub.high /\ sub.last <= g /\ g < k
  BY <1>1, <1>2, <1>3, <1>6, Zenon DEF Fetching, Sub
<1>8. PICK n \in Nat : n = g + 1 /\ n < Len(logs[e]) /\ n <= k /\ sub.last <= n
  <2>1. PICK l \in Int : l = sub.last /\ l >= -1
    BY <1>2, Zenon DEF Sub, Known
  <2>2. PICK u \in Int : u = sub.reply.upto /\ u < Len(logs[e])
    BY <1>2, <1>5, Zenon DEF Sub
  <2>3. PICK o : g + 1 \in o .. u
    BY <1>1, <1>7, <2>2, Zenon
  <2>4. l <= g
    BY <1>7, <2>1, Zenon
  <2>5. g + 1 \in Nat /\ g + 1 <= k /\ l <= g + 1
    BY <1>7, <2>1, <2>4
  <2>6. g + 1 <= u
    BY <2>3
  <2>7. Len(logs[e]) \in Nat
    OBVIOUS
  <2>8. g + 1 < Len(logs[e])
    BY <2>2, <2>6, <2>7
  <2> QED
    BY <2>1, <2>5, <2>8, Zenon
<1>9. e \in Nat /\ n \in Int /\ n + 1 \in Nat /\ n + 1 <= Len(logs[e]) /\ n >= -1
  BY <1>8
<1>10. PICK held \in SUBSET Copies : held = index.held
  BY <1>2, Zenon DEF Index
<1>11. PICK epochs \in SUBSET Nat : epochs = sub.epochs
  BY <1>2, Zenon DEF Sub
<1>12. Holds(logs, held, epochs, n) /\ Owned(held, sub.incarnation) /\ sub.incarnation \in Nat
  <2>1. Reached(sub) = n
    BY <1>1, <1>7, <1>8, Zenon DEF Reached
  <2> QED
    BY <1>2, <1>3, <1>4, <1>10, <1>11, <2>1, Zenon DEF Fetching, Credits, Sub
<1>13. PICK h : h = Applied(held, logs[e][n + 1])
  BY Zenon
<1>14. h \in SUBSET Copies /\ Owned(h, sub.incarnation) /\ Holds(logs, h, epochs \cup {e}, n + 1)
  BY <1>8, <1>12, <1>13, HoldsApplied, Zenon
<1>15. PICK y \in Index : index' = y /\ y.hidden /\ y.held = h
  <2>1. index' = [index EXCEPT !.held = h]
    BY <1>1, <1>4, <1>5, <1>7, <1>8, <1>10, <1>13, Zenon
  <2>2. PICK y : y = [index EXCEPT !.held = h]
    BY Zenon
  <2>3. y \in Index /\ y.hidden = index.hidden /\ y.held = h
    BY <1>2, <1>14, <2>2, Zenon DEF Index
  <2> QED
    BY <1>3, <2>1, <2>2, <2>3, Zenon
<1>16. PICK E \in SUBSET Nat : E = epochs \cup {e}
  BY <1>9, Zenon
<1>17. E \subseteq 1 .. Len(logs) /\ IsFiniteSet(E) /\ Sent(logs, sub.msg)
  <2>1. IsFiniteSet(epochs \cup {e})
    BY <1>2, <1>11, FS_AddElement, Zenon DEF Known
  <2>2. Sent(logs, sub.msg) /\ epochs \subseteq 1 .. Len(logs)
    BY <1>1, <1>2, <1>4, <1>11, Zenon DEF Known
  <2> QED
    BY <1>16, <2>1, <2>2, Zenon
<1>18. CASE Replayed(n)
  <2>1. n = k
    <3>1. n >= k
      BY <1>6, <1>18, Zenon DEF Replayed
    <3> QED
      BY <1>8, <3>1
  <2>2. PICK v : v = [epoch |-> e, n |-> n + 1]
    BY Zenon
  <2>3. v \in [epoch : Nat, n : Nat] /\ v.epoch = e /\ v.n = n + 1
    BY <1>9, <2>2, Zenon
  <2>4. PICK t \in Seq(Ops) : t = Resume /\ t = Push("bump", Push("show", <<>>))
    BY EndsAre, ProgramsAre, Zenon
  <2>5. PICK r \in [epoch : Nat, upto : Int] : r = IdleSub.reply /\ r.epoch = 0
    BY NoReply, Zenon
  <2>6. PICK b \in Int : b = -1
    OBVIOUS
  <2>7. PICK q : q = [sub EXCEPT !.last = n, !.todo = t, !.high = b, !.vouch = v, !.epochs = E, !.reply = r]
    BY Zenon
  <2>8. q \in Sub
    BY <1>2, <1>9, <2>3, <2>7, Zenon DEF Sub
  <2>9. /\ q.last = n /\ q.todo = t /\ q.vouch = v /\ q.epochs = E /\ q.reply = r /\ q.msg = sub.msg
        /\ q.suspended = sub.suspended /\ q.incarnation = sub.incarnation
    BY <1>2, <2>7, Zenon DEF Sub
  <2>10. sub' = q
    <3>1. sub' = [sub EXCEPT !.last = sub.high + 1, !.todo = Resume, !.high = -1,
                             !.vouch = [epoch |-> sub.reply.epoch, n |-> sub.msg.seq + 1],
                             !.epochs = sub.epochs \cup {sub.reply.epoch},
                             !.reply = IdleSub.reply]
      BY <1>7, <1>8, <1>18, Zenon DEF ReplayFrame
    <3> QED
      BY <1>5, <1>6, <1>7, <1>8, <1>11, <1>16, <2>1, <2>2, <2>4, <2>5, <2>6, <2>7, <3>1, Zenon
  <2>11. SubSteps(q, y, request)
    BY <1>1, <1>2, <1>15, <2>8, <2>10, Zenon DEF SubSteps
  <2>12. Known(logs, q)
    BY <1>9, <1>17, <2>3, <2>5, <2>9, Zenon DEF Known
  <2>13. Credits(logs, q, y)
    <3>1. Reached(q) = n + 1
      BY <2>5, <2>9, Zenon DEF Reached
    <3> QED
      BY <1>14, <1>15, <1>16, <2>9, <3>1, Zenon DEF Credits
  <2>14. Sound(logs, q, y)
    <3>1. Holds(logs, y.held, q.epochs, n + 1) /\ q.vouch.epoch \in q.epochs
      BY <1>14, <1>15, <1>16, <2>3, <2>9, Zenon
    <3> QED
      BY <2>3, <2>9, <3>1, SoundFrom, Zenon
  <2>15. Flow(logs, q, y)
    <3>1. Resuming(logs, q, y)
      BY <1>3, <1>15, <2>4, <2>5, <2>9, <2>13, <2>14, Zenon DEF Fetching, Resuming
    <3> QED
      BY <3>1, Zenon DEF Flow
  <2>16. Asked(request, q, y)
    <3>1. Head(q.todo) # "show"
      BY <2>4, <2>9, EndsAre, Zenon
    <3> QED
      BY <1>2, <1>15, <3>1, Zenon DEF Asked
  <2> QED
    BY <1>1, <1>4, <1>15, <2>11, <2>12, <2>15, <2>16, QuietSteps, Zenon DEF Keeps
<1>19. CASE ~Replayed(n)
  <2>1. n < k
    <3>1. ~(n >= k)
      BY <1>6, <1>19, Zenon DEF Replayed
    <3> QED
      BY <3>1
  <2>7. PICK q : q = [sub EXCEPT !.high = n, !.epochs = E]
    BY Zenon
  <2>8. q \in Sub
    BY <1>2, <1>9, <2>7, Zenon DEF Sub
  <2>9. /\ q.last = sub.last /\ q.todo = sub.todo /\ q.vouch = sub.vouch /\ q.epochs = E
        /\ q.reply = sub.reply /\ q.msg = sub.msg /\ q.high = n
        /\ q.suspended = sub.suspended /\ q.incarnation = sub.incarnation
    BY <1>2, <2>7, Zenon DEF Sub
  <2>10. sub' = q
    <3>1. sub' = [sub EXCEPT !.high = sub.high + 1, !.epochs = sub.epochs \cup {sub.reply.epoch}]
      BY <1>7, <1>8, <1>19, Zenon DEF ReplayFrame
    <3> QED
      BY <1>5, <1>7, <1>8, <1>11, <1>16, <2>7, <3>1, Zenon
  <2>11. SubSteps(q, y, request)
    BY <1>1, <1>2, <1>15, <2>8, <2>10, Zenon DEF SubSteps
  <2>12. Known(logs, q)
    BY <1>2, <1>4, <1>17, <2>9, Zenon DEF Known
  <2>13. Credits(logs, q, y)
    <3>1. Reached(q) = n + 1
      BY <1>1, <2>9, Zenon DEF Reached
    <3> QED
      BY <1>14, <1>15, <1>16, <2>9, <3>1, Zenon DEF Credits
  <2>15. Flow(logs, q, y)
    <3>1. Fetching(logs, q, y)
      BY <1>3, <1>6, <1>8, <1>15, <2>1, <2>9, <2>13, Zenon DEF Fetching
    <3> QED
      BY <3>1, Zenon DEF Flow
  <2>16. Asked(request, q, y)
    BY <1>2, <1>3, <1>15, <2>9, Zenon DEF Asked
  <2> QED
    BY <1>1, <1>4, <1>15, <2>11, <2>12, <2>15, <2>16, QuietSteps, Zenon DEF Keeps
<1> QED
  BY <1>18, <1>19, Zenon

-----------------------------------------------------------------------------
(* What Discard does before it ends or applies the message at hand.         *)
LEMMA DiscardIs ==
  ASSUME NEW m
  PROVE  /\ m.fate = "undecodable" => Discard(m) \in Discarding(<<>>)
         /\ m.fate # "undecodable" => Discard(m) \in Discarding(Again)
<1>1. m.fate = "undecodable" => Live(m, TRUE) = <<>>
  BY Zenon DEF Live
<1>2. m.fate # "undecodable" => Live(m, TRUE) = Again
  BY EndsAre, ProgramsAre, Zenon DEF Live
<1>3. /\ Invalidate \o <<>> = Clears(<<>>)
      /\ Invalidate \o Again = Clears(Again)
  BY RestsAre, ProgramsAre, Zenon
<1>4. Clears(<<>>) \in Discarding(<<>>) /\ Clears(Again) \in Discarding(Again)
  BY Zenon DEF Discarding, Clearing
<1> QED
  BY <1>1, <1>2, <1>3, <1>4, Zenon DEF Discard

(* ReplayFail: what the replay left is discarded.                           *)
LEMMA StepReplayFail ==
  ASSUME IngestInvariant, ReplayFail
  PROVE  IngestInvariant'
<1>1. /\ sub.todo # <<>> /\ Doing("replay")
      /\ sub' = [sub EXCEPT !.todo = Discard(sub.msg), !.high = -1, !.reply = IdleSub.reply]
      /\ UNCHANGED <<engine, wire, index, request>>
  BY Zenon DEF ReplayFail, Doing
<1>2. /\ sub \in Sub /\ index \in Index /\ request \in Request
      /\ Known(engine.logs, sub) /\ Asked(request, sub, index)
  BY StateIs, Zenon
<1>3. /\ sub.suspended /\ sub.msg.seq > sub.last /\ index.hidden
  BY <1>1, AtReplay, Zenon DEF Doing, Fetching
<1>4. PICK t : t = Discard(sub.msg)
  BY Zenon
<1>5. t \in Seq(Ops) /\ t # <<>> /\ Head(t) # "show"
  <2>1. t \in Discarding(<<>>) \/ t \in Discarding(Again)
    BY <1>4, DiscardIs, Zenon
  <2>2. CASE t \in Discarding(<<>>)
    BY <2>2, RestsAre, NotShown, DiscardingWalk, Zenon
  <2>3. CASE t \in Discarding(Again)
    BY <2>3, RestsAre, NotShown, DiscardingWalk, Zenon
  <2> QED
    BY <2>1, <2>2, <2>3, Zenon
<1>6. PICK r \in [epoch : Nat, upto : Int] : r = IdleSub.reply /\ r.epoch = 0
  BY NoReply, Zenon
<1>7. PICK b \in Int : b = -1
  OBVIOUS
<1>8. PICK q : q = [sub EXCEPT !.todo = t, !.high = b, !.reply = r]
  BY Zenon
<1>9. q \in Sub
  BY <1>2, <1>5, <1>8, Zenon DEF Sub
<1>10. /\ q.last = sub.last /\ q.todo = t /\ q.vouch = sub.vouch /\ q.epochs = sub.epochs
       /\ q.reply = r /\ q.msg = sub.msg /\ q.suspended = sub.suspended
  BY <1>2, <1>8, Zenon DEF Sub
<1>11. sub' = q
  BY <1>1, <1>4, <1>6, <1>7, <1>8, Zenon
<1>12. SubSteps(q, index, request)
  BY <1>1, <1>2, <1>9, <1>11, Zenon DEF SubSteps
<1>13. Known(engine.logs, q)
  BY <1>1, <1>2, <1>6, <1>10, Zenon DEF Known
<1>14. Purging(q, index)
  <2>1. CASE sub.msg.fate = "undecodable"
    <3>1. t \in Discarding(<<>>) /\ sub.msg.fate # "ok"
      BY <1>4, <2>1, DiscardIs, Zenon
    <3> QED
      BY <1>3, <1>6, <1>10, <3>1, Zenon DEF Purging
  <2>2. CASE sub.msg.fate # "undecodable"
    <3>1. t \in Discarding(Again)
      BY <1>4, <2>2, DiscardIs, Zenon
    <3> QED
      BY <1>3, <1>6, <1>10, <3>1, Zenon DEF Purging
  <2> QED
    BY <2>1, <2>2, Zenon
<1>15. Asked(request, q, index)
  BY <1>2, <1>3, <1>5, <1>10, Zenon DEF Asked
<1> QED
  BY <1>1, <1>3, <1>12, <1>13, <1>14, <1>15, QuietSteps, Zenon DEF Keeps, Flow

-----------------------------------------------------------------------------
(* Nothing but the task's own signals moves, and no more is held.           *)
Signalled(q, s, y, x) ==
  /\ Alike(q, s) /\ q.todo = s.todo /\ q.suspended = s.suspended /\ q.epochs = s.epochs
  /\ q.vouch = s.vouch /\ y.hidden = x.hidden /\ y.held \subseteq x.held

(* Less of the credit is still credit.                                      *)
LEMMA FewerCredits ==
  ASSUME NEW logs, NEW s, NEW q, NEW x, NEW y, Signalled(q, s, y, x), Credits(logs, s, x)
  PROVE  Credits(logs, q, y)
<1>1. Reached(q) = Reached(s) /\ q.epochs = s.epochs /\ q.incarnation = s.incarnation
  BY AlikeReach, Zenon DEF Signalled, Alike
<1>2. BlocksOf(y.held) \subseteq BlocksOf(x.held) /\ y.held \subseteq x.held
  BY Zenon DEF Signalled, BlocksOf
<1>3. Owned(y.held, q.incarnation)
  BY <1>1, <1>2, Zenon DEF Credits, Owned
<1>4. Holds(logs, y.held, q.epochs, Reached(q))
  BY <1>1, <1>2, Zenon DEF Credits, Holds
<1> QED
  BY <1>3, <1>4, Zenon DEF Credits

(* A signal leaves the subscriber where it is.                              *)
LEMMA SignalledKeeps ==
  ASSUME NEW logs, NEW s, NEW q, NEW x, NEW y, NEW p, Signalled(q, s, y, x), Known(logs, s),
         Flow(logs, s, x), Asked(p, s, x), ~x.hidden => Sound(logs, s, x)
  PROVE  Known(logs, q) /\ Flow(logs, q, y) /\ Asked(p, q, y) /\ (~y.hidden => Sound(logs, q, y))
<1>1. Known(logs, q)
  BY Zenon DEF Known, Signalled, Alike
<1>2. Asked(p, q, y)
  BY Zenon DEF Asked, Signalled
<1>3. BlocksOf(y.held) \subseteq BlocksOf(x.held)
  BY Zenon DEF Signalled, BlocksOf
<1>4. Sound(logs, s, x) => Sound(logs, q, y)
  BY <1>3, Zenon DEF Sound, Signalled
<1>5. /\ q.last = s.last /\ q.msg = s.msg /\ q.high = s.high /\ q.reply = s.reply
      /\ q.todo = s.todo /\ q.suspended = s.suspended /\ q.epochs = s.epochs
      /\ q.vouch = s.vouch /\ y.hidden = x.hidden
  BY Zenon DEF Signalled, Alike
<1>6. Credits(logs, s, x) => Credits(logs, q, y)
  BY FewerCredits, Zenon
<1>13. Flow(logs, q, y)
  <2>7. CASE Resting(logs, s, x)
    BY <1>5, <1>6, <2>7, Zenon DEF Resting, Flow
  <2>8. CASE Applying(logs, s, x)
    BY <1>5, <1>6, <2>8, Zenon DEF Applying, Flow
  <2>9. CASE Reviving(logs, s, x)
    BY <1>5, <1>6, <2>9, Zenon DEF Reviving, Flow
  <2>10. CASE Resuming(logs, s, x)
    BY <1>4, <1>5, <1>6, <2>10, Zenon DEF Resuming, Flow
  <2>11. CASE Fetching(logs, s, x)
    BY <1>5, <1>6, <2>11, Zenon DEF Fetching, Flow
  <2>12. CASE Purging(s, x)
    BY <1>5, <2>12, Zenon DEF Purging, Flow
  <2> QED
    BY <2>7, <2>8, <2>9, <2>10, <2>11, <2>12, Zenon DEF Flow
<1> QED
  BY <1>1, <1>2, <1>4, <1>5, <1>13, Zenon

(* RemoveWorker: the worker's own blocks are gone.                          *)
LEMMA StepRemoveWorker ==
  ASSUME IngestInvariant, RemoveWorker
  PROVE  IngestInvariant'
<1>1. /\ sub' = [sub EXCEPT !.stop = TRUE]
      /\ index' = [index EXCEPT !.held = {h \in index.held : h.block \in PoolBlocks}]
      /\ UNCHANGED <<engine, wire, request>>
  BY Zenon DEF RemoveWorker
<1>2. /\ sub \in Sub /\ index \in Index /\ request \in Request
      /\ Known(engine.logs, sub) /\ Flow(engine.logs, sub, index) /\ Asked(request, sub, index)
      /\ ~index.hidden => Sound(engine.logs, sub, index)
  BY StateIs, Zenon
<1>3. PICK held : held = {h \in index.held : h.block \in PoolBlocks}
  BY Zenon
<1>4. held \in SUBSET Copies /\ held \subseteq index.held
  BY <1>2, <1>3, Zenon DEF Index
<1>5. PICK y : y = [index EXCEPT !.held = held]
  BY Zenon
<1>6. y \in Index /\ y.hidden = index.hidden /\ y.held = held
  BY <1>2, <1>4, <1>5, Zenon DEF Index
<1>7. PICK q : q = [sub EXCEPT !.stop = TRUE]
  BY Zenon
<1>8. q \in Sub
  BY <1>2, <1>7, Zenon DEF Sub
<1>9. /\ Alike(q, sub) /\ q.todo = sub.todo /\ q.suspended = sub.suspended /\ q.epochs = sub.epochs
      /\ q.vouch = sub.vouch
  BY <1>2, <1>7, Zenon DEF Sub, Alike
<1>10. Signalled(q, sub, y, index)
  BY <1>4, <1>6, <1>9, Zenon DEF Signalled
<1>11. SubSteps(q, y, request)
  BY <1>1, <1>2, <1>3, <1>5, <1>6, <1>7, <1>8, Zenon DEF SubSteps
<1>12. Keeps(q, y, request)
  BY <1>2, <1>10, SignalledKeeps, Zenon DEF Keeps
<1> QED
  BY <1>1, <1>11, <1>12, QuietSteps, Zenon

(* Shutdown: the task ends at the top of its loop.                          *)
LEMMA StepShutdown ==
  ASSUME IngestInvariant, Shutdown
  PROVE  IngestInvariant'
<1>1. sub' = [sub EXCEPT !.ended = TRUE] /\ UNCHANGED <<engine, wire, index, request>>
  BY Zenon DEF Shutdown
<1>2. /\ sub \in Sub /\ index \in Index /\ request \in Request
      /\ Known(engine.logs, sub) /\ Flow(engine.logs, sub, index) /\ Asked(request, sub, index)
      /\ ~index.hidden => Sound(engine.logs, sub, index)
  BY StateIs, Zenon
<1>7. PICK q : q = [sub EXCEPT !.ended = TRUE]
  BY Zenon
<1>8. q \in Sub
  BY <1>2, <1>7, Zenon DEF Sub
<1>9. /\ Alike(q, sub) /\ q.todo = sub.todo /\ q.suspended = sub.suspended /\ q.epochs = sub.epochs
      /\ q.vouch = sub.vouch
  BY <1>2, <1>7, Zenon DEF Sub, Alike
<1>10. Signalled(q, sub, index, index)
  BY <1>9, Zenon DEF Signalled
<1>11. SubSteps(q, index, request)
  BY <1>1, <1>2, <1>7, <1>8, Zenon DEF SubSteps
<1>12. Keeps(q, index, request)
  BY <1>2, <1>10, SignalledKeeps, Zenon DEF Keeps
<1> QED
  BY <1>1, <1>11, <1>12, QuietSteps, Zenon

-----------------------------------------------------------------------------
(* The invariant after a step of the request.                               *)
LEMMA RequestSteps ==
  ASSUME IngestInvariant, NEW p \in Request, request' = p, UNCHANGED <<engine, wire, sub, index>>,
         Asked(p, sub, index)
  PROVE  IngestInvariant'
<1>1. SubSteps(sub, index, p)
  BY StateIs, Zenon DEF SubSteps
<1>2. Keeps(sub, index, p)
  BY StateIs, Zenon DEF Keeps
<1> QED
  BY <1>1, <1>2, QuietSteps, Zenon

(* The idle request has its type.                                           *)
LEMMA IdleIs == IdleRequest \in Request
BY DEF IdleRequest, Request

(* A set of at most one element has no two.                                 *)
LEMMA AtMostOne ==
  ASSUME NEW S, IsFiniteSet(S), Cardinality(S) <= 1, NEW e \in S, NEW f \in S
  PROVE  e = f
<1>1. Cardinality(S) \in Nat
  BY FS_CardinalityType, Zenon
<1>2. Cardinality(S) # 0
  BY FS_EmptySet, Zenon
<1>3. Cardinality(S) = 1
  BY <1>1, <1>2
<1>4. PICK x : S = {x}
  BY <1>3, FS_Singleton, Zenon
<1>5. e = x /\ f = x
  BY <1>4, Zenon
<1> QED
  BY <1>5, Zenon

(* Soundness, as the property states it.                                    *)
LEMMA SoundIsNow ==
  ASSUME IngestInvariant, Sound(engine.logs, sub, index)
  PROVE  SoundNow
<1>1. IsFiniteSet(sub.epochs)
  BY StateIs, Zenon DEF Known
<1>2. Cardinality(sub.epochs) <= 1 => \A e, f \in sub.epochs : e = f
  BY <1>1, AtMostOne, Zenon
<1>3. Credited = BlocksOf(index.held)
  BY Zenon DEF Credited, BlocksOf
<1> QED
  BY <1>2, <1>3, Zenon DEF SoundNow, Sound, CacheAt, CacheOf

(* find_matches: an unsound match is collected from a hidden source only,   *)
(* and becomes stale before it is shown.                                    *)
LEMMA StepQueries ==
  ASSUME IngestInvariant, RequestStep
  PROVE  IngestInvariant'
<1>1. /\ sub \in Sub /\ index \in Index /\ request \in Request /\ Asked(request, sub, index)
      /\ ~index.hidden => Sound(engine.logs, sub, index)
  BY StateIs, Zenon
<1>2. CASE QueryGeneration
  <2>1. PICK p : p = [IdleRequest EXCEPT !.pc = "match"]
    BY Zenon
  <2>2. p \in Request /\ p.pc = "match"
    BY <2>1, IdleIs, Zenon DEF Request
  <2>3. Asked(p, sub, index)
    BY <2>2, Zenon DEF Asked
  <2> QED
    BY <1>2, <2>1, <2>2, <2>3, RequestSteps, Zenon DEF QueryGeneration
<1>3. CASE QueryMatch
  <2>1. PICK b \in BOOLEAN : b = SoundNow /\ (SoundNow <=> b)
    BY Zenon DEF SoundNow
  <2>2. PICK c \in SUBSET AllBlocks : c = Credited
    <3>1. \A h \in index.held : h.block \in AllBlocks
      BY <1>1, Zenon DEF Index, Copies
    <3> QED
      BY <3>1, Zenon DEF Credited
  <2>3. PICK p : p = [request EXCEPT !.pc = "filter", !.found = c, !.sound = b]
    BY Zenon
  <2>4. p \in Request
    BY <1>1, <2>3, Zenon DEF Request
  <2>5. p.pc = "filter" /\ p.sound = b
    BY <1>1, <2>3, Zenon DEF Request
  <2>6. ~SoundNow => index.hidden /\ (sub.todo # <<>> => Head(sub.todo) # "show")
    BY <1>1, SoundIsNow, AtShow, Zenon DEF Doing, Resuming
  <2>7. Asked(p, sub, index)
    BY <2>1, <2>5, <2>6, Zenon DEF Asked
  <2>8. request' = p /\ UNCHANGED <<engine, wire, sub, index>>
    BY <1>3, <2>1, <2>2, <2>3, Zenon DEF QueryMatch
  <2> QED
    BY <2>4, <2>7, <2>8, RequestSteps, Zenon
<1>4. CASE QueryFilter
  <2>1. PICK c \in SUBSET AllBlocks : c = IF index.hidden THEN {} ELSE request.found
    BY <1>1, Zenon DEF Request
  <2>3. PICK p : p = [request EXCEPT !.pc = "check", !.found = c]
    BY Zenon
  <2>4. p \in Request
    BY <1>1, <2>3, Zenon DEF Request
  <2>5. p.pc = "check" /\ p.sound = request.sound /\ p.stale = request.stale /\ p.found = c
    BY <1>1, <2>3, Zenon DEF Request
  <2>6. request.pc = "filter"
    BY <1>4, Zenon DEF QueryFilter
  <2>7. Asked(p, sub, index)
    BY <1>1, <2>1, <2>5, <2>6, Zenon DEF Asked
  <2>8. request' = p /\ UNCHANGED <<engine, wire, sub, index>>
    BY <1>4, <2>1, <2>3, Zenon DEF QueryFilter
  <2> QED
    BY <2>4, <2>7, <2>8, RequestSteps, Zenon
<1>5. CASE QueryReturn
  <2>1. PICK c \in SUBSET AllBlocks : c = AnswerOf(request)
    BY <1>1, Zenon DEF Request, AnswerOf
  <2>2. PICK b \in BOOLEAN : b = request.sound
    BY <1>1, Zenon DEF Request
  <2>3. PICK p : p = [IdleRequest EXCEPT !.pc = "done", !.found = c, !.sound = b]
    BY Zenon
  <2>4. p \in Request
    BY IdleIs, <2>3, Zenon DEF Request
  <2>5. p.pc = "done" /\ p.sound = b /\ p.found = c
    BY IdleIs, <2>3, Zenon DEF Request
  <2>6. request.pc = "check"
    BY <1>5, Zenon DEF QueryReturn
  <2>7. c # {} => b
    BY <1>1, <2>1, <2>2, <2>6, Zenon DEF Asked, AnswerOf
  <2>9. Asked(p, sub, index)
    BY <2>5, <2>7, Zenon DEF Asked
  <2>8. request' = p /\ UNCHANGED <<engine, wire, sub, index>>
    BY <1>5, <2>1, <2>2, <2>3, Zenon DEF QueryReturn
  <2> QED
    BY <2>4, <2>8, <2>9, RequestSteps, Zenon
<1> QED
  BY <1>2, <1>3, <1>4, <1>5, Zenon DEF RequestStep

-----------------------------------------------------------------------------
(* What Receive has the subscriber do.                                      *)
TodoFor(m, reset, gap, suspended) ==
  (IF reset THEN Invalidate ELSE <<>>) \o
    (IF ~gap THEN Live(m, suspended \/ reset)
     ELSE Suspend \o (IF setting.replay THEN <<"replay">> ELSE Discard(m)))

(* Suspensions and invalidations are programs that hide first.              *)
LEMMA ClearsIs ==
  ASSUME NEW s \in Seq(Ops)
  PROVE  /\ Clears(s) \in Seq(Ops) /\ Head(Clears(s)) = "hide"
         /\ Suspends(s) \in Seq(Ops) /\ Head(Suspends(s)) = "hide"
<1>1. "hide" \in Ops /\ "bump" \in Ops /\ "clear" \in Ops
  BY Zenon DEF Ops
<1>2. PICK c \in Seq(Ops) : c = Push("clear", s)
  BY <1>1, PushIs, Zenon
<1>3. PICK d \in Seq(Ops) : d = Push("bump", c)
  BY <1>1, PushIs, Zenon
<1>4. PICK e \in Seq(Ops) : e = Push("bump", s)
  BY <1>1, PushIs, Zenon
<1>5. /\ Push("hide", d) \in Seq(Ops) /\ Head(Push("hide", d)) = "hide"
      /\ Push("hide", e) \in Seq(Ops) /\ Head(Push("hide", e)) = "hide"
  BY <1>1, PushIs, Zenon
<1>6. Clears(s) = Push("hide", d) /\ Suspends(s) = Push("hide", e)
  BY <1>2, <1>3, <1>4, Zenon DEF Clears, Suspends
<1> QED
  BY <1>5, <1>6, Zenon

(* What is done for a batch that decodes.                                   *)
LEMMA LiveIs ==
  ASSUME NEW m, m.fate # "undecodable", NEW b
  PROVE  (b => Live(m, b) = Again) /\ (~b => Live(m, b) = Push("apply", <<>>))
<1>1. /\ <<"apply">> \o Resume = Again
      /\ <<"apply">> \o <<>> = Push("apply", <<>>)
  BY EndsAre, ProgramsAre, Zenon
<1> QED
  BY <1>1, Zenon DEF Live

(* A batch in order is applied, and a suspended source resumed.             *)
LEMMA InOrder ==
  ASSUME NEW m, m.fate # "undecodable", NEW b, NEW reset, ~reset, NEW gap, ~gap
  PROVE  /\ b => TodoFor(m, reset, gap, b) = Again
         /\ ~b => TodoFor(m, reset, gap, b) = Push("apply", <<>>)
<1>1. PICK c : c = (b \/ reset) /\ (b => c) /\ (~b => ~c)
  BY Zenon
<1>2. PICK t : t = Live(m, c)
  BY Zenon
<1>3. (b => t = Again) /\ (~b => t = Push("apply", <<>>))
  BY <1>1, <1>2, LiveIs, Zenon
<1>4. t \in Seq(Ops)
  BY <1>3, EndsAre, Zenon
<1>5. <<>> \o t = t
  BY <1>4, EmptyIs, Zenon
<1>6. TodoFor(m, reset, gap, b) = <<>> \o t
  BY <1>1, <1>2, Zenon DEF TodoFor
<1> QED
  BY <1>3, <1>5, <1>6, Zenon

(* A publisher that started over has the source invalidated first.          *)
LEMMA StartedOver ==
  ASSUME NEW m, m.fate # "undecodable", NEW b, NEW reset, reset, NEW gap, ~gap
  PROVE  /\ TodoFor(m, reset, gap, b) = Clears(Again)
         /\ Clears(Again) \in Discarding(Again) /\ Head(Clears(Again)) = "hide"
<1>1. PICK c : c = (b \/ reset) /\ c
  BY Zenon
<1>2. Live(m, c) = Again
  BY <1>1, LiveIs, Zenon
<1>3. Invalidate \o Again = Clears(Again)
  BY RestsAre, ProgramsAre, Zenon
<1>4. TodoFor(m, reset, gap, b) = Invalidate \o Again
  BY <1>1, <1>2, Zenon DEF TodoFor
<1>5. Clears(Again) \in Discarding(Again)
  BY Zenon DEF Discarding, Clearing
<1>6. Head(Clears(Again)) = "hide"
  BY RestsAre, ClearsIs, Zenon
<1> QED
  BY <1>3, <1>4, <1>5, <1>6, Zenon

(* A gap with a replay endpoint.                                            *)
LEMMA Refetched ==
  ASSUME NEW m, NEW b, NEW reset, NEW gap, gap, setting.replay
  PROVE  /\ ~reset => TodoFor(m, reset, gap, b) = Suspends(Fetch)
         /\ reset => TodoFor(m, reset, gap, b) = Clears(Suspends(Fetch))
<1>1. /\ Suspend \o Fetch = Suspends(Fetch) /\ <<"replay">> = Fetch
      /\ Suspends(Fetch) \in Seq(Ops)
  BY EndsAre, RestsAre, ProgramsAre, Zenon
<1>2. <<>> \o Suspends(Fetch) = Suspends(Fetch) /\ Invalidate \o Suspends(Fetch) = Clears(Suspends(Fetch))
  BY <1>1, ProgramsAre, Zenon
<1> QED
  BY <1>1, <1>2, Zenon DEF TodoFor

(* A gap without one.                                                       *)
LEMMA GivenUp ==
  ASSUME NEW m, NEW s \in Seq(Ops), Discard(m) = Clears(s), NEW b, NEW reset, NEW gap, gap, ~setting.replay
  PROVE  TodoFor(m, reset, gap, b) \in Discarding(s) /\ Head(TodoFor(m, reset, gap, b)) = "hide"
<1>1. PICK c \in Seq(Ops) : c = Clears(s)
  BY ClearsIs, Zenon
<1>2. PICK d \in Seq(Ops) : d = Suspends(c)
  BY ClearsIs, Zenon
<1>3. Suspend \o c = d /\ <<>> \o d = d /\ Invalidate \o d = Clears(d)
  BY <1>2, ProgramsAre, Zenon
<1>4. (reset => TodoFor(m, reset, gap, b) = Clears(d)) /\ (~reset => TodoFor(m, reset, gap, b) = d)
  BY <1>1, <1>3, Zenon DEF TodoFor
<1>5. Clears(d) \in Clearing(Suspends(Clears(s))) /\ d \in Suspending(Clears(s))
  BY <1>1, <1>2, Zenon DEF Clearing, Suspending
<1>6. Clears(d) \in Discarding(s) /\ d \in Discarding(s)
  BY <1>5, Zenon DEF Discarding
<1>7. Head(Clears(d)) = "hide" /\ Head(d) = "hide"
  BY <1>2, ClearsIs, Zenon
<1> QED
  BY <1>4, <1>6, <1>7, Zenon

(* Discard is an invalidation.                                              *)
LEMMA DiscardClears ==
  ASSUME NEW m
  PROVE  /\ m.fate = "undecodable" => Discard(m) = Clears(<<>>)
         /\ m.fate # "undecodable" => Discard(m) = Clears(Again)
<1>1. m.fate = "undecodable" => Live(m, TRUE) = <<>>
  BY Zenon DEF Live
<1>2. m.fate # "undecodable" => Live(m, TRUE) = Again
  BY EndsAre, ProgramsAre, Zenon DEF Live
<1>3. /\ Invalidate \o <<>> = Clears(<<>>)
      /\ Invalidate \o Again = Clears(Again)
  BY RestsAre, ProgramsAre, Zenon
<1> QED
  BY <1>1, <1>2, <1>3, Zenon DEF Discard

-----------------------------------------------------------------------------
(* With nothing to do the subscriber rests.                                 *)
LEMMA AtRest ==
  ASSUME IngestInvariant, sub.todo = <<>>
  PROVE  Resting(engine.logs, sub, index)
<1>1. ~Applying(engine.logs, sub, index) /\ ~Reviving(engine.logs, sub, index)
  BY EndsAre, Zenon DEF Applying, Reviving
<1>2. ~Resuming(engine.logs, sub, index)
  BY EndsAre, Zenon DEF Resuming
<1>3. ~Fetching(engine.logs, sub, index)
  <2>1. sub.todo # Fetch
    BY EndsAre, Zenon
  <2>2. sub.todo \notin Suspending(Fetch)
    BY EndsAre, SuspendingWalk, Zenon
  <2> QED
    BY <2>1, <2>2, Zenon DEF Fetching
<1>4. ~Purging(sub, index)
  BY PurgeAt, Zenon
<1> QED
  BY <1>1, <1>2, <1>3, <1>4, StateIs, Zenon DEF Flow

(* The message at the head of the wire, and the rest.                       *)
LEMMA WireIs ==
  ASSUME NEW logs, NEW w \in Seq(Messages), w # <<>>, Queued(logs, w)
  PROVE  /\ Head(w) \in Messages /\ Sent(logs, Head(w))
         /\ Tail(w) \in Seq(Messages) /\ Queued(logs, Tail(w))
<1>1. /\ Head(w) = w[1] /\ 1 \in 1 .. Len(w) /\ w[1] \in Messages
      /\ Tail(w) \in Seq(Messages)
      /\ \A i \in 1 .. Len(Tail(w)) : i + 1 \in 1 .. Len(w) /\ Tail(w)[i] = w[i + 1]
  OBVIOUS
<1> QED
  BY <1>1, Zenon DEF Queued

(* The task has taken the message m and left the rest as it was.            *)
Took(q, m) ==
  /\ q \in Sub /\ q.msg = m /\ q.reply = sub.reply /\ q.epochs = sub.epochs /\ q.vouch = sub.vouch
  /\ q.last >= -1

(* The invariant after a message is taken from the wire.                    *)
LEMMA Taken ==
  ASSUME IngestInvariant, wire # <<>>, NEW q, Took(q, Head(wire)), sub' = q, wire' = Tail(wire),
         UNCHANGED <<engine, index, request>>, sub.reply.epoch = 0,
         Flow(engine.logs, q, index), Head(q.todo) # "show"
  PROVE  IngestInvariant'
<1>1. /\ Sent(engine.logs, Head(wire)) /\ wire' \in Seq(Messages) /\ Queued(engine.logs, wire')
  BY StateIs, WireIs, Zenon
<1>2. /\ index \in Index /\ request \in Request
      /\ Known(engine.logs, sub) /\ Asked(request, sub, index)
      /\ ~index.hidden => Sound(engine.logs, sub, index)
  BY StateIs, Zenon
<1>3. SubSteps(q, index, request)
  BY <1>2, Zenon DEF SubSteps, Took
<1>4. Known(engine.logs, q)
  BY <1>1, <1>2, Zenon DEF Known, Took
<1>5. Sound(engine.logs, sub, index) => Sound(engine.logs, q, index)
  BY Zenon DEF Sound, Took
<1>6. Asked(request, q, index)
  BY <1>2, Zenon DEF Asked
<1> QED
  BY <1>1, <1>2, <1>3, <1>4, <1>5, <1>6, SubscriberSteps, Zenon DEF Keeps

-----------------------------------------------------------------------------
(* Receive, of a malformed message.                                         *)
LEMMA ReceiveMalformed ==
  ASSUME IngestInvariant, Receive, Head(wire).fate = "malformed"
  PROVE  IngestInvariant'
<1>1. /\ sub.todo = <<>> /\ wire # <<>> /\ wire' = Tail(wire) /\ UNCHANGED <<engine, index, request>>
      /\ sub' = [sub EXCEPT !.todo = Invalidate, !.suspended = TRUE, !.msg = Head(wire)]
  BY Zenon DEF Receive, AtLoop
<1>2. sub \in Sub /\ sub.last >= -1 /\ sub.reply.epoch = 0
  BY <1>1, StateIs, AtRest, Zenon DEF Known, Resting
<1>3. PICK m \in Messages : m = Head(wire)
  BY <1>1, StateIs, WireIs, Zenon
<1>4. PICK t \in Seq(Ops) : t = Invalidate /\ t = Clears(<<>>)
  BY RestsAre, ClearsIs, ProgramsAre, Zenon
<1>5. t \in Discarding(<<>>)
  BY <1>4, Zenon DEF Discarding, Clearing
<1>6. PICK q : q = [sub EXCEPT !.todo = t, !.suspended = TRUE, !.msg = m]
  BY Zenon
<1>7. q \in Sub
  BY <1>2, <1>6, Zenon DEF Sub
<1>8. /\ q.todo = t /\ q.suspended = TRUE /\ q.msg = m /\ q.last = sub.last /\ q.reply = sub.reply
      /\ q.epochs = sub.epochs /\ q.vouch = sub.vouch
  BY <1>2, <1>6, Zenon DEF Sub
<1>9. sub' = q
  BY <1>1, <1>3, <1>4, <1>6, Zenon
<1>10. Took(q, Head(wire))
  BY <1>2, <1>3, <1>7, <1>8, Zenon DEF Took
<1>11. Head(t) = "hide" /\ Head(t) # "show"
  BY <1>4, RestsAre, ClearsIs, Zenon
<1>12. Purging(q, index)
  <2>1. q.msg.fate # "ok"
    BY <1>3, <1>8, Zenon
  <2> QED
    BY <1>2, <1>5, <1>8, <1>11, <2>1, Zenon DEF Purging
<1> QED
  BY <1>1, <1>2, <1>8, <1>9, <1>10, <1>11, <1>12, Taken, Zenon DEF Flow

(* Receive, of a batch already seen.                                        *)
LEMMA ReceiveOld ==
  ASSUME IngestInvariant, Receive, sub' = sub
  PROVE  IngestInvariant'
<1>1. /\ wire # <<>> /\ wire' = Tail(wire) /\ UNCHANGED <<engine, index, request>>
  BY Zenon DEF Receive
<1>2. wire' \in Seq(Messages) /\ Queued(engine.logs, wire')
  BY <1>1, StateIs, WireIs, Zenon
<1>3. SubSteps(sub, index, request)
  BY <1>1, StateIs, Zenon DEF SubSteps
<1>4. Keeps(sub, index, request)
  BY StateIs, Zenon DEF Keeps
<1> QED
  BY <1>2, <1>3, <1>4, SubscriberSteps, Zenon

(* Where the last sequence number is after a possible reset.                *)
LastFor(m) == IF Restarted(sub.last, m.seq) THEN -1 ELSE sub.last

(* The last sequence number after a possible reset, and what a message      *)
(* without a gap is.                                                        *)
LEMMA LastIs ==
  ASSUME IngestInvariant, NEW m \in Messages
  PROVE  /\ LastFor(m) \in Int /\ LastFor(m) >= -1
         /\ ~(m.seq <= LastFor(m)) => m.seq > LastFor(m)
         /\ ~(m.seq <= LastFor(m)) /\ ~Gap(LastFor(m), m) => m.seq = LastFor(m) + 1 /\ m.fate # "undecodable"
<1>1. PICK l \in Int : l = sub.last /\ l >= -1
  BY StateIs, Zenon DEF Sub, Known
<1>2. PICK z \in Int : z = -1 /\ z >= -1
  OBVIOUS
<1>3. PICK k \in Int : k = LastFor(m) /\ k >= -1
  BY <1>1, <1>2, Zenon DEF LastFor
<1>4. PICK n \in Int : n = m.seq
  BY Zenon DEF Messages
<1>5. ~(n <= k) => n > k
  OBVIOUS
<1>6. ~(n <= k) /\ ~(n > k + 1) => n = k + 1
  OBVIOUS
<1>7. ~Gap(LastFor(m), m) => ~(n > k + 1) /\ m.fate # "undecodable"
  BY <1>3, <1>4, Zenon DEF Gap
<1> QED
  BY <1>3, <1>4, <1>5, <1>6, <1>7, Zenon

(* A fresh message and what the task makes of it.                           *)
Fresh(q, m) ==
  /\ Took(q, m) /\ q.last = LastFor(m) /\ m.seq > LastFor(m)
  /\ q.todo = TodoFor(m, Restarted(sub.last, m.seq), Gap(LastFor(m), m), sub.suspended)
  /\ q.suspended <=> sub.suspended \/ Restarted(sub.last, m.seq) \/ Gap(LastFor(m), m)
  /\ q.incarnation = IF Restarted(sub.last, m.seq) THEN sub.incarnation + 1 ELSE sub.incarnation

(* What is left to do for a fresh message is a program.                     *)
LEMMA TodoIsProgram ==
  ASSUME IngestInvariant, NEW m \in Messages, ~(m.seq <= LastFor(m))
  PROVE  TodoFor(m, Restarted(sub.last, m.seq), Gap(LastFor(m), m), sub.suspended) \in Seq(Ops)
<1>1. PICK t : t = TodoFor(m, Restarted(sub.last, m.seq), Gap(LastFor(m), m), sub.suspended)
  BY Zenon
<1>2. CASE ~Gap(LastFor(m), m)
  <2>1. m.fate # "undecodable"
    BY <1>2, LastIs, Zenon
  <2>2. CASE Restarted(sub.last, m.seq)
    <3>1. t = Clears(Again)
      BY <1>1, <1>2, <2>1, <2>2, StartedOver, Zenon
    <3> QED
      BY <1>1, <3>1, RestsAre, ClearsIs, Zenon
  <2>3. CASE ~Restarted(sub.last, m.seq)
    <3>1. t = Again \/ t = Push("apply", <<>>)
      BY <1>1, <1>2, <2>1, <2>3, InOrder, Zenon
    <3> QED
      BY <1>1, <3>1, EndsAre, Zenon
  <2> QED
    BY <2>2, <2>3, Zenon
<1>3. CASE Gap(LastFor(m), m) /\ setting.replay
  <2>1. t = Suspends(Fetch) \/ t = Clears(Suspends(Fetch))
    BY <1>1, <1>3, Refetched, Zenon
  <2>2. Suspends(Fetch) \in Seq(Ops) /\ Clears(Suspends(Fetch)) \in Seq(Ops)
    BY RestsAre, ClearsIs, Zenon
  <2> QED
    BY <1>1, <2>1, <2>2, Zenon
<1>4. CASE Gap(LastFor(m), m) /\ ~setting.replay
  <2>1. PICK s \in Seq(Ops) : Discard(m) = Clears(s)
    BY DiscardClears, RestsAre, Zenon
  <2>2. t \in Discarding(s)
    BY <1>1, <1>4, <2>1, GivenUp, Zenon
  <2> QED
    BY <1>1, <2>2, DiscardingWalk, Zenon
<1> QED
  BY <1>2, <1>3, <1>4, Zenon

(* A message that is no reset leaves the credit.                            *)
LEMMA SameCredit ==
  ASSUME IngestInvariant, NEW q, NEW m, Fresh(q, m), ~Restarted(sub.last, m.seq), sub.todo = <<>>
  PROVE  Credits(engine.logs, q, index)
<1>1. /\ sub.reply.epoch = 0 /\ Credits(engine.logs, sub, index)
  BY AtRest, Zenon DEF Resting
<1>2. /\ q.last = sub.last /\ q.incarnation = sub.incarnation /\ q.reply = sub.reply /\ q.epochs = sub.epochs
  BY Zenon DEF Fresh, Took, LastFor
<1>3. Reached(q) = Reached(sub)
  BY <1>1, <1>2, Zenon DEF Reached
<1> QED
  BY <1>1, <1>2, <1>3, Zenon DEF Credits

(* A fresh message begins one of the flows.                                 *)
LEMMA FreshFlow ==
  ASSUME IngestInvariant, NEW m \in Messages, NEW q, Fresh(q, m), sub.todo = <<>>, ~(m.seq <= LastFor(m))
  PROVE  Flow(engine.logs, q, index) /\ Head(q.todo) # "show"
<1>1. /\ q.msg = m /\ q.reply.epoch = 0 /\ q.epochs = sub.epochs /\ q.msg.seq > q.last
      /\ index.hidden = sub.suspended /\ (sub.suspended => sub.epochs = {})
  BY AtRest, Zenon DEF Resting, Fresh, Took
<1>6. PICK t : /\ t = TodoFor(m, Restarted(sub.last, m.seq), Gap(LastFor(m), m), sub.suspended)
               /\ q.todo = t
  BY Zenon DEF Fresh
<1>2. CASE ~Restarted(sub.last, m.seq) /\ ~Gap(LastFor(m), m)
  <2>1. m.seq = LastFor(m) + 1 /\ m.fate # "undecodable"
    BY <1>2, LastIs, Zenon
  <2>2. Credits(engine.logs, q, index)
    BY <1>2, SameCredit, Zenon
  <2>3. q.suspended <=> sub.suspended
    BY <1>2, Zenon DEF Fresh
  <2>4. /\ sub.suspended => q.todo = Again
        /\ ~sub.suspended => q.todo = Push("apply", <<>>)
    <3>1. /\ sub.suspended => t = Again
          /\ ~sub.suspended => t = Push("apply", <<>>)
      BY <1>2, <1>6, <2>1, InOrder, Zenon
    <3> QED
      BY <1>6, <3>1, Zenon
  <2>5. CASE sub.suspended
    <3>1. Reviving(engine.logs, q, index)
      BY <1>1, <2>2, <2>3, <2>4, <2>5, Zenon DEF Reviving
    <3>2. Head(q.todo) # "show"
      BY <2>4, <2>5, EndsAre, Zenon
    <3> QED
      BY <3>1, <3>2, Zenon DEF Flow
  <2>6. CASE ~sub.suspended
    <3>1. q.msg.seq = q.last + 1
      BY <1>1, <2>1, Zenon DEF Fresh
    <3>2. ~index.hidden
      BY <1>1, <2>6, Zenon
    <3>3. Applying(engine.logs, q, index)
      BY <1>1, <2>2, <2>3, <2>4, <2>6, <3>1, <3>2, Zenon DEF Applying
    <3>4. Head(q.todo) # "show"
      BY <2>4, <2>6, EndsAre, Zenon
    <3> QED
      BY <3>3, <3>4, Zenon DEF Flow
  <2> QED
    BY <2>5, <2>6, Zenon
<1>3. CASE Restarted(sub.last, m.seq) /\ ~Gap(LastFor(m), m)
  <2>1. m.fate # "undecodable"
    BY <1>3, LastIs, Zenon
  <2>2. q.todo \in Discarding(Again) /\ Head(q.todo) = "hide"
    <3>1. t = Clears(Again)
      BY <1>3, <1>6, <2>1, StartedOver, Zenon
    <3>2. Clears(Again) \in Discarding(Again) /\ Head(Clears(Again)) = "hide"
      BY <1>3, <2>1, StartedOver, Zenon
    <3> QED
      BY <1>6, <3>1, <3>2, Zenon
  <2>3. q.suspended
    BY <1>3, Zenon DEF Fresh
  <2>4. Purging(q, index)
    BY <1>1, <2>2, <2>3, Zenon DEF Purging
  <2> QED
    BY <2>2, <2>4, Zenon DEF Flow
<1>4. CASE Gap(LastFor(m), m) /\ setting.replay
  <2>1. /\ ~Restarted(sub.last, m.seq) => q.todo = Suspends(Fetch)
        /\ Restarted(sub.last, m.seq) => q.todo = Clears(Suspends(Fetch))
    <3>1. /\ ~Restarted(sub.last, m.seq) => t = Suspends(Fetch)
          /\ Restarted(sub.last, m.seq) => t = Clears(Suspends(Fetch))
      BY <1>4, <1>6, Refetched, Zenon
    <3> QED
      BY <1>6, <3>1, Zenon
  <2>2. q.suspended
    BY <1>4, Zenon DEF Fresh
  <2>3. Head(Suspends(Fetch)) = "hide" /\ Head(Clears(Suspends(Fetch))) = "hide"
    BY EndsAre, RestsAre, ClearsIs, Zenon
  <2>4. CASE ~Restarted(sub.last, m.seq)
    <3>1. q.todo = Suspends(Fetch) /\ Head(q.todo) = "hide"
      BY <2>1, <2>3, <2>4, Zenon
    <3>2. q.todo \in Suspending(Fetch)
      BY <3>1, Zenon DEF Suspending
    <3>3. Credits(engine.logs, q, index)
      BY <2>4, SameCredit, Zenon
    <3>4. Fetching(engine.logs, q, index)
      BY <1>1, <2>2, <3>1, <3>2, <3>3, Zenon DEF Fetching
    <3> QED
      BY <3>1, <3>4, Zenon DEF Flow
  <2>5. CASE Restarted(sub.last, m.seq)
    <3>1. q.todo = Clears(Suspends(Fetch)) /\ Head(q.todo) = "hide"
      BY <2>1, <2>3, <2>5, Zenon
    <3>2. q.todo \in Clearing(Suspends(Fetch))
      BY <3>1, Zenon DEF Clearing
    <3>3. Purging(q, index)
      BY <1>1, <2>2, <3>1, <3>2, Zenon DEF Purging
    <3> QED
      BY <3>1, <3>3, Zenon DEF Flow
  <2> QED
    BY <2>4, <2>5, Zenon
<1>5. CASE Gap(LastFor(m), m) /\ ~setting.replay
  <2>1. q.suspended
    BY <1>5, Zenon DEF Fresh
  <2>2. CASE m.fate = "undecodable"
    <3>1. Discard(m) = Clears(<<>>)
      BY <2>2, DiscardClears, Zenon
    <3>2. q.todo \in Discarding(<<>>) /\ Head(q.todo) = "hide"
      <4>1. t \in Discarding(<<>>) /\ Head(t) = "hide"
        BY <1>5, <1>6, <3>1, RestsAre, GivenUp, Zenon
      <4> QED
        BY <1>6, <4>1, Zenon
    <3>3. q.msg.fate # "ok"
      BY <1>1, <2>2, Zenon
    <3>4. Purging(q, index)
      BY <1>1, <2>1, <3>2, <3>3, Zenon DEF Purging
    <3> QED
      BY <3>2, <3>4, Zenon DEF Flow
  <2>3. CASE m.fate # "undecodable"
    <3>1. Discard(m) = Clears(Again)
      BY <2>3, DiscardClears, Zenon
    <3>2. q.todo \in Discarding(Again) /\ Head(q.todo) = "hide"
      <4>1. t \in Discarding(Again) /\ Head(t) = "hide"
        BY <1>5, <1>6, <3>1, RestsAre, GivenUp, Zenon
      <4> QED
        BY <1>6, <4>1, Zenon
    <3>4. Purging(q, index)
      BY <1>1, <2>1, <3>2, Zenon DEF Purging
    <3> QED
      BY <3>2, <3>4, Zenon DEF Flow
  <2> QED
    BY <2>2, <2>3, Zenon
<1> QED
  BY <1>2, <1>3, <1>4, <1>5, Zenon

(* Receive.                                                                 *)
LEMMA StepReceive ==
  ASSUME IngestInvariant, Receive
  PROVE  IngestInvariant'
<1>1. /\ sub.todo = <<>> /\ wire # <<>> /\ wire' = Tail(wire) /\ UNCHANGED <<engine, index, request>>
  BY Zenon DEF Receive, AtLoop
<1>2. PICK m \in Messages : m = Head(wire)
  BY <1>1, StateIs, WireIs, Zenon
<1>3. PICK L \in Int : L = LastFor(m) /\ L >= -1
  BY LastIs, Zenon
<1>4. CASE m.fate = "malformed"
  BY <1>2, <1>4, ReceiveMalformed, Zenon
<1>5. CASE m.fate # "malformed" /\ m.seq <= L
  <2>1. sub' = sub
    BY <1>2, <1>3, <1>5, Zenon DEF Receive, LastFor
  <2> QED
    BY <2>1, ReceiveOld, Zenon
<1>6. CASE m.fate # "malformed" /\ ~(m.seq <= L)
  <2>1. sub \in Sub /\ sub.incarnation \in Nat /\ sub.suspended \in BOOLEAN /\ sub.reply.epoch = 0
    BY <1>1, StateIs, AtRest, Zenon DEF Resting, Sub
  <2>2. PICK n \in Nat : n = sub.incarnation + 1
    <3>1. PICK i \in Nat : i = sub.incarnation
      BY <2>1, Zenon
    <3>2. i + 1 \in Nat
      OBVIOUS
    <3> QED
      BY <3>1, <3>2, Zenon
  <2>3. PICK I \in Nat : I = IF Restarted(sub.last, m.seq) THEN sub.incarnation + 1 ELSE sub.incarnation
    BY <2>1, <2>2, Zenon
  <2>4. PICK S \in BOOLEAN : /\ S = (sub.suspended \/ Restarted(sub.last, m.seq) \/ Gap(LastFor(m), m))
                             /\ S <=> sub.suspended \/ Restarted(sub.last, m.seq) \/ Gap(LastFor(m), m)
    BY Zenon
  <2>5. PICK t : t = TodoFor(m, Restarted(sub.last, m.seq), Gap(LastFor(m), m), sub.suspended)
    BY Zenon
  <2>6. t \in Seq(Ops)
    BY <1>6, <1>3, <2>5, TodoIsProgram, Zenon
  <2>7. PICK q : q = [sub EXCEPT !.msg = m, !.last = L, !.incarnation = I, !.suspended = S, !.todo = t]
    BY Zenon
  <2>8. q \in Sub
    BY <2>1, <2>6, <2>7, Zenon DEF Sub
  <2>9. /\ q.msg = m /\ q.last = L /\ q.incarnation = I /\ q.suspended = S /\ q.todo = t
        /\ q.reply = sub.reply /\ q.epochs = sub.epochs /\ q.vouch = sub.vouch
    BY <2>1, <2>7, Zenon DEF Sub
  <2>10. sub' = q
    <3>1. sub' = [sub EXCEPT
                    !.msg = m, !.last = LastFor(m),
                    !.incarnation = IF Restarted(sub.last, m.seq) THEN sub.incarnation + 1 ELSE sub.incarnation,
                    !.suspended = sub.suspended \/ Restarted(sub.last, m.seq) \/ Gap(LastFor(m), m),
                    !.todo = TodoFor(m, Restarted(sub.last, m.seq), Gap(LastFor(m), m), sub.suspended)]
      BY <1>2, <1>3, <1>6, Zenon DEF Receive, LastFor, TodoFor
    <3> QED
      BY <1>3, <2>3, <2>4, <2>5, <2>7, <3>1, Zenon
  <2>11. m.seq > LastFor(m)
    BY <1>3, <1>6, LastIs, Zenon
  <2>12. Fresh(q, m)
    BY <1>3, <2>3, <2>4, <2>5, <2>8, <2>9, <2>11, Zenon DEF Fresh, Took
  <2>13. Flow(engine.logs, q, index) /\ Head(q.todo) # "show"
    BY <1>1, <1>3, <1>6, <2>12, FreshFlow, Zenon
  <2>14. Took(q, Head(wire))
    BY <1>2, <2>12, Zenon DEF Fresh
  <2> QED
    BY <1>1, <2>1, <2>10, <2>13, <2>14, Taken, Zenon
<1> QED
  BY <1>4, <1>5, <1>6, Zenon

-----------------------------------------------------------------------------
(* The invariant holds initially.                                           *)
LEMMA IngestStarts ==
  ASSUME IngestInit
  PROVE  IngestInvariant
<1>1. /\ sub = IdleSub /\ request = IdleRequest /\ wire = <<>> /\ index = [held |-> {}, hidden |-> FALSE]
      /\ engine = [logs |-> <<<<>>>>, faults |-> 0]
  BY Zenon DEF IngestInit
<1>2. /\ IdleSub.last = -1 /\ IdleSub.incarnation = 0 /\ IdleSub.suspended = FALSE /\ IdleSub.todo = <<>>
      /\ IdleSub.reply.epoch = 0 /\ IdleSub.vouch.epoch = 1 /\ IdleSub.vouch.n = 0 /\ IdleSub.epochs = {}
  BY DEF IdleSub
<1>3. IdleSub \in Sub
  <2>1. <<>> \in Seq(Ops) /\ -1 \in Int /\ 0 \in Nat /\ 1 \in Nat /\ {} \in SUBSET Nat
    OBVIOUS
  <2>2. [epoch |-> 0, seq |-> -1, fate |-> "ok"] \in Messages
    BY DEF Messages, Fates
  <2>3. [epoch |-> 0, upto |-> -1] \in [epoch : Nat, upto : Int] /\ [epoch |-> 1, n |-> 0] \in [epoch : Nat, n : Nat]
    OBVIOUS
  <2> QED
    BY <2>1, <2>2, <2>3, Zenon DEF IdleSub, Sub
<1>4. index \in Index /\ index.held = {} /\ index.hidden = FALSE
  BY <1>1 DEF Index
<1>5. PICK logs : logs = engine.logs
  BY Zenon
<1>6. logs = <<<<>>>> /\ logs \in Seq(Seq(Events)) /\ Len(logs) = 1 /\ Len(logs[1]) = 0
  BY <1>1, <1>5
<1>7. engine \in Engine
  BY <1>1, <1>5, <1>6 DEF Engine
<1>8. wire \in Seq(Messages) /\ Queued(logs, wire)
  BY <1>1 DEF Queued
<1>9. IngestTypes
  BY <1>1, <1>3, <1>4, <1>7, <1>8, IdleIs, Zenon DEF IngestTypes
<1>10. Known(logs, sub)
  <2>1. /\ sub.vouch.epoch \in 1 .. Len(logs) /\ sub.vouch.n <= Len(logs[sub.vouch.epoch]) /\ sub.last >= -1
    BY <1>1, <1>2, <1>6
  <2> QED
    BY <1>1, <1>2, <2>1, FS_EmptySet, Zenon DEF Known
<1>11. Credits(logs, sub, index)
  <2>1. Reached(sub) = sub.last + 1
    BY <1>1, <1>2, Zenon DEF Reached
  <2>2. sub.last + 1 \in Nat
    BY <1>1, <1>2
  <2> QED
    BY <1>1, <1>2, <1>4, <2>1, <2>2, Zenon DEF Credits, Holds, Owned
<1>12. Resting(logs, sub, index)
  BY <1>1, <1>2, <1>4, <1>11, Zenon DEF Resting
<1>13. Sound(logs, sub, index)
  BY <1>4, Zenon DEF Sound, BlocksOf
<1>14. Asked(request, sub, index)
  <2>1. request.pc = "idle"
    BY <1>1 DEF IdleRequest
  <2> QED
    BY <2>1, Zenon DEF Asked
<1> QED
  BY <1>5, <1>8, <1>9, <1>10, <1>12, <1>13, <1>14, Zenon DEF IngestInvariant, Flow

(* Every step keeps it.                                                     *)
LEMMA IngestGoes ==
  ASSUME IngestInvariant, [IngestNext]_ingestVars
  PROVE  IngestInvariant'
<1>1. CASE UNCHANGED ingestVars
  <2>1. SubSteps(sub, index, request) /\ wire' = wire
    BY <1>1, StateIs, Zenon DEF ingestVars, SubSteps
  <2>2. Keeps(sub, index, request)
    BY StateIs, Zenon DEF Keeps
  <2> QED
    BY <2>1, <2>2, QuietSteps, Zenon
<1>2. CASE IngestNext
  <2>1. SubscriberStep => IngestInvariant'
    BY StepReceive, StepHide, StepBump, StepClear, StepShow, StepApply, StepReplayAsk, StepReplayFrame,
       StepReplayFail, StepShutdown, Zenon DEF SubscriberStep
  <2> QED
    BY <1>2, <2>1, StepPublish, StepEngineRestart, StepRemoveWorker, StepQueries, Zenon DEF IngestNext
<1> QED
  BY <1>1, <1>2, Zenon

(* It implies the property.                                                 *)
LEMMA IngestSuffices ==
  ASSUME IngestInvariant
  PROVE  IngestIsCurrent
<1>1. VisibleCreditIsCurrent
  BY StateIs, SoundIsNow, Zenon DEF VisibleCreditIsCurrent
<1>2. AnswersAreCurrent
  BY StateIs, Zenon DEF AnswersAreCurrent, Asked
<1>3. SuspendedOnlyByDamage
  BY AtRest, Zenon DEF SuspendedOnlyByDamage, Resting
<1> QED
  BY <1>1, <1>2, <1>3, Zenon DEF IngestIsCurrent

(* Whatever the engine publishes and however often it restarts, whatever    *)
(* live messages are lost, damaged or repeated, however far each replay     *)
(* gets, and wherever a query or the removal of the worker interleaves:     *)
(* find_matches answers and an exposed source credits only blocks the       *)
(* engine still held, and only damage leaves a source suspended.            *)
THEOREM IngestStaysCurrent == IngestSpec => []IngestIsCurrent
<1>1. IngestInit => IngestInvariant
  BY IngestStarts, Zenon
<1>2. IngestInvariant /\ [IngestNext]_ingestVars => IngestInvariant'
  BY IngestGoes, Zenon
<1>3. IngestInvariant => IngestIsCurrent
  BY IngestSuffices, Zenon
<1> QED
  BY <1>1, <1>2, <1>3, PTL DEF IngestSpec

=============================================================================
