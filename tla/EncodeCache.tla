---------------------------- MODULE EncodeCache -----------------------------
(***************************************************************************)
(* A chat frontend's tokenizers (TokenizerCache of backend/preprocess.rs)  *)
(* and the cache of prompt encodings its models share (EncodeCache of      *)
(* tokenizer/cache.rs, PromptEncoder of backend/encode_cache.rs).          *)
(*                                                                         *)
(* A call resolves its model, loading it under the single-flight lock when *)
(* nobody has, then looks its text up, encodes it outside the cache's lock *)
(* and stores the result.  Each block under a lock is one step.            *)
(*                                                                         *)
(* The encoding of a text by a model is the pair of the two; a text counts *)
(* TextBytes[text] bytes against the budgets.  add_special_tokens and the  *)
(* cache salt are further parts of the text.                               *)
(***************************************************************************)
EXTENDS Naturals, Sequences, FiniteSets, FiniteSetsExt, Functions

CONSTANTS
  Fronts,          \* the frontends of the process, each with its own cache
  Encoders,        \* the concurrent calls
  FrontOf,         \* the frontend a call goes through
  EncModels,       \* models
  TextBytes,       \* the estimated size of a prompt text
  MaxCached,       \* max_entries
  MaxCachedBytes,  \* max_bytes
  MaxEntryBytes,   \* max_entry_bytes
  EncPlans         \* bound: the <<model, text>> calls of every caller

ASSUME EncodeAssumption ==
  /\ IsFiniteSet(Fronts) /\ IsFiniteSet(Encoders) /\ IsFiniteSet(EncModels)
  /\ FrontOf \in [Encoders -> Fronts]
  /\ TextBytes \in [DOMAIN TextBytes -> Nat]
  /\ MaxCached \in Nat \ {0} /\ MaxCachedBytes \in Nat /\ MaxEntryBytes \in Nat
  /\ MaxEntryBytes <= MaxCachedBytes
  /\ \A plan \in EncPlans : plan \in [Encoders -> Seq(EncModels \X DOMAIN TextBytes)]

VARIABLES
  front,      \* per frontend: byModel, loadLock, lru (latest first), bytes, live, counters
  occupancy,  \* OCCUPANCY: entries and bytes of the process
  enc,        \* per caller: its call
  made,       \* NEXT_INSTANCE: the tokenizer instances made
  ended       \* ghost, per frontend: misses that left no entry, entries replaced or cleared

encVars == <<front, occupancy, enc, made, ended>>

NotLoaded == [instance |-> 0, cached |-> FALSE]

EmptyFront ==
  [byModel |-> [m \in EncModels |-> NotLoaded], loadLock |-> {}, lru |-> <<>>, bytes |-> 0,
   live |-> TRUE, hits |-> 0, misses |-> 0, evictions |-> 0, oversized |-> 0]

EncInit ==
  /\ front = [f \in Fronts |-> EmptyFront]
  /\ occupancy = [entries |-> 0, bytes |-> 0]
  /\ \E plan \in EncPlans :
       enc = [p \in Encoders |-> [pc |-> "idle", model |-> "", text |-> "", evicted |-> 0,
                                  answer |-> <<>>, todo |-> plan[p]]]
  /\ made = 0
  /\ ended = [f \in Fronts |-> 0]

EncAt(p, pc) == enc[p].pc = pc

EncGo(p, pc) == enc' = [enc EXCEPT ![p].pc = pc]

Of(p) == front[FrontOf[p]]

LoadedFor(p) == Of(p).byModel[enc[p].model]

-----------------------------------------------------------------------------
(* resolve: the model's frontend if it is loaded, else its turn to load it. *)
ResolveModel(p) ==
  /\ EncAt(p, "idle") /\ enc[p].todo # <<>> /\ Of(p).live
  /\ LET next == Head(enc[p].todo)
     IN enc' = [enc EXCEPT ![p] =
                  [pc |-> IF Of(p).byModel[next[1]] # NotLoaded THEN "ready" ELSE "wait",
                   model |-> next[1], text |-> next[2], evicted |-> 0, answer |-> <<>>,
                   todo |-> Tail(@.todo)]]
  /\ UNCHANGED <<front, occupancy, made, ended>>

(* The second look at by_model, under the load lock.                        *)
MustLoad(p) == LoadedFor(p) = NotLoaded

LockForLoad(p) ==
  /\ EncAt(p, "wait") /\ Of(p).loadLock = {}
  /\ IF MustLoad(p)
     THEN front' = [front EXCEPT ![FrontOf[p]].loadLock = {p}] /\ EncGo(p, "load")
     ELSE UNCHANGED front /\ EncGo(p, "ready")
  /\ UNCHANGED <<occupancy, made, ended>>

(* VllmFrontend::load: the encodings are cached only when the tokenizer is  *)
(* known to be deterministic.  A failed load drops the guard and is tried   *)
(* again by the next call.                                                  *)
LoadModel(p) ==
  /\ EncAt(p, "load")
  /\ \/ /\ \E c \in BOOLEAN :
             front' = [front EXCEPT ![FrontOf[p]].byModel[enc[p].model] = [instance |-> made + 1, cached |-> c],
                                    ![FrontOf[p]].loadLock = {}]
        /\ made' = made + 1 /\ EncGo(p, "ready")
     \/ front' = [front EXCEPT ![FrontOf[p]].loadLock = {}] /\ UNCHANGED made /\ EncGo(p, "idle")
  /\ UNCHANGED <<occupancy, ended>>

-----------------------------------------------------------------------------

(* EncodingKey                                                              *)
KeyOf(p) == <<LoadedFor(p).instance, enc[p].text>>

Encoding(p) == <<enc[p].model, enc[p].text>>

HasKey(lru, k) == \E i \in 1 .. Len(lru) : lru[i].key = k

KeyPosition(lru, k) == CHOOSE i \in 1 .. Len(lru) : lru[i].key = k

EntryOf(lru, k) == lru[KeyPosition(lru, k)]

RemovedAt(lru, i) == SubSeq(lru, 1, i - 1) \o SubSeq(lru, i + 1, Len(lru))

WithoutKey(lru, k) == RemovedAt(lru, KeyPosition(lru, k))

EncDone(p, answer) == enc' = [enc EXCEPT ![p].pc = "idle", ![p].answer = answer]

(* lookup: a hit becomes the most recent entry and is the answer.           *)
LookUp(p) ==
  LET f == FrontOf[p]  lru == front[f].lru  k == KeyOf(p)
  IN /\ EncAt(p, "ready")
     /\ \/ /\ ~LoadedFor(p).cached
           /\ EncDone(p, Encoding(p)) /\ UNCHANGED front
        \/ /\ LoadedFor(p).cached /\ HasKey(lru, k)
           /\ front' = [front EXCEPT ![f].lru = <<EntryOf(lru, k)>> \o WithoutKey(lru, k), ![f].hits = @ + 1]
           /\ EncDone(p, EntryOf(lru, k).value)
        \/ /\ LoadedFor(p).cached /\ ~HasKey(lru, k)
           /\ front' = [front EXCEPT ![f].misses = @ + 1]
           /\ EncGo(p, "encode")
     /\ UNCHANGED <<occupancy, made, ended>>

(* get_or_encode after a miss: an error ends the call, an encoding over     *)
(* max_entry_bytes is returned and not stored.                              *)
Encode(p) ==
  LET f == FrontOf[p]
  IN /\ EncAt(p, "encode")
     /\ \/ /\ EncDone(p, <<>>) /\ ended' = [ended EXCEPT ![f] = @ + 1]
           /\ UNCHANGED front
        \/ /\ TextBytes[enc[p].text] > MaxEntryBytes
           /\ front' = [front EXCEPT ![f].oversized = @ + 1]
           /\ EncDone(p, Encoding(p)) /\ UNCHANGED ended
        \/ /\ TextBytes[enc[p].text] <= MaxEntryBytes
           /\ EncGo(p, "insert") /\ UNCHANGED <<front, ended>>
     /\ UNCHANGED <<occupancy, made>>

-----------------------------------------------------------------------------
SumBytes(lru) ==
  LET sum[n \in 0 .. Len(lru)] == IF n = 0 THEN 0 ELSE sum[n - 1] + lru[n].bytes
  IN sum[Len(lru)]

LeavingBytes(old) == SumBytes(old)

(* LruCache::push of a new most recent entry, and the byte count: an older  *)
(* entry of the key leaves, or else the last entry of a full cache.         *)
Push(c, e) ==
  LET old == IF HasKey(c.lru, e.key) THEN <<EntryOf(c.lru, e.key)>>
             ELSE IF Len(c.lru) = MaxCached THEN <<c.lru[Len(c.lru)]>> ELSE <<>>
      same == HasKey(c.lru, e.key)
  IN [lru |-> <<e>> \o (IF same THEN WithoutKey(c.lru, e.key)
                        ELSE SubSeq(c.lru, 1, Len(c.lru) - Len(old))),
      bytes |-> c.bytes - LeavingBytes(old) + e.bytes,
      evicted |-> IF same THEN 0 ELSE Len(old), replaced |-> IF same THEN 1 ELSE 0]

CountsReplaced(pushed) == pushed.evicted + pushed.replaced   \* mutant: a replacement is an eviction

EvictedBy(pushed) == pushed.evicted

(* The while loop: pop_lru until the bytes fit.                             *)
Fits(lru) == Max({n \in 0 .. Len(lru) : SumBytes(SubSeq(lru, 1, n)) <= MaxCachedBytes})

Trim(c) ==
  LET n == IF c.bytes <= MaxCachedBytes THEN Len(c.lru) ELSE Fits(c.lru)
  IN [lru |-> SubSeq(c.lru, 1, n), bytes |-> c.bytes - SumBytes(SubSeq(c.lru, n + 1, Len(c.lru))),
      evicted |-> EvictedBy(c) + (Len(c.lru) - n)]

Deltas(total, before, after) == total + after - before

(* publish_occupancy_delta: saturating, so a total never wraps.             *)
Published(total, before, after) ==
  IF total + after < before THEN 0 ELSE Deltas(total, before, after)

PublishDelta(f) ==
  occupancy' = [entries |-> Published(occupancy.entries, Len(front[f].lru), Len(front'[f].lru)),
                bytes |-> Published(occupancy.bytes, front[f].bytes, front'[f].bytes)]

Insert(p) ==
  LET f == FrontOf[p]
      e == [key |-> KeyOf(p), value |-> Encoding(p), bytes |-> TextBytes[enc[p].text]]
      pushed == Push(front[f], e)
      after == Trim(pushed)
  IN /\ EncAt(p, "insert")
     /\ front' = [front EXCEPT ![f].lru = after.lru, ![f].bytes = after.bytes]
     /\ PublishDelta(f)
     /\ ended' = [ended EXCEPT ![f] = @ + pushed.replaced]
     /\ enc' = [enc EXCEPT ![p].pc = "count", ![p].evicted = after.evicted]
     /\ UNCHANGED made

(* The evictions are counted after the lock is released.                    *)
CountEvictions(p) ==
  /\ EncAt(p, "count")
  /\ front' = [front EXCEPT ![FrontOf[p]].evictions = @ + enc[p].evicted]
  /\ enc' = [enc EXCEPT ![p].pc = "idle", ![p].answer = Encoding(p), ![p].evicted = 0]
  /\ UNCHANGED <<occupancy, made, ended>>

ClearCache(f) ==
  /\ front[f].live /\ front[f].lru # <<>>
  /\ front' = [front EXCEPT ![f].lru = <<>>, ![f].bytes = 0]
  /\ PublishDelta(f)
  /\ ended' = [ended EXCEPT ![f] = @ + Len(front[f].lru)]
  /\ UNCHANGED <<enc, made>>

(* Drop: nobody holds the frontend any more.                                *)
DropCache(f) ==
  /\ front[f].live /\ \A p \in Encoders : FrontOf[p] = f => EncAt(p, "idle")
  /\ front' = [front EXCEPT ![f].lru = <<>>, ![f].bytes = 0, ![f].live = FALSE]
  /\ PublishDelta(f)
  /\ ended' = [ended EXCEPT ![f] = @ + Len(front[f].lru)]
  /\ UNCHANGED <<enc, made>>

EncNext ==
  \/ \E p \in Encoders :
       ResolveModel(p) \/ LockForLoad(p) \/ LoadModel(p) \/ LookUp(p) \/ Encode(p) \/ Insert(p) \/ CountEvictions(p)
  \/ \E f \in Fronts : ClearCache(f) \/ DropCache(f)

EncSpec == EncInit /\ [][EncNext]_encVars

-----------------------------------------------------------------------------
(* encode: whatever other calls cached, evicted or replaced meanwhile, a    *)
(* call that succeeds returns its own model's encoding of its own text.     *)
EncodingsAreExact ==
  \A p \in Encoders : EncAt(p, "idle") /\ enc[p].answer # <<>> => enc[p].answer = Encoding(p)

(* insert: at every step a cache holds at most max_entries entries, each    *)
(* key once, their sizes add up to its byte count, and that is at most      *)
(* max_bytes, also when two calls missed the same key and both store it.    *)
CacheWithinBudget ==
  \A f \in Fronts :
    LET lru == front[f].lru
    IN /\ Len(lru) <= MaxCached
       /\ \A i, j \in 1 .. Len(lru) : lru[i].key = lru[j].key => i = j
       /\ front[f].bytes = SumBytes(lru) /\ front[f].bytes <= MaxCachedBytes

(* publish_occupancy_delta: the process-wide gauges are the sum over the    *)
(* live caches, through evictions, replacements, clears and drops.          *)
OccupancyIsExact ==
  /\ occupancy.entries = SumFunctionOnSet([f \in Fronts |-> Len(front[f].lru)], Fronts)
  /\ occupancy.bytes = SumFunctionOnSet([f \in Fronts |-> front[f].bytes], Fronts)

(* TokenizerCacheStats: every miss is accounted for: its call is under way, *)
(* its encoding failed, was oversized, is cached, or was replaced, cleared  *)
(* or evicted; an eviction is counted once, by the call that caused it.     *)
MissesAreAccountedFor ==
  \A f \in Fronts :
    LET here == {p \in Encoders : FrontOf[p] = f}
        busy == {p \in here : enc[p].pc \in {"encode", "insert"}}
    IN front[f].misses = Cardinality(busy) + ended[f] + front[f].oversized + Len(front[f].lru)
                           + front[f].evictions + SumFunctionOnSet([p \in here |-> enc[p].evicted], here)

(* resolve: a cold burst loads a model once.  Two instances of one model in *)
(* one frontend never exist, so the number of instances made is the number  *)
(* of loaded models, and only a loading call holds the lock.                *)
ModelsLoadOnce ==
  /\ made = Cardinality({x \in Fronts \X EncModels : front[x[1]].byModel[x[2]] # NotLoaded})
  /\ \A p \in Encoders : EncAt(p, "load") <=> p \in Of(p).loadLock

(* insert: an entry fits max_bytes by itself, so the loop that evicts to    *)
(* the budget stops before the entry just stored.                           *)
NewestSurvives ==
  \A p \in Encoders : Insert(p) => HasKey(front'[FrontOf[p]].lru, KeyOf(p))

(* The encoding cache answers exactly, stays within its budget and        *)
(* accounts for every entry, miss and load under concurrent calls.        *)
EncodeCacheIsExact ==
  /\ EncodingsAreExact
  /\ CacheWithinBudget
  /\ OccupancyIsExact
  /\ MissesAreAccountedFor
  /\ ModelsLoadOnce
=============================================================================
