-------------------------- MODULE RequestLimiter ----------------------------
(* The concurrency limit: the token bucket first, then the middleware that *)
(* makes requests wait for its tokens.                                     *)
(*                                                                         *)
(* The token bucket behind the concurrency limit (core/token_bucket.rs).   *)
(* Every method locks the bucket once, so each is an operator from buckets *)
(* to buckets.  Amounts are integers: One units make a token, and a tick   *)
(* of the clock refills Rate units.  last_refill is kept as the number of  *)
(* ticks since it.                                                         *)
EXTENDS Integers, FiniteSets, Sequences

CONSTANTS
  Capacity,   \* units the bucket holds when it is full
  One,        \* units of one token
  Rate,       \* units refilled in one tick
  FillTime    \* bound: ticks after which even an empty bucket is full

(* TokenBucket::new replaces a zero refill rate by one token per second.   *)
ASSUME BucketAssumption ==
  /\ Capacity \in Nat \ {0}
  /\ One \in Nat \ {0}
  /\ Rate \in Nat \ {0}
  /\ FillTime \in Nat /\ Rate * FillTime >= Capacity

(* f64::min of an amount and the capacity.                                 *)
Capped(x) == IF x > Capacity THEN Capacity ELSE x

(* A bucket starts full.                                                   *)
New == [tokens |-> Capacity, since |-> 0]

(* The refill at the head of try_acquire and of available_tokens.          *)
Refill(b) == [tokens |-> Capped(b.tokens + Rate * b.since), since |-> 0]

TryAcquireOk(b) == Refill(b).tokens >= One

TryAcquire(b) ==
  IF TryAcquireOk(b)
  THEN [Refill(b) EXCEPT !.tokens = @ - One]
  ELSE Refill(b)

(* return_tokens does not refill first; notify_waiters only makes the      *)
(* waiters poll earlier than their 10 ms sleep would.                      *)
ReturnTokens(b) == [b EXCEPT !.tokens = Capped(@ + One)]

(* The wait of acquire: the time in which the refill alone makes up for    *)
(* what is missing now, read without a refill.                             *)
WaitTime(b) ==
  LET missing == IF One > b.tokens THEN One - b.tokens ELSE 0
  IN  (missing + Rate - 1) \div Rate

(* A tick of the clock; elapsed time past FillTime makes no difference.    *)
Elapse(b) == [b EXCEPT !.since = IF @ < FillTime THEN @ + 1 ELSE @]

(* What the bucket would hold after a refill.                              *)
Level(b) == Capped(b.tokens + Rate * b.since)

-----------------------------------------------------------------------------
(* The concurrency limit of the server (middleware.rs): requests that find *)
(* no token wait in a bounded channel, a processor hands them tokens, and  *)
(* tasks it spawns wait for tokens on their behalf.  Clients may go away   *)
(* at any await.                                                           *)

CONSTANTS
  Requests,      \* client connections, each with one request at a time
  Embeddings,    \* those that call /v1/embeddings
  QueueSize,     \* queue_size: 0 disables the queue
  QueueTimeout,  \* queue_timeout in ticks
  MaxCancels     \* bound: how often a client goes away

ASSUME LimiterAssumption ==
  /\ Embeddings \subseteq Requests
  /\ QueueSize \in Nat
  /\ QueueTimeout \in Nat \ {0}
  /\ MaxCancels \in Nat

VARIABLES
  bucket,      \* context.rate_limiter
  handler,     \* where the middleware is for each connection
  queue,       \* the mpsc channel to the processor
  entry,       \* how far the QueuedRequest of a connection has come
  age,         \* ticks since queued_at
  left,        \* ticks until the timeout inside acquire fires
  permit,      \* what the oneshot channel holds
  waiting,     \* num_requests_waiting
  embeddings,  \* EMBEDDINGS_QUEUE_SIZE
  cancels      \* clients that went away so far

limiterVars == <<bucket, handler, queue, entry, age, left, permit, waiting, embeddings, cancels>>

Handlers == {"idle", "refused", "awaiting", "running"}
Entries == {"none", "queued", "spawned", "short", "polling"}
Permits == {"none", "granted", "timeout"}

AtMost(x, bound) == IF x > bound THEN bound ELSE x

LimiterInit ==
  /\ bucket = New
  /\ handler = [r \in Requests |-> "idle"]
  /\ queue = <<>>
  /\ entry = [r \in Requests |-> "none"]
  /\ age = [r \in Requests |-> 0]
  /\ left = [r \in Requests |-> 0]
  /\ permit = [r \in Requests |-> "none"]
  /\ waiting = 0
  /\ embeddings = 0
  /\ cancels = 0

(* Leaving the queue, by whatever answer: the guard of num_requests_waiting *)
(* is dropped and EMBEDDINGS_QUEUE_SIZE goes down by one.                  *)
Dequeue(r) ==
  /\ waiting' = waiting - 1
  /\ embeddings' = IF r \in Embeddings THEN embeddings - 1 ELSE embeddings

(* The middleware is entered: a token is there, or the request is refused  *)
(* one and goes on to the queue, when there is one.                        *)
Arrive(r) ==
  /\ handler[r] = "idle" /\ entry[r] = "none"
  /\ bucket' = TryAcquire(bucket)
  /\ handler' = [handler EXCEPT ![r] =
       IF TryAcquireOk(bucket) THEN "running"
       ELSE IF QueueSize > 0 THEN "refused" ELSE "idle"]
  /\ UNCHANGED <<queue, entry, age, left, permit, waiting, embeddings, cancels>>

(* try_send found room in the channel.                                     *)
Enqueue(r) ==
  /\ handler[r] = "refused"
  /\ Len(queue) < QueueSize
  /\ handler' = [handler EXCEPT ![r] = "awaiting"]
  /\ queue' = Append(queue, r)
  /\ entry' = [entry EXCEPT ![r] = "queued"]
  /\ age' = [age EXCEPT ![r] = 0]
  /\ waiting' = waiting + 1
  /\ embeddings' = IF r \in Embeddings THEN embeddings + 1 ELSE embeddings
  /\ UNCHANGED <<bucket, left, permit, cancels>>

(* The channel is full: 429, with a Retry-After that refills the bucket.   *)
TooManyRequests(r) ==
  /\ handler[r] = "refused"
  /\ Len(queue) = QueueSize
  /\ handler' = [handler EXCEPT ![r] = "idle"]
  /\ bucket' = Refill(bucket)
  /\ UNCHANGED <<queue, entry, age, left, permit, waiting, embeddings, cancels>>

(* The oneshot sender of a request: an answer to a handler that is gone is *)
(* dropped, token and all.  Its timers are gone with it.                   *)
Answer(r, result) ==
  /\ entry' = [entry EXCEPT ![r] = "none"]
  /\ permit' = IF handler[r] = "awaiting" THEN [permit EXCEPT ![r] = result] ELSE permit
  /\ age' = [age EXCEPT ![r] = 0]
  /\ left' = [left EXCEPT ![r] = 0]

(* QueueProcessor::run takes the next entry: too old, served at once, or   *)
(* handed to a task of its own.                                            *)
Receive ==
  /\ queue # <<>>
  /\ LET r == Head(queue) IN
       /\ queue' = Tail(queue)
       /\ \/ /\ age[r] >= QueueTimeout
             /\ Answer(r, "timeout")
             /\ UNCHANGED bucket
          \/ /\ age[r] < QueueTimeout
             /\ bucket' = TryAcquire(bucket)
             /\ IF TryAcquireOk(bucket)
                THEN Answer(r, "granted")
                ELSE /\ entry' = [entry EXCEPT ![r] = "spawned"]
                     /\ UNCHANGED <<permit, age, left>>
  /\ UNCHANGED <<handler, waiting, embeddings, cancels>>

(* acquire's first attempt.                                                *)
FirstTry(r) ==
  /\ entry[r] = "spawned"
  /\ bucket' = TryAcquire(bucket)
  /\ IF TryAcquireOk(bucket)
     THEN Answer(r, "granted")
     ELSE entry' = [entry EXCEPT ![r] = "short"] /\ UNCHANGED <<permit, age, left>>
  /\ UNCHANGED <<handler, queue, waiting, embeddings, cancels>>

(* acquire bounds its wait by the deficit it reads in a second critical    *)
(* section; it is not computed again when others take what the refill      *)
(* brings.                                                                 *)
ComputeWait(r) ==
  /\ entry[r] = "short"
  /\ entry' = [entry EXCEPT ![r] = "polling"]
  /\ left' = [left EXCEPT ![r] = WaitTime(bucket)]
  /\ UNCHANGED <<bucket, handler, queue, age, permit, waiting, embeddings, cancels>>

(* One turn of acquire's loop, after a notification or 10 ms.              *)
Poll(r) ==
  /\ entry[r] = "polling"
  /\ bucket' = TryAcquire(bucket)
  /\ IF TryAcquireOk(bucket)
     THEN Answer(r, "granted")
     ELSE UNCHANGED <<entry, permit, age, left>>
  /\ UNCHANGED <<handler, queue, waiting, embeddings, cancels>>

ExpireSilently(r) ==
  /\ entry[r] = "polling" /\ left[r] = 0
  /\ entry' = [entry EXCEPT ![r] = "none"]
  /\ UNCHANGED <<bucket, handler, queue, age, left, permit, waiting, embeddings, cancels>>

ExpireBeforeLoop(r) ==
  /\ entry[r] \in {"spawned", "short"} /\ age[r] >= QueueTimeout
  /\ Answer(r, "timeout")
  /\ UNCHANGED <<bucket, handler, queue, waiting, embeddings, cancels>>

(* Either timeout fires before the loop has a token: acquire's own, or the *)
(* remaining queue_timeout around it.                                      *)
Expire(r) ==
  /\ \/ entry[r] = "polling" /\ left[r] = 0
     \/ entry[r] \in {"spawned", "short", "polling"} /\ age[r] >= QueueTimeout
  /\ Answer(r, "timeout")
  /\ UNCHANGED <<bucket, handler, queue, waiting, embeddings, cancels>>

(* permit_rx resolves: the request runs, or ends with 408.                 *)
Deliver(r) ==
  /\ handler[r] = "awaiting" /\ permit[r] # "none"
  /\ handler' = [handler EXCEPT ![r] = IF permit[r] = "granted" THEN "running" ELSE "idle"]
  /\ permit' = [permit EXCEPT ![r] = "none"]
  /\ Dequeue(r)
  /\ UNCHANGED <<bucket, queue, entry, age, left, cancels>>

(* next.run returned: the token goes back.                                 *)
Finish(r) ==
  /\ handler[r] = "running"
  /\ handler' = [handler EXCEPT ![r] = "idle"]
  /\ bucket' = ReturnTokens(bucket)
  /\ UNCHANGED <<queue, entry, age, left, permit, waiting, embeddings, cancels>>

CancelReturns(r) ==
  /\ cancels < MaxCancels
  /\ handler[r] \in {"awaiting", "running"}
  /\ cancels' = cancels + 1
  /\ handler' = [handler EXCEPT ![r] = "idle"]
  /\ permit' = [permit EXCEPT ![r] = "none"]
  /\ waiting' = IF handler[r] = "awaiting" THEN waiting - 1 ELSE waiting
  /\ bucket' = ReturnTokens(bucket)
  /\ UNCHANGED <<queue, entry, age, left, embeddings>>

(* The connection closes and the middleware's future is dropped at one of  *)
(* its awaits: the waiting guard is released, EMBEDDINGS_QUEUE_SIZE and a  *)
(* token already taken are not.                                            *)
Withdraw(r) ==
  /\ cancels < MaxCancels
  /\ handler[r] \in {"awaiting", "running"}
  /\ cancels' = cancels + 1
  /\ handler' = [handler EXCEPT ![r] = "idle"]
  /\ permit' = [permit EXCEPT ![r] = "none"]
  /\ waiting' = IF handler[r] = "awaiting" THEN waiting - 1 ELSE waiting
  /\ UNCHANGED <<bucket, queue, entry, age, left, embeddings>>

Tick ==
  /\ bucket' = Elapse(bucket)
  /\ age' = [r \in Requests |->
               IF entry[r] = "none" THEN 0 ELSE AtMost(age[r] + 1, QueueTimeout)]
  /\ left' = [r \in Requests |->
               IF entry[r] = "polling" /\ left[r] > 0 THEN left[r] - 1 ELSE 0]
  /\ UNCHANGED <<handler, queue, entry, permit, waiting, embeddings, cancels>>

LimiterNext ==
  \/ \E r \in Requests :
       \/ Arrive(r) \/ Enqueue(r) \/ TooManyRequests(r)
       \/ FirstTry(r) \/ ComputeWait(r) \/ Poll(r) \/ Expire(r)
       \/ Deliver(r) \/ Finish(r) \/ Withdraw(r)
  \/ Receive
  \/ Tick

LimiterSpec == LimiterInit /\ [][LimiterNext]_limiterVars

(* The runtime polls every task that is ready and its timers fire; clients *)
(* and backends owe nothing, so neither arrivals nor completions are fair. *)
LimiterFairness ==
  /\ WF_limiterVars(Receive)
  /\ WF_limiterVars(Tick)
  /\ \A r \in Requests :
       /\ WF_limiterVars(Enqueue(r) \/ TooManyRequests(r))
       /\ WF_limiterVars(FirstTry(r) \/ ComputeWait(r) \/ Expire(r))
       /\ WF_limiterVars(Deliver(r))

LimiterFairSpec == LimiterSpec /\ LimiterFairness

-----------------------------------------------------------------------------
Waiters == {r \in Requests : handler[r] = "awaiting"}

(* The bucket never leaves its capacity, ages and waits stay within their  *)
(* timeouts, and every variable keeps its type.                            *)
LimiterTypeOK ==
  /\ bucket \in [tokens : 0 .. Capacity, since : 0 .. FillTime]
  /\ handler \in [Requests -> Handlers]
  /\ queue \in Seq(Requests) /\ Len(queue) <= QueueSize
  /\ entry \in [Requests -> Entries]
  /\ age \in [Requests -> 0 .. QueueTimeout]
  /\ left \in [Requests -> Nat]
  /\ permit \in [Requests -> Permits]
  /\ waiting \in Int /\ embeddings \in Int
  /\ cancels \in 0 .. MaxCancels

(* A request that awaits its permit is in exactly one place: in the        *)
(* channel once, in the hands of a spawned task, or answered.  Nothing the *)
(* processor or a closing connection does loses a waiter or answers it     *)
(* twice (middleware.rs:419-457, 549-570).                                 *)
EveryWaiterIsServed ==
  /\ \A r \in Requests :
       /\ handler[r] = "awaiting" => (entry[r] = "none" <=> permit[r] # "none")
       /\ permit[r] # "none" => handler[r] = "awaiting"
       /\ entry[r] = "queued" => \E i \in 1 .. Len(queue) : queue[i] = r
  /\ \A i \in 1 .. Len(queue) : entry[queue[i]] = "queued"
  /\ \A i, j \in 1 .. Len(queue) : i # j => queue[i] # queue[j]

(* num_requests_waiting is the number of requests that await a permit,     *)
(* whichever way they stop waiting (the comment at middleware.rs:551-555); *)
(* EMBEDDINGS_QUEUE_SIZE is never below the waiting embeddings, and above  *)
(* it by no more than the clients that went away.                          *)
GaugesAgree ==
  /\ waiting = Cardinality(Waiters)
  /\ LET n == Cardinality(Waiters \intersect Embeddings)
     IN  embeddings \in n .. (n + cancels)

(* The lazily refilled bucket shared by the middleware, the processor and  *)
(* the spawned tasks is the ideal one: no request runs without a token of  *)
(* its own, none is returned twice, and time refills exactly what it       *)
(* should whoever looks at the bucket, and however often.                  *)
Ideal == INSTANCE IdealLimiter WITH
  level <- Level(bucket),
  held <- {r \in Requests : handler[r] = "running" \/ permit[r] = "granted"}

ImplementsIdeal == Ideal!Spec

(* Every request that waits for a permit is answered: with a token, with   *)
(* 408 when its time in the queue or the wait computed by acquire is over  *)
(* (or its client goes away).                                              *)
WaitersAreAnswered ==
  \A r \in Requests : handler[r] = "awaiting" ~> handler[r] # "awaiting"

(* Whatever the processor, its tasks and closing connections do, the      *)
(* bucket keeps its bounds, every waiter is in one place and the gauges   *)
(* count the waiters.                                                     *)
LimiterIsExact == LimiterTypeOK /\ EveryWaiterIsServed /\ GaugesAgree
=============================================================================
