-------------------------- MODULE BookkeepingProofs -------------------------
(***************************************************************************)
(* Proofs about the router's bookkeeping, for any number of requests: the  *)
(* cached verdicts on API keys, and what a request on the regular router   *)
(* holds (load, KV slot, completion, running gauge) from its first attempt *)
(* to the end of its body; and what the KV index holds of its workers, for *)
(* any tasks, calls, sources and requests: the supervisor keeps exactly as *)
(* many references as its callers hold, and the counters of a slot are     *)
(* exactly the sums over the requests placed on it.                        *)
(***************************************************************************)
EXTENDS RequestPath, KvWorkers, Induction

(* A request to a URL that accepts k has failed.                            *)
Missed(k) == \E e \in keyErrors : e[2] = k /\ e[2] \in accepts[e[3]]

Calls == [pc : {"idle", "ask", "store", "done"}, key : ApiKeys \cup {NoApiKey}, url : Nat, verdict : Verdicts]

KeyTypeOK ==
  /\ Validators \in Nat
  /\ keyCache \in [ApiKeys -> SUBSET Verdicts]
  /\ auth \in [KeyCalls -> Calls]

(* Every verdict on its way, cached or answered, has its reason: an         *)
(* acceptance a URL, a refusal all of the URLs or a failure.                *)
Justified(k, v) == IF v = "valid" THEN Good(k) ELSE Good(k) => Missed(k)

(* The URLs a request has passed refused its key, or failed.                *)
Passed(c) ==
  \A u \in ValidationUrls : u < auth[c].url /\ auth[c].key \in accepts[u] => Missed(auth[c].key)

Sound(c) ==
  /\ auth[c].pc = "ask" => auth[c].url \in ValidationUrls /\ auth[c].verdict = "refused" /\ Passed(c)
  /\ auth[c].pc \in {"ask", "store"} => auth[c].key \in ApiKeys
  /\ auth[c].pc = "store" => Justified(auth[c].key, auth[c].verdict)
  /\ auth[c].pc = "done" /\ Validators > 0 /\ auth[c].verdict = "valid" => Good(auth[c].key)
  /\ auth[c].pc = "done" /\ auth[c].verdict = "refused" /\ auth[c].key \in ApiKeys => Justified(auth[c].key, "refused")

KeyInv ==
  /\ KeyTypeOK
  /\ \A k \in ApiKeys : \A v \in keyCache[k] : Justified(k, v)
  /\ \A c \in KeyCalls : Sound(c)

-----------------------------------------------------------------------------

(* Nothing is cached and no request has begun.                              *)
LEMMA KeyInitEstablishes == KeyInit => KeyInv
<1> SUFFICES ASSUME KeyInit PROVE KeyInv
  BY Zenon
<1>1. PICK n \in 0 .. MaxValidators : accepts \in [1 .. n -> SUBSET ApiKeys]
  BY Zenon DEF KeyInit
<1>2. n \in Nat /\ Validators = n /\ DOMAIN accepts = ValidationUrls
  BY <1>1 DEF Validators, ValidationUrls
<1>3. KeyTypeOK
  BY <1>2, Zenon DEF KeyInit, KeyTypeOK, Calls, Verdicts
<1>4. \A c \in KeyCalls : Sound(c)
  BY Zenon DEF KeyInit, Sound
<1> QED BY <1>3, <1>4, Zenon DEF KeyInit, KeyInv

(* Acceptances do not change and failures are only added, so a reason once  *)
(* given stays one.                                                         *)
LEMMA ReasonsStay ==
  ASSUME KeyTypeOK, KeyNext
  PROVE  /\ accepts' = accepts /\ keyErrors \subseteq keyErrors'
         /\ \A k : Good(k)' = Good(k) /\ (Missed(k) => Missed(k)')
         /\ \A k, v : Justified(k, v) => Justified(k, v)'
<1>1. accepts' = accepts /\ keyErrors \subseteq keyErrors'
  BY Zenon DEF KeyNext, Present, Ask, StoreVerdict, NextRequest
<1>2. ASSUME NEW k PROVE Good(k)' = Good(k) /\ (Missed(k) => Missed(k)')
  BY <1>1, Zenon DEF Good, Missed, ValidationUrls, Validators
<1> QED BY <1>1, <1>2, Zenon DEF Justified

(* A call that another one leaves alone stays sound.                        *)
LEMMA OthersStaySound ==
  ASSUME KeyTypeOK, KeyNext, NEW d \in KeyCalls, Sound(d), auth'[d] = auth[d]
  PROVE  Sound(d)'
<1>1. Validators' = Validators /\ ValidationUrls' = ValidationUrls /\ accepts' = accepts
  BY ReasonsStay, Zenon DEF Validators, ValidationUrls
<1>2. Passed(d) => Passed(d)'
  BY <1>1, ReasonsStay, Zenon DEF Passed
<1> QED BY <1>1, <1>2, ReasonsStay, Zenon DEF Sound

(* One call moves on: the others keep theirs.                               *)
LEMMA CallMoves ==
  ASSUME KeyTypeOK, NEW c \in KeyCalls, NEW r \in Calls, auth' = [auth EXCEPT ![c] = r]
  PROVE  auth' \in [KeyCalls -> Calls] /\ auth'[c] = r /\ \A d \in KeyCalls \ {c} : auth'[d] = auth[d]
BY Zenon DEF KeyTypeOK

(* A cached verdict has its reason; a miss starts at the first URL.         *)
LEMMA PresentStep == ASSUME KeyInv, NEW c \in KeyCalls, Present(c) PROVE KeyInv'
<1> USE DEF KeyInv
<1>0. KeyNext
  BY Zenon DEF KeyNext
<1>1. Validators' = Validators /\ ValidationUrls' = ValidationUrls /\ keyCache' = keyCache
  BY Zenon DEF Present, Validators, ValidationUrls
<1> DEFINE Moved == auth' \in [KeyCalls -> Calls] /\ \A d \in KeyCalls \ {c} : auth'[d] = auth[d]
<1>2. Sound(c)' /\ Moved
  <2>1. CASE Validators = 0 /\ Decide(c, NoApiKey, "valid")
    <3> DEFINE r == [pc |-> "done", key |-> NoApiKey, url |-> 1, verdict |-> "valid"]
    <3>1. r \in Calls
      BY Zenon DEF Calls, Verdicts
    <3>2. Moved /\ auth'[c] = r
      BY <3>1, <2>1, CallMoves, Zenon DEF Decide
    <3>3. auth'[c].pc = "done" /\ auth'[c].verdict = "valid" /\ ~(Validators' > 0)
      BY <3>2, <2>1, <1>1
    <3> HIDE DEF Moved, r
    <3> QED BY <3>2, <3>3, Zenon DEF Sound
  <2>2. CASE Decide(c, NoApiKey, "refused")
    <3> DEFINE r == [pc |-> "done", key |-> NoApiKey, url |-> 1, verdict |-> "refused"]
    <3>1. r \in Calls
      BY Zenon DEF Calls, Verdicts
    <3>2. Moved /\ auth'[c] = r
      BY <3>1, <2>2, CallMoves, Zenon DEF Decide
    <3>3. auth'[c].pc = "done" /\ auth'[c].verdict = "refused" /\ auth'[c].key \notin ApiKeys
      BY <3>2, NoApiKeyAssumption
    <3> HIDE DEF Moved, r
    <3> QED BY <3>2, <3>3, Zenon DEF Sound
  <2>3. ASSUME NEW k \in ApiKeys, NEW v \in keyCache[k], Decide(c, k, v), Validators > 0
        PROVE  Sound(c)' /\ Moved
    <3> DEFINE r == [pc |-> "done", key |-> k, url |-> 1, verdict |-> v]
    <3>1. r \in Calls
      BY Zenon DEF Calls, KeyTypeOK
    <3>2. Moved /\ auth'[c] = r
      BY <3>1, <2>3, CallMoves, Zenon DEF Decide
    <3>3. Justified(k, v)'
      BY <1>0, ReasonsStay, Zenon
    <3> QED BY <3>2, <3>3 DEF Sound, Justified
  <2>4. ASSUME NEW k \in ApiKeys, Validators > 0,
               auth' = [auth EXCEPT ![c] = [pc |-> "ask", key |-> k, url |-> 1, verdict |-> "refused"]]
        PROVE  Sound(c)' /\ Moved
    <3> DEFINE r == [pc |-> "ask", key |-> k, url |-> 1, verdict |-> "refused"]
    <3>1. r \in Calls
      BY Zenon DEF Calls, Verdicts
    <3>2. Moved /\ auth'[c] = r
      BY <3>1, <2>4, CallMoves, Zenon
    <3> QED BY <3>2, <2>4, <1>1 DEF Sound, Passed, ValidationUrls, KeyTypeOK
  <2> HIDE DEF Moved
  <2> QED BY <2>1, <2>2, <2>3, <2>4, Zenon DEF Present
<1>3. KeyTypeOK'
  BY <1>1, <1>2, Zenon DEF KeyTypeOK
<1> QED BY <1>0, <1>1, <1>2, <1>3, OthersStaySound, ReasonsStay, Zenon

(* An acceptance, a refusal and a failure each give the verdict its reason. *)
LEMMA AskStep == ASSUME KeyInv, NEW c \in KeyCalls, Ask(c) PROVE KeyInv'
<1> USE DEF KeyInv
<1>0. KeyNext
  BY Zenon DEF KeyNext
<1>1. Validators' = Validators /\ ValidationUrls' = ValidationUrls /\ keyCache' = keyCache /\ accepts' = accepts
  BY Zenon DEF Ask, Validators, ValidationUrls
<1>2. PICK k \in ApiKeys, u \in ValidationUrls :
        /\ k = auth[c].key /\ u = auth[c].url /\ auth[c].verdict = "refused" /\ Passed(c) /\ auth[c].pc = "ask"
  BY Zenon DEF Ask, Sound
<1> DEFINE Moved == auth' \in [KeyCalls -> Calls] /\ \A d \in KeyCalls \ {c} : auth'[d] = auth[d]
<1>3. u \in Nat /\ 1 <= u /\ u <= Validators /\ Validators \in Nat
  BY DEF ValidationUrls, KeyTypeOK
<1>4. Sound(c)' /\ Moved
  <2>1. CASE k \in accepts[u] /\ auth' = [auth EXCEPT ![c].pc = "store", ![c].verdict = "valid"]
    <3> DEFINE r == [auth[c] EXCEPT !.pc = "store", !.verdict = "valid"]
    <3>1. r \in Calls /\ r.pc = "store" /\ r.verdict = "valid" /\ r.key = k
      BY <1>2, ZenonT(30) DEF Calls, Verdicts, KeyTypeOK
    <3>2. auth' = [auth EXCEPT ![c] = r]
      BY <2>1, Zenon DEF KeyTypeOK
    <3> HIDE DEF r
    <3>3. Moved /\ auth'[c] = r
      BY <3>1, <3>2, CallMoves, Zenon
    <3>4. Good(k)'
      BY <2>1, <1>1, Zenon DEF Good
    <3> QED BY <3>1, <3>3, <3>4, Zenon DEF Sound, Justified
  <2>2. ASSUME auth' = [auth EXCEPT ![c].pc = After(c), ![c].url = @ + 1],
               k \in accepts[u] => Missed(k)'
        PROVE  Sound(c)' /\ Moved
    <3> DEFINE r == [auth[c] EXCEPT !.pc = After(c), !.url = @ + 1]
    <3>0. After(c) \in {"ask", "store"} /\ (After(c) = "store" <=> u = Validators)
      BY <1>2, Zenon DEF After
    <3>1. r \in Calls /\ r.pc = After(c) /\ r.verdict = "refused" /\ r.key = k /\ r.url = u + 1
      <4>1. auth[c] \in Calls
        BY Zenon DEF KeyTypeOK
      <4>2. ASSUME NEW a \in {"ask", "store"}, a = After(c)
            PROVE  r \in Calls /\ r.pc = a /\ r.verdict = "refused" /\ r.key = k /\ r.url = u + 1
        <5>1. r = [auth[c] EXCEPT !.pc = a, !.url = u + 1]
          BY <4>2, <1>2, Zenon
        <5>2. u + 1 \in Nat
          BY <1>3
        <5> HIDE DEF r
        <5> QED BY <4>1, <5>1, <5>2, <1>2, Zenon DEF Calls
      <4> QED BY <4>2, <3>0, Zenon
    <3>2. auth' = [auth EXCEPT ![c] = r]
      BY <2>2, Zenon DEF KeyTypeOK
    <3> HIDE DEF r
    <3>3. Moved /\ auth'[c] = r
      BY <3>1, <3>2, CallMoves, Zenon
    <3>4. ASSUME NEW w \in ValidationUrls, w < u + 1, k \in accepts[w] PROVE Missed(k)'
      <4>1. CASE w = u
        BY <4>1, <3>4, <2>2, Zenon
      <4>2. CASE w < u
        <5>1. Missed(k)
          BY <4>2, <3>4, <1>2, Zenon DEF Passed
        <5> QED BY <5>1, <1>0, ReasonsStay, Zenon
      <4> QED BY <4>1, <4>2, <3>4, <1>3 DEF ValidationUrls
    <3>5. Passed(c)'
      BY <3>4, <3>1, <3>3, <1>1, Zenon DEF Passed
    <3>6. u # Validators => u + 1 \in ValidationUrls
      BY <1>3 DEF ValidationUrls
    <3>7. u = Validators => Justified(k, "refused")'
      BY <3>4, <1>1 DEF Justified, Good, ValidationUrls
    <3> QED BY <3>0, <3>1, <3>3, <3>5, <3>6, <3>7, <1>1, Zenon DEF Sound
  <2>3. ASSUME keyErrors' = keyErrors \cup {<<c, k, u>>} PROVE k \in accepts[u] => Missed(k)'
    <3>1. <<c, k, u>> \in keyErrors' /\ <<c, k, u>>[2] = k /\ <<c, k, u>>[3] = u
      BY <2>3, Zenon
    <3> QED BY <3>1, <1>1, Zenon DEF Missed
  <2> HIDE DEF Moved
  <2> QED BY <1>2, <2>1, <2>2, <2>3, Zenon DEF Ask
<1>5. KeyTypeOK'
  BY <1>1, <1>4, Zenon DEF KeyTypeOK
<1> QED BY <1>0, <1>1, <1>4, <1>5, OthersStaySound, ReasonsStay, Zenon

(* The verdict is cached with its reason.                                   *)
LEMMA StoreStep == ASSUME KeyInv, NEW c \in KeyCalls, StoreVerdict(c) PROVE KeyInv'
<1> USE DEF KeyInv
<1>0. KeyNext
  BY Zenon DEF KeyNext
<1>1. Validators' = Validators /\ auth[c].pc = "store"
  BY Zenon DEF StoreVerdict, Validators
<1>2. KeyTypeOK' /\ \A d \in KeyCalls \ {c} : auth'[d] = auth[d]
  BY <1>1, Zenon DEF StoreVerdict, Decide, Verdict, KeyTypeOK, Calls, Sound
<1>3. auth[c].key \in ApiKeys /\ Justified(auth[c].key, auth[c].verdict)
  BY <1>1, Zenon DEF Sound
<1>4. auth'[c].key = auth[c].key /\ auth'[c].verdict = auth[c].verdict /\ auth'[c].pc = "done"
  BY Zenon DEF StoreVerdict, Decide, Verdict, KeyTypeOK
<1>5. Sound(c)'
  <2> DEFINE k == auth[c].key
             v == auth[c].verdict
  <2>1. Justified(k, v) /\ k \in ApiKeys
    BY <1>3, Zenon
  <2>2. auth'[c].key = k /\ auth'[c].verdict = v
    BY <1>4, Zenon
  <2> HIDE DEF k, v
  <2> QED BY <2>1, <2>2, <1>0, <1>1, <1>4, ReasonsStay, Zenon DEF Sound, Justified
<1>6. ASSUME NEW k \in ApiKeys, NEW v \in keyCache'[k] PROVE Justified(k, v)'
  BY <1>0, <1>3, ReasonsStay, Zenon DEF StoreVerdict, Verdict, KeyTypeOK
<1> QED BY <1>0, <1>2, <1>5, <1>6, OthersStaySound, Zenon

(* The next request starts from nothing.                                    *)
LEMMA RequestStep == ASSUME KeyInv, NEW c \in KeyCalls, NextRequest(c) PROVE KeyInv'
<1> USE DEF KeyInv
<1>0. KeyNext
  BY Zenon DEF KeyNext
<1>1. KeyTypeOK' /\ \A d \in KeyCalls \ {c} : auth'[d] = auth[d]
  BY Zenon DEF NextRequest, KeyTypeOK, Calls, Verdicts, Validators
<1>2. Sound(c)' /\ keyCache' = keyCache
  BY Zenon DEF NextRequest, Sound, KeyTypeOK
<1> QED BY <1>0, <1>1, <1>2, OthersStaySound, ReasonsStay, Zenon

(* Every step of the validator keeps the invariant.                         *)
LEMMA KeyNextPreserves == KeyInv /\ [KeyNext]_keyVars => KeyInv'
<1>1. ASSUME KeyInv, UNCHANGED keyVars PROVE KeyInv'
  BY <1>1, SMTT(30) DEF keyVars, KeyInv, KeyTypeOK, Sound, Justified, Good, Missed, Passed, ValidationUrls, Validators
<1> QED BY <1>1, PresentStep, AskStep, StoreStep, RequestStep, Zenon DEF KeyNext

(* authorize_request: for any keys, requests, URLs and failures, a request  *)
(* passes only with a key that some validation URL accepts, and a key that  *)
(* a URL accepts is refused only after a request to such a URL failed.      *)
THEOREM VerdictsAreSound == KeySpec => []KeyVerdictsAreSound
<1>1. KeyInv => OnlyGoodKeysPass
  BY Zenon DEF KeyInv, Sound, OnlyGoodKeysPass
<1>2. KeyInv => GoodKeysAreRefusedOnlyAfterErrors
  BY Zenon DEF KeyInv, Sound, Justified, Missed, GoodKeysAreRefusedOnlyAfterErrors
<1>3. KeyInv => KeyVerdictsAreSound
  BY <1>1, <1>2, Zenon DEF KeyVerdictsAreSound
<1> QED BY <1>3, KeyInitEstablishes, KeyNextPreserves, PTL DEF KeySpec
-----------------------------------------------------------------------------
(* Requests (RequestPath)                                                   *)

PathPoints == {"start", "attempt", "select", "sent", "decide", "backoff", "body", "done"}

Places == [pc : PathPoints, attempt : Nat, status : Statuses, worker : Backends \cup {"none"}]

Owned == [counted : BOOLEAN, released : BOOLEAN, slot : {"none", "prefill", "decode", "freed"},
          open : Nat, assigned : BOOLEAN]

Bodies == [producer : {"none", "running", "ended", "aborted"}, waiter : BOOLEAN, emitted : Nat,
           first : Nat, output : Nat, pending : {"none", "output", "metadata"}, consumed : Nat,
           live : BOOLEAN, active : BOOLEAN]

(* The frame numbers of a producer: the frame published as the first output *)
(* is the one that was, or the one about to be enqueued.                    *)
Ordered(o, b) ==
  /\ b.output <= b.emitted /\ b.consumed <= b.emitted
  /\ b.first = b.output \/ (b.pending = "output" /\ b.output = 0 /\ b.first = b.emitted + 1)
  /\ b.pending = "output" => b.first # 0
  /\ o.slot = "decode" => b.output # 0 /\ b.consumed >= b.output
  /\ (b.output # 0 /\ b.consumed >= b.output) => o.slot # "prefill"

(* What a request may own, and what its body may be, at each point: k is    *)
(* what it asks, a where it is, o what it owns, b its body.                 *)
Fits(k, a, o, b) ==
  /\ a.attempt < AtLeastOne(MaxRetries)
  /\ b.first <= MaxFrames
  /\ o.open <= 1
  /\ o.assigned => k.path # "proxy"
  /\ ~o.released => a.worker \in Backends /\ a.pc \in {"sent", "decide", "body"}
  /\ o.released => o.slot \in {"none", "freed"}
  /\ a.pc \in {"start", "attempt", "select", "backoff"} => b = NoBody
  /\ a.pc \in {"start", "attempt", "backoff", "done"} => o.open = 0
  /\ a.pc = "sent" => b = NoBody /\ ~o.released /\ (k.stream => o.slot # "decode")
  /\ a.pc = "decide" /\ ~b.live => o.released /\ o.open = 0 /\ b = NoBody
  /\ a.pc = "decide" /\ k.path = "typed" /\ Retryable(a.status) => ~b.live
  /\ a.pc = "body" => b.live
  /\ a.pc \in {"start", "done"} => ~o.assigned
  /\ a.pc = "done" => ~b.live /\ b.producer # "running"
  /\ b.live /\ b.producer # "none" => Ordered(o, b)

PathTypes ==
  /\ ask \in [Requests -> Kinds]
  /\ at \in [Requests -> Places]
  /\ res \in [Requests -> Owned]
  /\ body \in [Requests -> Bodies]
  /\ load \in [Backends -> Nat]
  /\ running \in Nat
  /\ up \subseteq Backends

PathInv ==
  /\ PathTypes
  /\ \A r \in Requests : Fits(ask[r], at[r], res[r], body[r])
  /\ LoadsMatchGuards
  /\ RunningIsExact

On(w) == {r \in Requests : res[r].counted /\ ~res[r].released /\ at[r].worker = w}

Holding(a, o, w) == o.counted /\ ~o.released /\ a.worker = w

Assigned == {r \in Requests : res[r].assigned}

(* Fields after the updates the actions make.                               *)
LEMMA OwnedFields ==
  ASSUME NEW o \in Owned
  PROVE  /\ Released(o) \in Owned /\ Released(o).released /\ (Released(o).assigned <=> o.assigned)
         /\ Released(o).open = o.open /\ (o.slot = "none" => Released(o).slot = "none")
         /\ (o.slot # "none" => Released(o).slot = "freed")
         /\ FinishedOnce(o) \in Owned /\ (FinishedOnce(o).released <=> o.released)
         /\ (FinishedOnce(o).assigned <=> o.assigned) /\ (FinishedOnce(o).counted <=> o.counted)
         /\ FinishedOnce(o).open = Less(o.open) /\ FinishedOnce(o).slot = o.slot
         /\ Decoding(o) \in Owned /\ (Decoding(o).released <=> o.released)
         /\ (Decoding(o).assigned <=> o.assigned) /\ (Decoding(o).counted <=> o.counted)
         /\ Decoding(o).open = o.open
         /\ Decoding(o).slot = IF o.slot = "prefill" THEN "decode" ELSE o.slot
<1>1. /\ Released(o) \in Owned /\ Released(o).released /\ (Released(o).assigned <=> o.assigned)
      /\ Released(o).open = o.open /\ (o.slot = "none" => Released(o).slot = "none")
      /\ (o.slot # "none" => Released(o).slot = "freed")
  BY Zenon DEF Owned, Released
<1>2. /\ FinishedOnce(o) \in Owned /\ (FinishedOnce(o).released <=> o.released)
      /\ (FinishedOnce(o).assigned <=> o.assigned) /\ (FinishedOnce(o).counted <=> o.counted)
      /\ FinishedOnce(o).open = Less(o.open) /\ FinishedOnce(o).slot = o.slot
  BY DEF Owned, FinishedOnce, Less
<1>3. /\ Decoding(o) \in Owned /\ (Decoding(o).released <=> o.released)
      /\ (Decoding(o).assigned <=> o.assigned) /\ (Decoding(o).counted <=> o.counted)
      /\ Decoding(o).open = o.open
      /\ Decoding(o).slot = IF o.slot = "prefill" THEN "decode" ELSE o.slot
  BY Zenon DEF Owned, Decoding
<1> QED BY <1>1, <1>2, <1>3, Zenon
(* A step of r that leaves it at a, owning o, moves no other request.       *)
Steps(r, a, o) == at' = [at EXCEPT ![r] = a] /\ res' = [res EXCEPT ![r] = o]

(* The requests on a worker when one request changes.                       *)
LEMMA OnMoves ==
  ASSUME PathTypes, NEW r \in Requests, NEW a, NEW o, Steps(r, a, o), NEW w
  PROVE  /\ IsFiniteSet(On(w)) /\ \A y : y # r => (y \in On(w) <=> y \in On(w)')
         /\ r \in On(w) <=> Holding(at[r], res[r], w)
         /\ r \in On(w)' <=> Holding(a, o, w)
<1>1. On(w) \in SUBSET Requests
  BY Zenon DEF On
<1>2. IsFiniteSet(On(w))
  BY <1>1, PathAssumption, FS_Subset, Zenon
<1>3. at'[r] = a /\ res'[r] = o /\ \A y \in Requests : y # r => at'[y] = at[y] /\ res'[y] = res[y]
  BY Zenon DEF PathTypes, Steps
<1>4. \A y : y # r => (y \in On(w) <=> y \in On(w)')
  BY <1>3, Zenon DEF On
<1>5. (r \in On(w) <=> Holding(at[r], res[r], w)) /\ (r \in On(w)' <=> Holding(a, o, w))
  BY <1>3, Zenon DEF On, Holding
<1> QED BY <1>2, <1>4, <1>5, Zenon

(* The assigned requests when one request changes.                          *)
LEMMA AssignedMoves ==
  ASSUME PathTypes, NEW r \in Requests, NEW a, NEW o, Steps(r, a, o)
  PROVE  /\ IsFiniteSet(Assigned) /\ \A y : y # r => (y \in Assigned <=> y \in Assigned')
         /\ r \in Assigned <=> res[r].assigned
         /\ r \in Assigned' <=> o.assigned
<1>1. Assigned \in SUBSET Requests
  BY Zenon DEF Assigned
<1>2. IsFiniteSet(Assigned)
  BY <1>1, PathAssumption, FS_Subset, Zenon
<1>3. res'[r] = o /\ \A y \in Requests : y # r => res'[y] = res[y]
  BY Zenon DEF PathTypes, Steps
<1>4. \A y : y # r => (y \in Assigned <=> y \in Assigned')
  BY <1>3, Zenon DEF Assigned
<1>5. (r \in Assigned <=> res[r].assigned) /\ (r \in Assigned' <=> o.assigned)
  BY <1>3, Zenon DEF Assigned
<1> QED BY <1>2, <1>4, <1>5, Zenon

(* The counters after a step of r: kept, taken or released.                 *)
LoadsFollow == load \in [Backends -> Nat] /\ LoadsMatchGuards

(* A step that moves no slot keeps the load.                                *)
LEMMA LoadKept ==
  ASSUME PathTypes, LoadsMatchGuards, NEW r \in Requests, NEW a, NEW o, Steps(r, a, o), load' = load,
         \A w \in Backends : Holding(at[r], res[r], w) <=> Holding(a, o, w)
  PROVE  LoadsFollow'
<1>1. ASSUME NEW w \in Backends PROVE load'[w] = Cardinality(On(w)')
  <2>1. Cardinality(On(w)') = Cardinality(On(w))
    <3> HIDE DEF On
    <3>1. /\ IsFiniteSet(On(w)) /\ \A y : y # r => (y \in On(w) <=> y \in On(w)')
          /\ r \in On(w) <=> r \in On(w)'
      BY <1>1, OnMoves, Zenon
    <3> QED BY <3>1, CountMoves, Zenon
  <2>2. load[w] = Cardinality(On(w))
    BY <1>1, Zenon DEF LoadsMatchGuards, On
  <2> QED BY <2>1, <2>2, Zenon
<1> QED BY <1>1, Zenon DEF LoadsFollow, LoadsMatchGuards, On, PathTypes

OneMoreOn(v) == [load EXCEPT ![v] = @ + 1]

Takes(r, a, o, v) ==
  \A w \in Backends : ~Holding(at[r], res[r], w) /\ (Holding(a, o, w) <=> w = v)

(* Taking a slot adds one to the load of its worker alone.                  *)
LEMMA LoadTaken ==
  ASSUME PathTypes, LoadsMatchGuards, NEW r \in Requests, NEW a, NEW o, Steps(r, a, o),
         NEW v \in Backends, load' = OneMoreOn(v),
         Takes(r, a, o, v)
  PROVE  LoadsFollow'
<1>1. ASSUME NEW w \in Backends PROVE load'[w] = Cardinality(On(w)')
  <2>1. /\ Cardinality(On(w)') = IF w = v THEN Cardinality(On(w)) + 1 ELSE Cardinality(On(w))
        /\ Cardinality(On(w)) \in Nat
    <3> HIDE DEF On
    <3>1. /\ IsFiniteSet(On(w)) /\ \A y : y # r => (y \in On(w) <=> y \in On(w)')
          /\ r \notin On(w) /\ (r \in On(w)' <=> w = v)
      BY <1>1, OnMoves, Zenon DEF Takes
    <3>2. CASE w = v
      BY <3>1, <3>2, CountMoves, Zenon
    <3>3. CASE w # v
      BY <3>1, <3>3, CountMoves, Zenon
    <3> QED BY <3>2, <3>3, Zenon
  <2>2. load[w] = Cardinality(On(w))
    BY <1>1, Zenon DEF LoadsMatchGuards, On
  <2> QED BY <2>1, <2>2, Zenon DEF PathTypes, OneMoreOn
<1> QED BY <1>1 DEF LoadsFollow, LoadsMatchGuards, On, PathTypes, OneMoreOn

(* Releasing a slot takes one off the load of its worker alone.             *)
LEMMA LoadReleased ==
  ASSUME PathTypes, LoadsMatchGuards, NEW r \in Requests, NEW a, NEW o, Steps(r, a, o),
         load' = ReleaseLoad(r), o.released, ~res[r].released => at[r].worker \in Backends
  PROVE  LoadsFollow'
<1>1. CASE res[r].released \/ ~res[r].counted
  <2>1. load' = load
    BY <1>1, Zenon DEF ReleaseLoad, AlreadyReleased
  <2>2. \A w \in Backends : Holding(at[r], res[r], w) <=> Holding(a, o, w)
    BY <1>1, Zenon DEF Holding
  <2> QED BY <2>1, <2>2, LoadKept, Zenon
<1>2. CASE ~res[r].released /\ res[r].counted
  <2> DEFINE v == at[r].worker
  <2>1. v \in Backends /\ load' = [load EXCEPT ![v] = Less(@)]
    BY <1>2, Zenon DEF ReleaseLoad, AlreadyReleased
  <2>2. ASSUME NEW w \in Backends PROVE load'[w] = Cardinality(On(w)') /\ load'[w] \in Nat
    <3>1. /\ Cardinality(On(w)) \in Nat
          /\ w # v => Cardinality(On(w)') = Cardinality(On(w))
          /\ w = v => Cardinality(On(w)') = Cardinality(On(w)) - 1 /\ Cardinality(On(w)) > 0
      <4> HIDE DEF On
      <4>1. /\ IsFiniteSet(On(w)) /\ \A y : y # r => (y \in On(w) <=> y \in On(w)')
            /\ r \notin On(w)' /\ (r \in On(w) <=> w = v)
        BY <1>2, OnMoves, Zenon DEF Holding
      <4> HIDE DEF v
      <4>2. CASE w = v
        BY <4>1, <4>2, CountMoves
      <4>3. CASE w # v
        BY <4>1, <4>3, CountMoves, Zenon
      <4> QED BY <4>2, <4>3, Zenon
    <3>2. load[w] = Cardinality(On(w)) /\ load[w] \in Nat
      BY <2>2, Zenon DEF LoadsMatchGuards, On, PathTypes
    <3>3. load'[w] = IF w = v THEN Less(load[w]) ELSE load[w]
      BY <2>1, <2>2, Zenon DEF PathTypes
    <3> HIDE DEF v
    <3> QED BY <3>1, <3>2, <3>3 DEF Less
  <2>3. load' \in [Backends -> Nat]
    <3>1. DOMAIN load' = Backends /\ load' = [w \in Backends |-> load'[w]]
      BY <2>1, Zenon DEF PathTypes
    <3> QED BY <2>2, <3>1, Zenon
  <2> QED BY <2>2, <2>3, Zenon DEF LoadsFollow, LoadsMatchGuards, On
<1> QED BY <1>1, <1>2, Zenon

RunningFollows == running \in Nat /\ RunningIsExact

(* A step that assigns nothing keeps the running count.                     *)
LEMMA RunningKept ==
  ASSUME PathTypes, RunningIsExact, NEW r \in Requests, NEW a, NEW o, Steps(r, a, o),
         running' = running, o.assigned <=> res[r].assigned
  PROVE  RunningFollows'
<1>1. Cardinality(Assigned') = Cardinality(Assigned)
  <2> HIDE DEF Assigned
  <2>1. /\ IsFiniteSet(Assigned) /\ \A y : y # r => (y \in Assigned <=> y \in Assigned')
        /\ r \in Assigned <=> r \in Assigned'
    BY AssignedMoves, Zenon
  <2> QED BY <2>1, CountMoves, Zenon
<1> QED BY <1>1, Zenon DEF RunningFollows, RunningIsExact, Assigned, PathTypes

(* A request that becomes assigned is counted once.                         *)
LEMMA RunningTaken ==
  ASSUME PathTypes, RunningIsExact, NEW r \in Requests, NEW a, NEW o, Steps(r, a, o),
         running' = running + 1, o.assigned, ~res[r].assigned
  PROVE  RunningFollows'
<1>1. Cardinality(Assigned') = Cardinality(Assigned) + 1
  <2> HIDE DEF Assigned
  <2>1. /\ IsFiniteSet(Assigned) /\ \A y : y # r => (y \in Assigned <=> y \in Assigned')
        /\ r \notin Assigned /\ r \in Assigned'
    BY AssignedMoves, Zenon
  <2> QED BY <2>1, CountMoves, Zenon
<1> QED BY <1>1 DEF RunningFollows, RunningIsExact, Assigned, PathTypes

(* A request that gives its assignment back is uncounted once.              *)
LEMMA RunningReleased ==
  ASSUME PathTypes, RunningIsExact, NEW r \in Requests, NEW a, NEW o, Steps(r, a, o),
         running' = NotRunning(r), ~o.assigned
  PROVE  RunningFollows'
<1>1. CASE ~res[r].assigned
  <2>1. running' = running
    BY <1>1, Zenon DEF NotRunning
  <2> QED BY <1>1, <2>1, RunningKept, Zenon
<1>2. CASE res[r].assigned
  <2>1. Cardinality(Assigned') = Cardinality(Assigned) - 1 /\ Cardinality(Assigned) > 0
    <3> HIDE DEF Assigned
    <3>1. /\ IsFiniteSet(Assigned) /\ \A y : y # r => (y \in Assigned <=> y \in Assigned')
          /\ r \in Assigned /\ r \notin Assigned'
      BY <1>2, AssignedMoves, Zenon
    <3> QED BY <3>1, CountMoves, Zenon
  <2>2. running' = Less(running) /\ running = Cardinality(Assigned)
    BY <1>2, Zenon DEF NotRunning, RunningIsExact, Assigned
  <2>3. running' = Cardinality(Assigned')
    BY <2>1, <2>2, Zenon DEF Less, PathTypes
  <2>4. running' \in Nat
    BY <2>2 DEF Less, PathTypes
  <2> QED BY <2>3, <2>4, Zenon DEF RunningFollows, RunningIsExact, Assigned
<1> QED BY <1>1, <1>2, Zenon

(* A step of one request keeps the invariant when what it leaves fits.      *)
LEMMA StepFits ==
  ASSUME PathInv, NEW r \in Requests, NEW a \in Places, NEW o \in Owned, NEW b \in Bodies,
         Steps(r, a, o), body' = [body EXCEPT ![r] = b], UNCHANGED <<ask, up>>,
         Fits(ask[r], a, o, b), LoadsFollow', RunningFollows'
  PROVE  PathInv'
<1>1. PathTypes'
  BY Zenon DEF PathInv, PathTypes, Steps, LoadsFollow, RunningFollows
<1>2. ASSUME NEW q \in Requests PROVE Fits(ask[q], at[q], res[q], body[q])'
  <2>1. CASE q = r
    <3>1. at'[q] = a /\ res'[q] = o /\ body'[q] = b /\ ask'[q] = ask[r]
      BY <2>1, Zenon DEF PathInv, PathTypes, Steps
    <3>2. Fits(ask'[q], at'[q], res'[q], body'[q])
      BY <3>1, Zenon
    <3> QED BY <3>2, Zenon DEF Fits, Ordered
  <2>2. CASE q # r
    <3>1. at'[q] = at[q] /\ res'[q] = res[q] /\ body'[q] = body[q] /\ ask'[q] = ask[q]
      BY <2>2, Zenon DEF PathInv, PathTypes, Steps
    <3>2. Fits(ask'[q], at'[q], res'[q], body'[q])
      BY <3>1, Zenon DEF PathInv
    <3> QED BY <3>2, Zenon DEF Fits, Ordered
  <2> QED BY <2>1, <2>2, Zenon
<1> QED BY <1>1, <1>2, Zenon DEF PathInv, LoadsFollow, RunningFollows
(* What the invariant says of one request.                                  *)
LEMMA Fitting ==
  ASSUME PathInv, NEW r \in Requests
  PROVE  /\ PathTypes /\ LoadsMatchGuards /\ RunningIsExact
         /\ ask[r] \in Kinds /\ at[r] \in Places /\ res[r] \in Owned /\ body[r] \in Bodies
         /\ Fits(ask[r], at[r], res[r], body[r])
BY Zenon DEF PathInv, PathTypes

(* The absent body is a body.                                               *)
LEMMA NoBodyIsOne == NoBody \in Bodies
BY Zenon DEF NoBody, Bodies

(* Steps that only move the request.                                        *)
LEMMA MoveKeeps ==
  ASSUME PathInv, NEW r \in Requests, NEW a \in Places, at' = [at EXCEPT ![r] = a],
         a.worker = at[r].worker, Fits(ask[r], a, res[r], body[r]),
         UNCHANGED <<ask, res, body, load, running, up>>
  PROVE  PathInv'
<1>1. Steps(r, a, res[r]) /\ body' = [body EXCEPT ![r] = body[r]]
  BY Zenon DEF Steps, PathInv, PathTypes
<1>2. LoadsFollow'
  <2>1. \A w \in Backends : Holding(at[r], res[r], w) <=> Holding(a, res[r], w)
    BY Zenon DEF Holding
  <2> QED BY <1>1, <2>1, Fitting, LoadKept, Zenon
<1>3. RunningFollows'
  BY <1>1, Fitting, RunningKept, Zenon
<1> QED BY <1>1, <1>2, <1>3, Fitting, StepFits, Zenon

(* A request moves to a place and everything else stays.                    *)
LEMMA MovesTo ==
  ASSUME PathTypes, NEW r \in Requests, NEW p \in PathPoints, Moves(r, p)
  PROVE  \E a \in Places : /\ at' = [at EXCEPT ![r] = a] /\ a.pc = p /\ a.status = at[r].status
                           /\ a.attempt = at[r].attempt /\ a.worker = at[r].worker
<1> DEFINE a == [at[r] EXCEPT !.pc = p]
<1>1. at[r] \in Places /\ at' = [at EXCEPT ![r] = a]
  BY Zenon DEF Moves, PathTypes
<1>2. /\ a \in Places /\ a.pc = p /\ a.attempt = at[r].attempt
      /\ a.worker = at[r].worker /\ a.status = at[r].status
  BY <1>1, Zenon DEF Places
<1> HIDE DEF a
<1> QED BY <1>1, <1>2, Zenon

(* A request takes an answer and everything else stays.                     *)
LEMMA AnswersWith ==
  ASSUME PathTypes, NEW r \in Requests, NEW s \in Statuses, Answer(r, s)
  PROVE  \E a \in Places : /\ at' = [at EXCEPT ![r] = a] /\ a.pc = "decide" /\ a.status = s
                           /\ a.attempt = at[r].attempt /\ a.worker = at[r].worker
<1> DEFINE a == [at[r] EXCEPT !.pc = "decide", !.status = s]
<1>1. at[r] \in Places /\ at' = [at EXCEPT ![r] = a]
  BY Zenon DEF Answer, PathTypes
<1>2. /\ a \in Places /\ a.pc = "decide" /\ a.attempt = at[r].attempt
      /\ a.worker = at[r].worker /\ a.status = s
  BY <1>1, Zenon DEF Places, PathPoints
<1> HIDE DEF a
<1> QED BY <1>1, <1>2, Zenon

(* Steps that give load, slot and completion back, and the activity too if  *)
(* it ends.                                                                 *)
LEMMA DropKeeps ==
  ASSUME PathInv, NEW r \in Requests, NEW a \in Places, NEW o \in Owned, NEW b \in Bodies,
         Steps(r, a, o), body' = [body EXCEPT ![r] = b], UNCHANGED <<ask, up>>,
         load' = ReleaseLoad(r), o.released, Fits(ask[r], a, o, b),
         \/ running' = running /\ (o.assigned <=> res[r].assigned)
         \/ running' = NotRunning(r) /\ ~o.assigned
  PROVE  PathInv'
<1>1. ~res[r].released => at[r].worker \in Backends
  BY Fitting, Zenon DEF Fits
<1>2. LoadsFollow'
  BY <1>1, Fitting, LoadReleased, Zenon
<1>3. RunningFollows'
  BY Fitting, RunningKept, RunningReleased, Zenon
<1> QED BY <1>2, <1>3, StepFits, Zenon

(* Steps that leave load and activity with the request.                     *)
LEMMA OwnKeeps ==
  ASSUME PathInv, NEW r \in Requests, NEW a \in Places, NEW o \in Owned, NEW b \in Bodies,
         Steps(r, a, o), body' = [body EXCEPT ![r] = b], UNCHANGED <<ask, up, load, running>>,
         a.worker = at[r].worker, o.counted <=> res[r].counted, o.released <=> res[r].released,
         o.assigned <=> res[r].assigned, Fits(ask[r], a, o, b)
  PROVE  PathInv'
<1>1. \A w \in Backends : Holding(at[r], res[r], w) <=> Holding(a, o, w)
  BY Zenon DEF Holding
<1>2. LoadsFollow'
  BY <1>1, Fitting, LoadKept, Zenon
<1>3. RunningFollows'
  BY Fitting, RunningKept, Zenon
<1> QED BY <1>2, <1>3, StepFits, Zenon

(* A request enters: it holds nothing but its place in the running gauge.    *)
LEMMA EnterStep ==
  ASSUME PathInv, NEW r \in Requests, Enter(r)
  PROVE  PathInv'
<1>1. PICK p \in {"attempt", "done"} : Moves(r, p)
  BY Zenon DEF Enter
<1>2. PICK a \in Places : /\ at' = [at EXCEPT ![r] = a] /\ a.pc = p /\ a.status = at[r].status
                          /\ a.attempt = at[r].attempt /\ a.worker = at[r].worker
  BY <1>1, MovesTo, Fitting, SMTT(30) DEF PathPoints
<1>3. at[r].pc = "start" /\ UNCHANGED <<ask, res, body, load, running, up>>
  BY Zenon DEF Enter
<1>4. Fits(ask[r], a, res[r], body[r])
  BY <1>1, <1>2, <1>3, Fitting, SMTT(30) DEF Fits, NoBody
<1> QED BY <1>2, <1>3, <1>4, MoveKeeps, Zenon

(* The program queue lets a request in, or refuses it.                       *)
LEMMA AcquireProgramStep ==
  ASSUME PathInv, NEW r \in Requests, AcquireProgram(r)
  PROVE  PathInv'
<1>1. CASE Moves(r, "select") /\ UNCHANGED res
  <2>1. PICK a \in Places : /\ at' = [at EXCEPT ![r] = a] /\ a.pc = "select"
                            /\ a.attempt = at[r].attempt /\ a.worker = at[r].worker
    BY <1>1, MovesTo, Fitting, SMTT(30) DEF PathPoints
  <2>2. Fits(ask[r], a, res[r], body[r])
    BY <2>1, Fitting, Zenon DEF Fits, AcquireProgram
  <2> QED BY <1>1, <2>1, <2>2, MoveKeeps, Zenon DEF AcquireProgram
<1>2. CASE Moves(r, "select") /\ res' = [res EXCEPT ![r].open = @ + 1]
  <2>1. PICK a \in Places : /\ at' = [at EXCEPT ![r] = a] /\ a.pc = "select"
                            /\ a.attempt = at[r].attempt /\ a.worker = at[r].worker
    BY <1>2, MovesTo, Fitting DEF PathPoints
  <2> DEFINE o == [res[r] EXCEPT !.open = @ + 1]
  <2>2. res[r] \in Owned /\ Steps(r, a, o)
    BY <1>2, <2>1, Fitting, Zenon DEF Steps
  <2>3. /\ o \in Owned /\ o.open = res[r].open + 1 /\ (o.counted <=> res[r].counted)
        /\ (o.released <=> res[r].released) /\ (o.assigned <=> res[r].assigned)
        /\ o.slot = res[r].slot
    BY <2>2 DEF Owned
  <2> HIDE DEF o
  <2>4. at[r].pc = "attempt" /\ UNCHANGED <<ask, body, load, running, up>>
    BY Zenon DEF AcquireProgram
  <2>5. Fits(ask[r], a, o, body[r])
    BY <2>1, <2>3, <2>4, Fitting DEF Fits, Ordered, NoBody
  <2>6. body' = [body EXCEPT ![r] = body[r]]
    BY <2>4, Zenon DEF PathInv, PathTypes
  <2> QED BY <2>1, <2>2, <2>3, <2>4, <2>5, <2>6, Fitting, OwnKeeps, Zenon
<1>3. ASSUME NEW s \in {"client", "server", "throttled"}, Answer(r, s), UNCHANGED res PROVE PathInv'
  <2>1. PICK a \in Places : /\ at' = [at EXCEPT ![r] = a] /\ a.pc = "decide" /\ a.status = s
                            /\ a.attempt = at[r].attempt /\ a.worker = at[r].worker
    BY <1>3, AnswersWith, Fitting DEF Statuses
  <2>2. at[r].pc = "attempt"
    BY Zenon DEF AcquireProgram
  <2>3. Fits(ask[r], a, res[r], body[r])
    BY <2>1, <2>2, Fitting, SMTT(30) DEF Fits, NoBody
  <2> QED BY <1>3, <2>1, <2>3, MoveKeeps, Zenon DEF AcquireProgram
<1> QED BY <1>1, <1>2, <1>3, Zenon DEF AcquireProgram

(* No worker is available: the attempt ends before it holds anything.        *)
LEMMA NoWorkerStep ==
  ASSUME PathInv, NEW r \in Requests, NoWorker(r)
  PROVE  PathInv'
<1>1. PICK a \in Places : /\ at' = [at EXCEPT ![r] = a] /\ a.pc = "decide" /\ a.status = "server"
                          /\ a.attempt = at[r].attempt /\ a.worker = at[r].worker
  BY AnswersWith, Fitting, Zenon DEF Statuses, NoWorker
<1> DEFINE o == FinishedOnce(res[r])
<1>2. /\ Steps(r, a, o) /\ at[r].pc = "select" /\ UNCHANGED <<ask, body, load, running, up>>
      /\ body' = [body EXCEPT ![r] = body[r]]
  BY <1>1, Fitting, Zenon DEF Steps, NoWorker, PathTypes
<1>3. /\ o \in Owned /\ (o.released <=> res[r].released) /\ (o.assigned <=> res[r].assigned)
      /\ (o.counted <=> res[r].counted) /\ o.open = Less(res[r].open) /\ o.slot = res[r].slot
  BY Fitting, OwnedFields, Zenon
<1> HIDE DEF o
<1>4. res[r].open \in Nat
  BY Fitting, Zenon DEF Owned
<1>5. Fits(ask[r], a, o, body[r])
  BY <1>1, <1>2, <1>3, <1>4, Fitting, SMTT(30) DEF Fits, NoBody, Less
<1> QED BY <1>1, <1>2, <1>3, <1>5, Fitting, OwnKeeps, Zenon

(* A worker is selected, and the load and the KV slot with it.               *)
LEMMA SelectStep ==
  ASSUME PathInv, NEW r \in Requests, NEW w \in Backends, Select(r, w)
  PROVE  PathInv'
<1> DEFINE a == [at[r] EXCEPT !.pc = "sent", !.worker = w]
           o == [res[r] EXCEPT !.counted = Counts(r), !.released = FALSE,
                               !.slot = IF ask[r].grpc THEN "prefill" ELSE "none",
                               !.assigned = ask[r].path # "proxy"]
<1>1. /\ Steps(r, a, o) /\ at[r].pc = "select" /\ UNCHANGED <<ask, body, up>>
      /\ body' = [body EXCEPT ![r] = body[r]]
  BY Fitting, Zenon DEF Steps, Select, PathTypes
<1>2. a \in Places /\ a.pc = "sent" /\ a.attempt = at[r].attempt /\ a.worker = w
  BY Fitting, Zenon DEF Places, PathPoints
<1>3. Counts(r) \in BOOLEAN
  BY Fitting, Zenon DEF Counts, Kinds
<1>4. o \in Owned
  BY <1>3, Fitting, ZenonT(30) DEF Owned
<1>5. /\ (o.counted <=> Counts(r)) /\ ~o.released /\ o.slot \in {"none", "prefill"} /\ o.open = res[r].open
      /\ (o.assigned <=> ask[r].path # "proxy")
  BY <1>3, Fitting, Zenon DEF Owned
<1> HIDE DEF a, o
<1>6. Fits(ask[r], a, o, body[r])
  BY <1>1, <1>2, <1>5, Fitting, SMTT(30) DEF Fits, NoBody
<1>7. res[r].released
  BY <1>1, Fitting, Zenon DEF Fits
<1>8. LoadsFollow'
  <2>1. \A v \in Backends : ~Holding(at[r], res[r], v)
    BY <1>7, Zenon DEF Holding
  <2>2. CASE Counts(r)
    <3>1. load' = OneMoreOn(w)
      BY <2>2, Zenon DEF Select, OneMoreOn
    <3>2. Takes(r, a, o, w)
      BY <1>2, <1>5, <2>1, <2>2, Zenon DEF Holding, Takes
    <3>3. PathTypes /\ LoadsMatchGuards /\ Steps(r, a, o)
      BY <1>1, Fitting, Zenon
    <3> QED BY <3>1, <3>2, <3>3, LoadTaken, Zenon
  <2>3. CASE ~Counts(r)
    <3>1. load' = load
      BY <2>3, Zenon DEF Select
    <3>2. \A v \in Backends : ~Holding(a, o, v)
      BY <1>5, <2>3, Zenon DEF Holding
    <3> QED BY <1>1, <2>1, <3>1, <3>2, Fitting, LoadKept, Zenon
  <2> QED BY <2>2, <2>3, Zenon
<1>9. RunningFollows'
  <2>1. CASE res[r].assigned \/ ask[r].path = "proxy"
    <3>1. running' = running
      BY <2>1, Zenon DEF Select, MarkAssigned
    <3>2. o.assigned <=> res[r].assigned
      BY <1>5, <2>1, Fitting, Zenon DEF Fits
    <3> QED BY <1>1, <3>1, <3>2, Fitting, RunningKept, Zenon
  <2>2. CASE ~res[r].assigned /\ ask[r].path # "proxy"
    <3>1. running' = running + 1
      BY <2>2, Zenon DEF Select, MarkAssigned
    <3>2. o.assigned
      BY <1>5, <2>2, Zenon
    <3> QED BY <1>1, <2>2, <3>1, <3>2, Fitting, RunningTaken, Zenon
  <2> QED BY <2>1, <2>2, Zenon
<1> QED BY <1>1, <1>2, <1>4, <1>6, <1>8, <1>9, Fitting, StepFits, Zenon

(* The first output of a worker releases what waited for it.                 *)
LEMMA FirstOutputStep ==
  ASSUME PathInv, NEW r \in Requests, FirstOutput(r)
  PROVE  PathInv'
<1> DEFINE o == Decoding(res[r])
<1>1. /\ Steps(r, at[r], o) /\ at[r].pc = "sent" /\ ~ask[r].stream
      /\ UNCHANGED <<ask, load, running, up>> /\ body' = [body EXCEPT ![r] = body[r]]
  BY Fitting, Zenon DEF Steps, FirstOutput, PathTypes
<1>2. /\ o \in Owned /\ (o.released <=> res[r].released) /\ (o.assigned <=> res[r].assigned)
      /\ (o.counted <=> res[r].counted) /\ o.open = res[r].open
  BY Fitting, OwnedFields, Zenon
<1> HIDE DEF o
<1>3. Fits(ask[r], at[r], o, body[r])
  BY <1>1, <1>2, Fitting, SMTT(30) DEF Fits, NoBody
<1> QED BY <1>1, <1>2, <1>3, Fitting, OwnKeeps, Zenon

(* What the end of an attempt drops.                                        *)
LEMMA DroppedFields ==
  ASSUME PathInv, NEW r \in Requests
  PROVE  /\ Dropped(r) \in Owned /\ Dropped(r).released /\ Dropped(r).open = 0
         /\ Dropped(r).slot \in {"none", "freed"} /\ (Dropped(r).assigned <=> res[r].assigned)
<1>1. res[r] \in Owned /\ res[r].open <= 1 /\ res[r].open \in Nat
  BY Fitting, Zenon DEF Fits, Owned
<1> DEFINE o == Released(res[r])
<1>2. /\ o \in Owned /\ o.released /\ (o.assigned <=> res[r].assigned) /\ o.open = res[r].open
      /\ o.slot \in {"none", "freed"}
  BY <1>1, OwnedFields, Zenon
<1>3. Dropped(r) = FinishedOnce(o)
  BY Zenon DEF Dropped
<1> HIDE DEF o
<1>4. /\ Dropped(r) \in Owned /\ Dropped(r).released /\ Dropped(r).open = Less(res[r].open)
      /\ Dropped(r).slot \in {"none", "freed"} /\ (Dropped(r).assigned <=> res[r].assigned)
  BY <1>2, <1>3, OwnedFields, SMTT(30)
<1> QED BY <1>1, <1>4, SMTT(30) DEF Less

(* An attempt fails and gives back what it held.                             *)
LEMMA EndAttemptStep ==
  ASSUME PathInv, NEW r \in Requests, NEW s \in Statuses, at[r].pc = "sent", EndAttempt(r, s)
  PROVE  PathInv'
<1>1. PICK a \in Places : /\ at' = [at EXCEPT ![r] = a] /\ a.pc = "decide" /\ a.status = s
                          /\ a.attempt = at[r].attempt /\ a.worker = at[r].worker
  BY AnswersWith, Fitting, Zenon DEF EndAttempt
<1> DEFINE o == Dropped(r)
<1>2. /\ Steps(r, a, o) /\ UNCHANGED <<ask, up, running>> /\ load' = ReleaseLoad(r)
      /\ body' = [body EXCEPT ![r] = body[r]]
  BY <1>1, Fitting, Zenon DEF Steps, EndAttempt, PathTypes
<1>3. /\ o \in Owned /\ o.released /\ o.open = 0 /\ o.slot \in {"none", "freed"}
      /\ (o.assigned <=> res[r].assigned)
  BY DroppedFields, Zenon
<1> HIDE DEF o
<1>4. Fits(ask[r], a, o, body[r])
  BY <1>1, <1>3, Fitting DEF Fits, NoBody
<1> QED BY <1>1, <1>2, <1>3, <1>4, Fitting, DropKeeps, Zenon

(* Steps that hand the attempt over to a response body.                     *)
LEMMA StreamKeeps ==
  ASSUME PathInv, NEW r \in Requests, NEW s \in Statuses, at[r].pc = "sent", Answer(r, s),
         res' = [res EXCEPT ![r] = res[r]] \/ res' = [res EXCEPT ![r] = FinishedOnce(res[r])],
         NEW b \in Bodies, body' = [body EXCEPT ![r] = b], UNCHANGED <<ask, load, running, up>>,
         b.live, b.first = 0 /\ b.output = 0 /\ b.emitted = 0 /\ b.consumed = 0 /\ b.pending = "none",
         ask[r].path = "typed" => ~Retryable(s), b.producer # "none" => ask[r].stream
  PROVE  PathInv'
<1>1. PICK a \in Places : /\ at' = [at EXCEPT ![r] = a] /\ a.pc = "decide" /\ a.status = s
                          /\ a.attempt = at[r].attempt /\ a.worker = at[r].worker
  BY AnswersWith, Fitting, Zenon
<1>2. PICK o \in Owned : /\ res' = [res EXCEPT ![r] = o] /\ (o.released <=> res[r].released)
                         /\ (o.assigned <=> res[r].assigned) /\ (o.counted <=> res[r].counted)
                         /\ o.open <= res[r].open /\ o.slot = res[r].slot
  <2>1. res[r] \in Owned /\ res[r].open \in Nat /\ res[r].open <= res[r].open
    BY Fitting, SMTT(30) DEF Owned
  <2>2. Less(res[r].open) <= res[r].open
    BY <2>1 DEF Less
  <2>3. CASE res' = [res EXCEPT ![r] = res[r]]
    BY <2>1, <2>3, Zenon
  <2>4. CASE res' = [res EXCEPT ![r] = FinishedOnce(res[r])]
    <3> DEFINE o == FinishedOnce(res[r])
    <3>1. /\ o \in Owned /\ (o.released <=> res[r].released) /\ (o.assigned <=> res[r].assigned)
          /\ (o.counted <=> res[r].counted) /\ o.open = Less(res[r].open) /\ o.slot = res[r].slot
      BY <2>1, OwnedFields, Zenon
    <3>2. res' = [res EXCEPT ![r] = o] /\ o.open <= res[r].open
      BY <2>2, <2>4, <3>1, Zenon
    <3> HIDE DEF o
    <3> QED BY <3>1, <3>2, Zenon
  <2> QED BY <2>3, <2>4, Zenon
<1>3. Steps(r, a, o)
  BY <1>1, <1>2, Zenon DEF Steps
<1>4. o.open \in Nat /\ res[r].open \in Nat
  BY Fitting, Zenon DEF Owned
<1>5. Fits(ask[r], a, o, b)
  BY <1>1, <1>2, <1>4, PathAssumption, Fitting, SMTT(30) DEF Fits, NoBody, Ordered
<1> QED BY <1>1, <1>2, <1>3, <1>5, Fitting, OwnKeeps, Zenon

(* A streamed HTTP answer starts its body.                                   *)
LEMMA StreamHttpStep ==
  ASSUME PathInv, NEW r \in Requests, NEW s \in Statuses, StreamHttp(r, s)
  PROVE  PathInv'
<1>1. /\ LiveBody \in Bodies /\ LiveBody.live /\ LiveBody.producer = "none" /\ LiveBody.first = 0
      /\ LiveBody.output = 0 /\ LiveBody.emitted = 0 /\ LiveBody.consumed = 0 /\ LiveBody.pending = "none"
  BY Zenon DEF LiveBody, NoBody, Bodies
<1>2. /\ at[r].pc = "sent" /\ ask[r].path = "typed" /\ ~Retryable(s) /\ Answer(r, s)
      /\ body' = [body EXCEPT ![r] = LiveBody] /\ UNCHANGED <<ask, load, running, up>>
  BY Zenon DEF StreamHttp, Sent, Streams
<1>3. res' = [res EXCEPT ![r] = res[r]] \/ res' = [res EXCEPT ![r] = FinishedOnce(res[r])]
  BY Zenon DEF StreamHttp
<1> HIDE DEF LiveBody
<1> QED BY <1>1, <1>2, <1>3, StreamKeeps, Zenon

(* A streamed gRPC answer starts its body.                                   *)
LEMMA StreamGrpcStep ==
  ASSUME PathInv, NEW r \in Requests, StreamGrpc(r)
  PROVE  PathInv'
<1> DEFINE b == [LiveBody EXCEPT !.producer = "running", !.waiter = TRUE]
<1>1. /\ b \in Bodies /\ b.live /\ b.first = 0 /\ b.output = 0 /\ b.emitted = 0 /\ b.consumed = 0
      /\ b.pending = "none"
  BY Zenon DEF LiveBody, NoBody, Bodies
<1>2. /\ at[r].pc = "sent" /\ ask[r].path = "typed" /\ ~Retryable("ok") /\ Answer(r, "ok")
      /\ body' = [body EXCEPT ![r] = b] /\ UNCHANGED <<ask, load, running, up>> /\ ask[r].stream
      /\ res' = [res EXCEPT ![r] = FinishedOnce(res[r])] /\ "ok" \in Statuses
  BY Zenon DEF StreamGrpc, Sent, Streams, Statuses
<1> HIDE DEF b
<1> QED BY <1>1, <1>2, StreamKeeps, Zenon

(* A transparently proxied answer is passed on.                              *)
LEMMA RespondTransparentStep ==
  ASSUME PathInv, NEW r \in Requests, NEW s \in Statuses, NEW answered \in BOOLEAN,
         RespondTransparent(r, s, answered)
  PROVE  PathInv'
<1> DEFINE active == answered /\ (ask[r].stream \/ ~Counts(r))
           b == [NoBody EXCEPT !.live = TRUE, !.active = active]
<1>1. active \in BOOLEAN
  BY Zenon
<1>2. /\ at[r].pc = "sent" /\ ask[r].path # "typed" /\ Answer(r, s)
      /\ body' = [body EXCEPT ![r] = b] /\ UNCHANGED <<ask, load, running, up>>
  BY Zenon DEF RespondTransparent, Transparent
<1>3. res' = [res EXCEPT ![r] = res[r]] \/ res' = [res EXCEPT ![r] = FinishedOnce(res[r])]
  <2>1. CASE s = "ok" /\ Counts(r) /\ ask[r].stream
    BY <2>1, Zenon DEF RespondTransparent
  <2>2. CASE ~(s = "ok" /\ Counts(r) /\ ask[r].stream)
    BY <2>2, Zenon DEF RespondTransparent
  <2> QED BY <2>1, <2>2, Zenon
<1> HIDE DEF active
<1>4. /\ b \in Bodies /\ b.live /\ b.first = 0 /\ b.output = 0 /\ b.emitted = 0 /\ b.consumed = 0
      /\ b.pending = "none" /\ b.producer = "none"
  BY <1>1, Zenon DEF NoBody, Bodies
<1> HIDE DEF b
<1> QED BY <1>2, <1>3, <1>4, StreamKeeps, Zenon

(* A transparently proxied request is refused.                               *)
LEMMA RefuseTransparentStep ==
  ASSUME PathInv, NEW r \in Requests, RefuseTransparent(r)
  PROVE  PathInv'
BY EndAttemptStep, Zenon DEF RefuseTransparent, EndAttempt, Statuses

(* A retry is planned, or the retries are used up.                           *)
LEMMA RetryStep ==
  ASSUME PathInv, NEW r \in Requests, Retry(r)
  PROVE  PathInv'
<1> DEFINE a == [Start EXCEPT !.pc = "backoff", !.attempt = at[r].attempt + 1]
           o == [Nothing EXCEPT !.assigned = res[r].assigned, !.open = res[r].open]
<1>1. /\ Steps(r, a, o) /\ at[r].pc = "decide" /\ UNCHANGED <<ask, body, load, running, up>>
      /\ body' = [body EXCEPT ![r] = body[r]]
  BY Fitting, Zenon DEF Steps, Retry, PathTypes
<1>2. /\ at[r].attempt \in Nat /\ res[r].open \in Nat /\ res[r].assigned \in BOOLEAN
      /\ res[r].released \in BOOLEAN
  BY Fitting, Zenon DEF Places, Owned
<1>3. a \in Places /\ a.pc = "backoff" /\ a.attempt = at[r].attempt + 1
  <2>1. Start \in Places /\ at[r].attempt + 1 \in Nat
    BY <1>2, SMTT(30) DEF Start, Places, PathPoints, Statuses
  <2> HIDE DEF Start
  <2> QED BY <2>1, Zenon DEF Places, PathPoints
<1>4. /\ o \in Owned /\ o.released /\ (o.assigned <=> res[r].assigned) /\ o.open = res[r].open
      /\ o.slot = "none" /\ ~o.counted
  BY <1>2, Zenon DEF Nothing, Owned
<1> HIDE DEF a, o
<1>5. ask[r].path = "typed" /\ Retryable(at[r].status) /\ ~(at[r].attempt + 1 >= AtLeastOne(MaxRetries))
  BY Zenon DEF Retry, Retries, LastAttempt
<1>6. res[r].released /\ res[r].open = 0 /\ body[r] = NoBody
  BY <1>1, <1>5, Fitting, Zenon DEF Fits
<1>7. AtLeastOne(MaxRetries) \in Nat
  BY PathAssumption, Zenon DEF AtLeastOne
<1>8. Fits(ask[r], a, o, body[r])
  <2>1. a.attempt < AtLeastOne(MaxRetries)
    BY <1>2, <1>3, <1>5, <1>7
  <2> QED BY <1>3, <1>4, <1>6, <2>1, Fitting DEF Fits, NoBody
<1>9. LoadsFollow'
  <2>1. \A w \in Backends : Holding(at[r], res[r], w) <=> Holding(a, o, w)
    BY <1>4, <1>6, Zenon DEF Holding
  <2> QED BY <1>1, <2>1, Fitting, LoadKept, Zenon
<1>10. RunningFollows'
  BY <1>1, <1>4, Fitting, RunningKept, Zenon
<1> QED BY <1>1, <1>3, <1>4, <1>8, <1>9, <1>10, Fitting, StepFits, Zenon

(* A request wakes from its backoff with nothing in hand.                    *)
LEMMA WakeStep ==
  ASSUME PathInv, NEW r \in Requests, Wake(r)
  PROVE  PathInv'
<1>1. PICK a \in Places : /\ at' = [at EXCEPT ![r] = a] /\ a.pc = "attempt"
                          /\ a.attempt = at[r].attempt /\ a.worker = at[r].worker
  BY MovesTo, Fitting, SMTT(30) DEF PathPoints, Wake
<1>2. Fits(ask[r], a, res[r], body[r])
  BY <1>1, Fitting, Zenon DEF Fits, Wake, NoBody
<1> QED BY <1>1, <1>2, MoveKeeps, Zenon DEF Wake

(* An unstreamed answer gives back load, slot and completion at once.        *)
LEMMA RespondStep ==
  ASSUME PathInv, NEW r \in Requests, Respond(r)
  PROVE  PathInv'
<1> DEFINE p == IF body[r].live THEN "body" ELSE "done"
<1>1. at[r].pc = "decide" /\ UNCHANGED <<ask, body, load, up>> /\ Moves(r, p) /\ p \in PathPoints
  BY Zenon DEF Respond, PathPoints
<1>2. PICK a \in Places : /\ at' = [at EXCEPT ![r] = a] /\ a.pc = p /\ a.status = at[r].status
                          /\ a.attempt = at[r].attempt /\ a.worker = at[r].worker
  BY <1>1, MovesTo, Fitting, Zenon
<1> DEFINE o == [res[r] EXCEPT !.assigned = @ /\ body[r].active]
<1>3. Steps(r, a, o) /\ body' = [body EXCEPT ![r] = body[r]]
  BY <1>1, <1>2, Fitting, Zenon DEF Steps, Respond, PathTypes
<1>4. (res[r].assigned /\ body[r].active) \in BOOLEAN
  BY Zenon
<1>5. /\ o \in Owned /\ (o.released <=> res[r].released) /\ o.open = res[r].open
      /\ o.slot = res[r].slot /\ (o.counted <=> res[r].counted)
      /\ (o.assigned <=> (res[r].assigned /\ body[r].active))
  BY <1>4, Fitting, Zenon DEF Owned
<1> HIDE DEF o
<1>6. Fits(ask[r], a, o, body[r])
  BY <1>1, <1>2, <1>5, Fitting DEF Fits, NoBody, Ordered
<1>7. LoadsFollow'
  <2>1. \A w \in Backends : Holding(at[r], res[r], w) <=> Holding(a, o, w)
    BY <1>2, <1>5, Zenon DEF Holding
  <2> QED BY <1>1, <1>3, <2>1, Fitting, LoadKept, Zenon
<1>8. RunningFollows'
  <2>1. CASE body[r].active
    <3>1. running' = running /\ (o.assigned <=> res[r].assigned)
      BY <1>5, <2>1, Zenon DEF Respond
    <3> QED BY <1>3, <3>1, Fitting, RunningKept, Zenon
  <2>2. CASE ~body[r].active
    <3>1. running' = NotRunning(r) /\ ~o.assigned
      BY <1>5, <2>2, Zenon DEF Respond
    <3> QED BY <1>3, <3>1, Fitting, RunningReleased, Zenon
  <2> QED BY <2>1, <2>2, Zenon
<1> QED BY <1>1, <1>2, <1>3, <1>5, <1>6, <1>7, <1>8, Fitting, StepFits, Zenon
(* Steps of the body that leave the request where it is.                    *)
LEMMA FrameKeeps ==
  ASSUME PathInv, NEW r \in Requests, NEW o \in Owned, NEW b \in Bodies,
         res' = [res EXCEPT ![r] = o], body' = [body EXCEPT ![r] = b],
         UNCHANGED <<ask, at, load, running, up>>, o.counted <=> res[r].counted,
         o.released <=> res[r].released, o.assigned <=> res[r].assigned,
         Fits(ask[r], at[r], o, b)
  PROVE  PathInv'
<1>1. Steps(r, at[r], o)
  BY Fitting, Zenon DEF Steps, PathTypes
<1> QED BY <1>1, Fitting, OwnKeeps, Zenon

(* A body with a running producer belongs to a request that has not ended.  *)
LEMMA RunningProducer ==
  ASSUME PathInv, NEW r \in Requests, body[r].producer = "running"
  PROVE  /\ body[r].live /\ Ordered(res[r], body[r]) /\ at[r].pc \in {"decide", "body"}
         /\ res' = res => res' = [res EXCEPT ![r] = res[r]]
<1>1. body[r] # NoBody
  BY SMTT(30) DEF NoBody
<1>2. at[r].pc \in {"decide", "body"}
  BY <1>1, Fitting, Zenon DEF Fits, Places, PathPoints
<1>3. body[r].live
  BY <1>1, <1>2, Fitting, Zenon DEF Fits
<1> QED BY <1>2, <1>3, Fitting, Zenon DEF Fits, PathTypes

(* A worker's output is published to the body.                               *)
LEMMA PublishOutputStep ==
  ASSUME PathInv, NEW r \in Requests, NEW generated \in BOOLEAN, PublishOutput(r, generated)
  PROVE  PathInv'
<1> DEFINE b0 == body[r]
           b == [b0 EXCEPT !.pending = IF generated THEN "output" ELSE "metadata",
                           !.first = IF generated THEN FirstPublished(b0) ELSE @]
<1>1. /\ b0.producer = "running" /\ b0.pending = "none" /\ b0.emitted < MaxFrames
      /\ body' = [body EXCEPT ![r] = b] /\ UNCHANGED <<ask, at, res, load, running, up>>
  BY Fitting, Zenon DEF PublishOutput, PathTypes
<1>2. b0 \in Bodies /\ b0.emitted \in Nat /\ b0.first \in Nat /\ b0.output \in Nat
  BY Fitting, Zenon DEF Bodies
<1>3. FirstPublished(b0) \in Nat
  BY <1>2 DEF FirstPublished
<1>4. /\ b \in Bodies /\ (b.live <=> b0.live) /\ b.producer = b0.producer /\ b.emitted = b0.emitted
      /\ b.output = b0.output /\ b.consumed = b0.consumed
      /\ b.pending = (IF generated THEN "output" ELSE "metadata")
      /\ b.first = (IF generated THEN FirstPublished(b0) ELSE b0.first)
  BY <1>2, <1>3, Zenon DEF Bodies
<1>5. /\ b0.live /\ Ordered(res[r], b0) /\ at[r].pc \in {"decide", "body"}
      /\ res' = [res EXCEPT ![r] = res[r]]
  BY <1>1, RunningProducer, Zenon
<1>6. b.first <= MaxFrames
  BY <1>1, <1>2, <1>4, Fitting, PathAssumption DEF Fits, FirstPublished
<1>7. Ordered(res[r], b)
  BY <1>1, <1>2, <1>4, <1>5 DEF Ordered, FirstPublished
<1> HIDE DEF b
<1>8. Fits(ask[r], at[r], res[r], b)
  BY <1>1, <1>4, <1>5, <1>6, <1>7, Fitting, Zenon DEF Fits
<1> QED BY <1>1, <1>4, <1>5, <1>8, Fitting, FrameKeeps, Zenon

(* A producer queues one more chunk.                                         *)
LEMMA EnqueueStep ==
  ASSUME PathInv, NEW r \in Requests, Enqueue(r)
  PROVE  PathInv'
<1> DEFINE b0 == body[r]
           n == b0.emitted + 1
           out == IF b0.pending = "output" /\ b0.output = 0 THEN b0.emitted + 1 ELSE b0.output
           b == [b0 EXCEPT !.emitted = n, !.pending = "none", !.output = out]
<1>1. /\ b0.producer = "running" /\ b0.pending # "none"
      /\ body' = [body EXCEPT ![r] = b] /\ UNCHANGED <<ask, at, res, load, running, up>>
  BY Fitting, Zenon DEF Enqueue, PathTypes
<1>2. b0 \in Bodies /\ b0.emitted \in Nat /\ b0.first \in Nat /\ b0.output \in Nat /\ b0.consumed \in Nat
  BY Fitting, Zenon DEF Bodies
<1>3. /\ b \in Bodies /\ (b.live <=> b0.live) /\ b.producer = b0.producer /\ b.emitted = n
      /\ b.consumed = b0.consumed /\ b.pending = "none" /\ b.first = b0.first /\ b.output = out
  <2>1. n \in Nat /\ out \in Nat
    BY <1>2, SMTT(30)
  <2> HIDE DEF n, out
  <2> QED BY <1>2, <2>1, Zenon DEF Bodies
<1>4. /\ b0.live /\ Ordered(res[r], b0) /\ at[r].pc \in {"decide", "body"}
      /\ res' = [res EXCEPT ![r] = res[r]]
  BY <1>1, RunningProducer, Zenon
<1> HIDE DEF b
<1>5. Ordered(res[r], b)
  BY <1>2, <1>3, <1>4, SMTT(30) DEF Ordered
<1>6. Fits(ask[r], at[r], res[r], b)
  BY <1>1, <1>3, <1>4, <1>5, Fitting, Zenon DEF Fits
<1> QED BY <1>1, <1>3, <1>4, <1>6, Fitting, FrameKeeps, Zenon

(* A producer ends its stream.                                               *)
LEMMA ProducerEndsStep ==
  ASSUME PathInv, NEW r \in Requests, ProducerEnds(r)
  PROVE  PathInv'
<1> DEFINE b0 == body[r]
           b == [b0 EXCEPT !.producer = "ended"]
<1>1. /\ b0.producer = "running"
      /\ body' = [body EXCEPT ![r] = b] /\ UNCHANGED <<ask, at, res, load, running, up>>
  BY Fitting, Zenon DEF ProducerEnds, PathTypes
<1>2. b0 \in Bodies
  BY Fitting, Zenon
<1>3. /\ b \in Bodies /\ (b.live <=> b0.live) /\ b.producer = "ended" /\ b.emitted = b0.emitted
      /\ b.consumed = b0.consumed /\ b.pending = b0.pending /\ b.first = b0.first /\ b.output = b0.output
  BY <1>2, Zenon DEF Bodies
<1>4. /\ b0.live /\ Ordered(res[r], b0) /\ at[r].pc \in {"decide", "body"}
      /\ res' = [res EXCEPT ![r] = res[r]]
  BY <1>1, RunningProducer, Zenon
<1> HIDE DEF b
<1>5. Fits(ask[r], at[r], res[r], b)
  BY <1>1, <1>3, <1>4, Fitting, Zenon DEF Fits, Ordered
<1> QED BY <1>1, <1>3, <1>4, <1>5, Fitting, FrameKeeps, Zenon

(* The task that waits for the end of a stream releases its worker.          *)
LEMMA WaiterReleasesStep ==
  ASSUME PathInv, NEW r \in Requests, WaiterReleases(r)
  PROVE  PathInv'
<1> DEFINE b0 == body[r]
           b == [b0 EXCEPT !.waiter = FALSE]
           o == Released(res[r])
<1>1. /\ b0.waiter /\ body' = [body EXCEPT ![r] = b] /\ UNCHANGED <<ask, at, running, up>>
      /\ load' = ReleaseLoad(r) /\ Steps(r, at[r], o)
  BY Fitting, Zenon DEF WaiterReleases, PathTypes, Steps
<1>2. b0 \in Bodies /\ b0 # NoBody
  BY <1>1, Fitting DEF NoBody
<1>3. /\ b \in Bodies /\ (b.live <=> b0.live) /\ b.producer = b0.producer /\ b.emitted = b0.emitted
      /\ b.consumed = b0.consumed /\ b.pending = b0.pending /\ b.first = b0.first /\ b.output = b0.output
  BY <1>2, Zenon DEF Bodies
<1>4. /\ o \in Owned /\ o.released /\ (o.assigned <=> res[r].assigned) /\ o.open = res[r].open
      /\ o.slot \in {"none", "freed"}
  BY Fitting, OwnedFields, Zenon
<1>5. at[r].pc \in {"decide", "body", "done"} /\ (at[r].pc # "done" => b0.live)
  BY <1>2, Fitting, Zenon DEF Fits, Places, PathPoints
<1> HIDE DEF b, o
<1>6. b0.live /\ b0.producer # "none" => Ordered(o, b)
  <2>1. ASSUME b0.live, b0.producer # "none" PROVE Ordered(o, b)
    <3>1. Ordered(res[r], b0) /\ at[r].pc # "done"
      BY <2>1, Fitting, Zenon DEF Fits
    <3>2. res[r].slot = "decode" => b0.output # 0 /\ b0.consumed >= b0.output
      BY <3>1, Zenon DEF Ordered
    <3> QED BY <1>3, <1>4, <3>1, Zenon DEF Ordered
  <2> QED BY <2>1, Zenon
<1>7. Fits(ask[r], at[r], o, b)
  BY <1>3, <1>4, <1>5, <1>6, Fitting, SMTT(30) DEF Fits
<1> QED BY <1>1, <1>3, <1>4, <1>7, Fitting, DropKeeps, Zenon

(* The client takes a frame of the body.                                     *)
LEMMA FrameStep ==
  ASSUME PathInv, NEW r \in Requests, Frame(r)
  PROVE  PathInv'
<1> DEFINE b0 == body[r]
           n == b0.consumed + 1
           b == [b0 EXCEPT !.consumed = n]
           o == IF OutputStarted(r) THEN Decoding(res[r]) ELSE res[r]
<1>1. /\ at[r].pc = "body" /\ b0.live /\ UNCHANGED <<ask, at, load, running, up>>
      /\ b0.producer # "none" => b0.consumed < b0.emitted
      /\ body' = [body EXCEPT ![r] = b] /\ res' = [res EXCEPT ![r] = o]
  BY Zenon DEF Frame
<1>2. b0 \in Bodies /\ b0.emitted \in Nat /\ b0.first \in Nat /\ b0.output \in Nat /\ b0.consumed \in Nat
  BY Fitting, Zenon DEF Bodies
<1>3. /\ b \in Bodies /\ (b.live <=> b0.live) /\ b.producer = b0.producer /\ b.emitted = b0.emitted
      /\ b.consumed = n /\ b.pending = b0.pending /\ b.first = b0.first /\ b.output = b0.output
  <2>1. n \in Nat
    BY <1>2, SMTT(30)
  <2> HIDE DEF n
  <2> QED BY <1>2, <2>1, Zenon DEF Bodies
<1>4. /\ o \in Owned /\ (o.released <=> res[r].released) /\ (o.assigned <=> res[r].assigned)
      /\ (o.counted <=> res[r].counted) /\ o.open = res[r].open
      /\ ~OutputStarted(r) => o.slot = res[r].slot
      /\ OutputStarted(r) => o.slot = IF res[r].slot = "prefill" THEN "decode" ELSE res[r].slot
  <2>1. CASE OutputStarted(r)
    <3>1. o = Decoding(res[r])
      BY <2>1, Zenon
    <3> HIDE DEF o
    <3> QED BY <2>1, <3>1, Fitting, OwnedFields, Zenon
  <2>2. CASE ~OutputStarted(r)
    <3>1. o = res[r]
      BY <2>2, Zenon
    <3> HIDE DEF o
    <3> QED BY <2>2, <3>1, Fitting, Zenon
  <2> QED BY <2>1, <2>2, Zenon
<1> HIDE DEF b, o
<1>5. ASSUME b0.producer # "none" PROVE Ordered(o, b)
  <2>1. Ordered(res[r], b0) /\ b0.consumed < b0.emitted
    BY <1>1, <1>5, Fitting, Zenon DEF Fits
  <2>2. OutputStarted(r) <=> b0.first # 0 /\ b0.consumed + 1 >= b0.first
    BY <1>5, Zenon DEF OutputStarted
  <2>3. CASE OutputStarted(r)
    <3>1. b0.output # 0 /\ n >= b0.output /\ b0.first = b0.output
      BY <1>2, <2>1, <2>2, <2>3, SMTT(30) DEF Ordered
    <3> QED BY <1>2, <1>3, <1>4, <2>1, <2>3, <3>1, SMTT(30) DEF Ordered
  <2>4. CASE ~OutputStarted(r)
    <3>1. ~(b0.output # 0 /\ n >= b0.output)
      BY <1>2, <2>1, <2>2, <2>4, Zenon DEF Ordered
    <3> QED BY <1>2, <1>3, <1>4, <2>1, <2>4, <3>1, SMTT(30) DEF Ordered
  <2> QED BY <2>3, <2>4, Zenon
<1>6. res[r].slot \in {"none", "freed"} => o.slot \in {"none", "freed"}
  BY <1>4, Zenon
<1>7. Fits(ask[r], at[r], o, b)
  BY <1>1, <1>3, <1>4, <1>5, <1>6, Fitting, Zenon DEF Fits
<1> QED BY <1>1, <1>3, <1>4, <1>7, Fitting, FrameKeeps, Zenon

(* What the end of a request drops.                                         *)
LEMMA EndFields ==
  ASSUME PathInv, NEW r \in Requests, NEW o, o = [Dropped(r) EXCEPT !.assigned = FALSE]
  PROVE  o \in Owned /\ o.released /\ o.open = 0 /\ o.slot \in {"none", "freed"} /\ ~o.assigned
BY DroppedFields, Zenon DEF Owned

(* The body ends and releases what it still holds.                           *)
LEMMA BodyEndsStep ==
  ASSUME PathInv, NEW r \in Requests, BodyEnds(r)
  PROVE  PathInv'
<1>1. PICK a \in Places : /\ at' = [at EXCEPT ![r] = a] /\ a.pc = "done"
                          /\ a.attempt = at[r].attempt /\ a.worker = at[r].worker
  BY MovesTo, Fitting DEF PathPoints, BodyEnds
<1>2. PICK o : o = [Dropped(r) EXCEPT !.assigned = FALSE]
  BY Zenon
<1> DEFINE b0 == body[r]
           b == [b0 EXCEPT !.live = FALSE]
<1>3. /\ Steps(r, a, o) /\ body' = [body EXCEPT ![r] = b] /\ b0.producer # "running"
      /\ UNCHANGED <<ask, up>> /\ load' = ReleaseLoad(r) /\ running' = NotRunning(r)
  BY <1>1, <1>2, Zenon DEF BodyEnds, Steps
<1>4. b \in Bodies /\ ~b.live /\ b.producer = b0.producer /\ b.first = b0.first
  BY Fitting, Zenon DEF Bodies
<1>5. o \in Owned /\ o.released /\ o.open = 0 /\ o.slot \in {"none", "freed"} /\ ~o.assigned
  BY <1>2, EndFields, Zenon
<1> HIDE DEF b
<1>6. Fits(ask[r], a, o, b)
  BY <1>1, <1>3, <1>4, <1>5, Fitting DEF Fits
<1> QED BY <1>3, <1>4, <1>5, <1>6, DropKeeps, Zenon

(* A client leaves in the middle of the body.                                *)
LEMMA DisconnectStep ==
  ASSUME PathInv, NEW r \in Requests, Disconnect(r)
  PROVE  PathInv'
<1>1. PICK a \in Places : /\ at' = [at EXCEPT ![r] = a] /\ a.pc = "done"
                          /\ a.attempt = at[r].attempt /\ a.worker = at[r].worker
  BY MovesTo, Fitting DEF PathPoints, Disconnect
<1>2. PICK o : o = [Dropped(r) EXCEPT !.assigned = FALSE]
  BY Zenon
<1> DEFINE b0 == body[r]
           p == IF b0.producer = "running" THEN "aborted" ELSE b0.producer
           b == [b0 EXCEPT !.live = FALSE, !.pending = "none", !.producer = p]
<1>3. /\ Steps(r, a, o) /\ UNCHANGED <<ask, up>> /\ load' = ReleaseLoad(r) /\ running' = NotRunning(r)
  BY <1>1, <1>2, Zenon DEF Disconnect, Steps
<1>4. body' = [body EXCEPT ![r] = b]
  BY Fitting, Zenon DEF Disconnect, PathTypes
<1>5. b \in Bodies /\ ~b.live /\ b.producer # "running" /\ b.first = b0.first
  <2>1. p \in {"none", "ended", "aborted"}
    BY Fitting, Zenon DEF Bodies
  <2> HIDE DEF p
  <2> QED BY <2>1, Fitting, Zenon DEF Bodies
<1>6. o \in Owned /\ o.released /\ o.open = 0 /\ o.slot \in {"none", "freed"} /\ ~o.assigned
  BY <1>2, EndFields, Zenon
<1> HIDE DEF b
<1>7. Fits(ask[r], a, o, b)
  BY <1>1, <1>5, <1>6, Fitting DEF Fits
<1> QED BY <1>3, <1>4, <1>5, <1>6, <1>7, DropKeeps, Zenon

(* No request holds anything at the start.                                   *)
LEMMA PathInitially == PathInit => PathInv
<1> SUFFICES ASSUME PathInit PROVE PathInv
  BY Zenon
<1>1. Start \in Places /\ Nothing \in Owned
  BY Zenon DEF Start, Places, PathPoints, Statuses, Nothing, Owned
<1>2. PathTypes
  BY <1>1, NoBodyIsOne, PathAssumption, Zenon DEF PathInit, PathTypes
<1>3. ASSUME NEW k PROVE Fits(k, Start, Nothing, NoBody)
  BY PathAssumption, SMTT(30) DEF Fits, Start, Nothing, NoBody, AtLeastOne
<1>4. \A r \in Requests : Fits(ask[r], at[r], res[r], body[r])
  BY <1>3, Zenon DEF PathInit
<1>5. \A w \in Backends : On(w) = {}
  BY Zenon DEF PathInit, On, Nothing
<1>6. Assigned = {}
  BY Zenon DEF PathInit, Assigned, Nothing
<1>7. LoadsMatchGuards
  BY <1>5, FS_EmptySet, Zenon DEF LoadsMatchGuards, On, PathInit
<1>8. RunningIsExact
  BY <1>6, FS_EmptySet, Zenon DEF RunningIsExact, Assigned, PathInit
<1> QED BY <1>2, <1>4, <1>7, <1>8, Zenon DEF PathInv

(* Every step of every request keeps the invariant.                          *)
LEMMA PathNextPreserves == PathInv /\ [PathNext]_pathVars => PathInv'
<1> SUFFICES ASSUME PathInv, [PathNext]_pathVars PROVE PathInv'
  BY Zenon
<1>1. CASE UNCHANGED pathVars
  BY <1>1, SMTT(30) DEF PathInv, pathVars, PathTypes, LoadsMatchGuards, RunningIsExact, Fits, Ordered
<1>2. CASE Availability
  <2>1. up' \subseteq Backends /\ UNCHANGED <<ask, at, res, body, load, running>>
    BY <1>2, Zenon DEF Availability, PathInv, PathTypes
  <2> QED BY <2>1, SMTT(30) DEF PathInv, PathTypes, LoadsMatchGuards, RunningIsExact, Fits, Ordered
<1>3. ASSUME NEW r \in Requests, AttemptStep(r) PROVE PathInv'
  <2>1. ASSUME NEW s \in Statuses, RespondHttp(r, s) \/ RespondGrpc(r, s) PROVE PathInv'
    BY <2>1, EndAttemptStep, Zenon DEF RespondHttp, RespondGrpc, Sent
  <2> QED BY <1>3, <2>1, EnterStep, AcquireProgramStep, NoWorkerStep, FirstOutputStep,
             RefuseTransparentStep, SelectStep, StreamHttpStep, StreamGrpcStep,
             RespondTransparentStep, RetryStep, WakeStep, RespondStep, Zenon DEF AttemptStep
<1>4. ASSUME NEW r \in Requests, BodyStep(r) PROVE PathInv'
  BY <1>4, PublishOutputStep, EnqueueStep, ProducerEndsStep, WaiterReleasesStep, FrameStep,
     BodyEndsStep, Zenon DEF BodyStep
<1>5. ASSUME NEW r \in Requests, Disconnect(r) PROVE PathInv'
  BY <1>5, DisconnectStep, Zenon
<1> QED BY <1>1, <1>2, <1>3, <1>4, <1>5, Zenon DEF PathNext
(* The invariant says what the run checks.                                  *)
LEMMA PathInvSuffices == PathInv => RequestsReleaseOnce
<1> SUFFICES ASSUME PathInv PROVE RequestsReleaseOnce
  BY Zenon
<1>1. ASSUME NEW S \in SUBSET Requests PROVE Cardinality(S) \in 0 .. Cardinality(Requests)
  <2>1. IsFiniteSet(S) /\ Cardinality(S) <= Cardinality(Requests)
    BY PathAssumption, FS_Subset, Zenon
  <2>2. Cardinality(S) \in Nat /\ Cardinality(Requests) \in Nat
    BY <2>1, PathAssumption, FS_CardinalityType, Zenon
  <2> QED BY <2>1, <2>2
<1>2. PathTypeOK
  <2>1. ASSUME NEW w \in Backends PROVE load[w] \in 0 .. Cardinality(Requests)
    <3>1. On(w) \in SUBSET Requests /\ load[w] = Cardinality(On(w))
      BY <2>1, Zenon DEF PathInv, LoadsMatchGuards, On
    <3> QED BY <1>1, <3>1, Zenon
  <2>2. Assigned \in SUBSET Requests /\ running = Cardinality(Assigned)
    BY Zenon DEF PathInv, RunningIsExact, Assigned
  <2>3. running \in 0 .. Cardinality(Requests)
    BY <1>1, <2>2, Zenon
  <2>4. \A r \in Requests : at[r].attempt < AtLeastOne(MaxRetries) /\ body[r].first <= MaxFrames
    BY Zenon DEF PathInv, Fits
  <2>5. load \in [Backends -> 0 .. Cardinality(Requests)]
    BY <2>1, Zenon DEF PathInv, PathTypes
  <2> QED BY <2>3, <2>4, <2>5, Zenon DEF PathTypeOK
<1>3. NothingOutlivesARequest
  BY Fitting, Zenon DEF NothingOutlivesARequest, Fits
<1>4. DecodeFollowsOutput
  <2>1. ASSUME NEW r \in Requests, body[r].producer # "none"
        PROVE  LET out == body[r].output # 0 /\ body[r].consumed >= body[r].output
               IN (res[r].slot = "decode" => out) /\ (out => res[r].slot # "prefill")
    <3>1. CASE body[r].live
      BY <2>1, <3>1, Fitting, Zenon DEF Fits, Ordered
    <3>2. CASE ~body[r].live
      <4>1. body[r] # NoBody
        BY <2>1, SMTT(30) DEF NoBody
      <4>2. at[r].pc = "done"
        BY <3>2, <4>1, Fitting, Zenon DEF Fits, Places, PathPoints
      <4>3. res[r].slot \in {"none", "freed"}
        BY <4>2, Fitting, Zenon DEF Fits
      <4> QED BY <4>3, Zenon
    <3> QED BY <3>1, <3>2, Zenon
  <2> QED BY <2>1, Zenon DEF DecodeFollowsOutput
<1> QED BY <1>2, <1>3, <1>4, Zenon DEF RequestsReleaseOnce, PathInv

(* RequestLoadGuard, ProgramCompletion and RequestActivity: for any         *)
(* requests and workers, what a request holds is given back once and when   *)
(* it is due, and every counter is the number of those that count.          *)
THEOREM RequestsGiveBack == PathSpec => []RequestsReleaseOnce
<1>1. PathSpec => []PathInv
  BY PathInitially, PathNextPreserves, PTL DEF PathSpec
<1> QED BY <1>1, PathInvSuffices, PTL

(* execute_response_with_retry: whatever the number of retries, one starts  *)
(* only from an attempt that owns nothing and has no response body.         *)
THEOREM RetriesOwnNothing == PathSpec => RetriesStartClean
<1> DEFINE Clean == \A r \in Requests : at'[r].attempt > at[r].attempt =>
                      res[r].released /\ res[r].open = 0 /\ body[r] = NoBody
<1>1. PathInv /\ [PathNext]_pathVars => [Clean]_pathVars
  <2> SUFFICES ASSUME PathInv, PathNext, NEW q \in Requests, at'[q].attempt > at[q].attempt
               PROVE  res[q].released /\ res[q].open = 0 /\ body[q] = NoBody
    BY Zenon
  <2>1. at[q] \in Places /\ at[q].attempt \in Nat /\ at[q].attempt # at'[q].attempt
    BY Fitting, SMTT(30) DEF Places
  <2>2. ASSUME NEW r \in Requests, NEW a \in Places, at' = [at EXCEPT ![r] = a],
               a.attempt = at[r].attempt
        PROVE  FALSE
    BY <2>1, <2>2, Zenon DEF PathInv, PathTypes
  <2>3. ASSUME at' = at PROVE FALSE
    BY <2>1, <2>3, Zenon
  <2>4. ASSUME NEW r \in Requests, NEW p \in PathPoints, Moves(r, p) PROVE FALSE
    BY <2>2, <2>4, MovesTo, Fitting, SMTT(30)
  <2>5. ASSUME NEW r \in Requests, NEW s \in Statuses, Answer(r, s) PROVE FALSE
    BY <2>2, <2>5, AnswersWith, Fitting, SMTT(30)
  <2>6. ASSUME NEW r \in Requests, NEW w \in Backends, Select(r, w) PROVE FALSE
    <3> DEFINE a == [at[r] EXCEPT !.pc = "sent", !.worker = w]
    <3>1. at' = [at EXCEPT ![r] = a]
      BY <2>6, Fitting, Zenon DEF Select, PathTypes
    <3>2. a \in Places /\ a.attempt = at[r].attempt
      BY Fitting, Zenon DEF Places, PathPoints
    <3> HIDE DEF a
    <3> QED BY <2>2, <3>1, <3>2, Zenon
  <2>7. PICK r \in Requests : Retry(r)
    <3>1. {"attempt", "select", "done", "body"} \subseteq PathPoints /\ Statuses = {"ok", "client", "throttled", "server", "fatal"}
      BY Zenon DEF PathPoints, Statuses
    <3>2. ASSUME NEW r \in Requests,
                 \/ Enter(r) \/ AcquireProgram(r) \/ NoWorker(r) \/ FirstOutput(r)
                 \/ RefuseTransparent(r) \/ StreamGrpc(r) \/ Wake(r) \/ Respond(r)
          PROVE  FALSE
      <4>1. ASSUME Enter(r) \/ Wake(r) PROVE FALSE
        BY <2>4, <3>1, <4>1, Zenon DEF Enter, Wake
      <4>2. ASSUME AcquireProgram(r) PROVE FALSE
        BY <2>4, <2>5, <3>1, <4>2, Zenon DEF AcquireProgram
      <4>3. ASSUME NoWorker(r) \/ RefuseTransparent(r) \/ StreamGrpc(r) PROVE FALSE
        BY <2>5, <3>1, <4>3, Zenon DEF NoWorker, RefuseTransparent, StreamGrpc
      <4>4. ASSUME FirstOutput(r) PROVE FALSE
        BY <2>3, <4>4, Zenon DEF FirstOutput
      <4>5. ASSUME Respond(r) PROVE FALSE
        BY <2>4, <3>1, <4>5, Zenon DEF Respond
      <4> QED BY <3>2, <4>1, <4>2, <4>3, <4>4, <4>5, Zenon
    <3>3. ASSUME NEW r \in Requests, NEW s \in Statuses, NEW y \in BOOLEAN,
                 \/ RespondHttp(r, s) \/ RespondGrpc(r, s) \/ StreamHttp(r, s)
                 \/ RespondTransparent(r, s, y)
          PROVE  FALSE
      BY <2>5, <3>3, Zenon DEF RespondHttp, RespondGrpc, EndAttempt, StreamHttp, RespondTransparent
    <3>4. ASSUME NEW r \in Requests, BodyStep(r) PROVE FALSE
      <4>1. ASSUME BodyEnds(r) PROVE FALSE
        BY <2>4, <3>1, <4>1, Zenon DEF BodyEnds
      <4>2. ASSUME ~BodyEnds(r) PROVE FALSE
        BY <2>3, <3>4, <4>2, Zenon DEF BodyStep, PublishOutput, Enqueue, ProducerEnds, WaiterReleases, Frame
      <4> QED BY <4>1, <4>2, Zenon
    <3>5. ASSUME NEW r \in Requests, Disconnect(r) PROVE FALSE
      BY <2>4, <3>1, <3>5, Zenon DEF Disconnect
    <3>6. ASSUME Availability PROVE FALSE
      BY <2>3, <3>6, Zenon DEF Availability
    <3> QED BY <2>6, <3>2, <3>3, <3>4, <3>5, <3>6, Zenon DEF PathNext, AttemptStep
  <2>8. q = r
    <3>1. q # r => at'[q] = at[q]
      BY <2>7, Fitting, Zenon DEF Retry, PathTypes
    <3> QED BY <2>1, <3>1, Zenon
  <2>9. at[q].pc = "decide" /\ ask[q].path = "typed" /\ Retryable(at[q].status)
    BY <2>7, <2>8, Zenon DEF Retry, Retries
  <2> QED BY <2>9, Fitting, Zenon DEF Fits
<1>2. PathSpec => []PathInv
  BY PathInitially, PathNextPreserves, PTL DEF PathSpec
<1> QED BY <1>1, <1>2, PTL DEF PathSpec, RetriesStartClean

-----------------------------------------------------------------------------
(* The references of the supervisor.                                        *)

TaskPoints == {"start", "take", "release", "drop", "discover", "acquire", "get", "track", "panicked"}

Counting == {"get", "track", "release", "panicked"}

Task == [calls : Seq(ManagementCalls), pc : TaskPoints, hold : Nat, late : BOOLEAN]

Supervisor == [workers : [Urls -> Nat], refs : Nat, indexer : Nat, made : Nat, leaked : Nat,
               raced : BOOLEAN]

(* Where a task is determines its call.                                     *)
TaskFits(t) ==
  /\ t.pc # "start" => t.calls # <<>>
  /\ t.pc \in {"discover", "acquire", "get", "track"} => Head(t.calls).op = "add"
  /\ t.pc = "track" => t.hold # 0

(* An add past the removal of the old entry finds an entry of its URL only  *)
(* when another add has recorded it meanwhile.                              *)
Adding(t) == t.pc \in TaskPoints \ {"start", "take"} /\ Head(t.calls).op = "add"

Forewarned(w, t) == Adding(t) /\ w[Head(t.calls).url] # 0 => t.late

HeldUrls(w) == {u \in Urls : w[u] # 0}
Owing(ts) == {c \in Tasks : ts[c].pc \in Counting}

SupInvariant ==
  /\ sup \in Supervisor /\ tasks \in [Tasks -> Task]
  /\ \A c \in Tasks : TaskFits(tasks[c]) /\ Forewarned(sup.workers, tasks[c])
  /\ sup.refs = Cardinality(HeldUrls(sup.workers)) + sup.leaked + Cardinality(Owing(tasks))

(* What a step of one task owes: the references, entries and lost entries   *)
(* before and after differ by what the task counts for before and after.    *)
Owes(t) == IF t.pc \in Counting THEN 1 ELSE 0
Has(w, u) == IF w[u] # 0 THEN 1 ELSE 0

(* The counts after a step of task c on URL u.                              *)
LEMMA CountsMove ==
  ASSUME NEW ts \in [Tasks -> Task], NEW qs \in [Tasks -> Task], NEW c \in Tasks,
         \A d \in Tasks : d # c => qs[d].pc = ts[d].pc
  PROVE  /\ Cardinality(Owing(ts)) \in Nat /\ Cardinality(Owing(qs)) \in Nat
         /\ Cardinality(Owing(qs)) + Owes(ts[c]) = Cardinality(Owing(ts)) + Owes(qs[c])
         /\ Owes(ts[c]) <= Cardinality(Owing(ts))
<1>1. IsFiniteSet(Owing(ts)) /\ IsFiniteSet(Owing(qs))
  BY TaskAssumption, FS_Subset, Zenon DEF Owing
<1>2. \A d : d # c => (d \in Owing(ts) <=> d \in Owing(qs))
  BY Zenon DEF Owing
<1>3. /\ c \in Owing(ts) <=> ts[c].pc \in Counting
      /\ c \in Owing(qs) <=> qs[c].pc \in Counting
  BY Zenon DEF Owing
<1>4. PICK S : S = Owing(ts)
  BY Zenon
<1>5. PICK T : T = Owing(qs)
  BY Zenon
<1>6. /\ Cardinality(S) \in Nat
      /\ (c \in S <=> c \in T) => Cardinality(T) = Cardinality(S)
      /\ c \notin S /\ c \in T => Cardinality(T) = Cardinality(S) + 1
      /\ c \in S /\ c \notin T => Cardinality(T) = Cardinality(S) - 1 /\ Cardinality(S) > 0
  BY <1>1, <1>2, <1>4, <1>5, CountMoves, Zenon
<1>7. c \in S => Cardinality(S) > 0
  <2> SUFFICES ASSUME c \in S PROVE Cardinality(S) > 0
    BY Zenon
  <2>1. IsFiniteSet(S) /\ S # {}
    BY <1>1, <1>4, Zenon
  <2> QED
    BY <1>6, <2>1, FS_EmptySet
<1>8. Cardinality(T) \in Nat
  BY <1>1, <1>5, FS_CardinalityType, Zenon
<1> QED
  BY <1>3, <1>4, <1>5, <1>6, <1>7, <1>8 DEF Owes

(* The entries after a step on URL u.                                       *)
LEMMA UrlsMove ==
  ASSUME NEW v \in [Urls -> Nat], NEW w \in [Urls -> Nat], NEW u \in Urls,
         \A x \in Urls : x # u => w[x] = v[x]
  PROVE  /\ Cardinality(HeldUrls(v)) \in Nat /\ Cardinality(HeldUrls(w)) \in Nat
         /\ Cardinality(HeldUrls(w)) + Has(v, u) = Cardinality(HeldUrls(v)) + Has(w, u)
<1>1. IsFiniteSet(HeldUrls(v)) /\ IsFiniteSet(HeldUrls(w))
  BY TaskAssumption, FS_Subset, Zenon DEF HeldUrls
<1>2. \A x : x # u => (x \in HeldUrls(v) <=> x \in HeldUrls(w))
  BY Zenon DEF HeldUrls
<1>3. /\ u \in HeldUrls(v) <=> v[u] # 0
      /\ u \in HeldUrls(w) <=> w[u] # 0
  BY Zenon DEF HeldUrls
<1>4. PICK S : S = HeldUrls(v)
  BY Zenon
<1>5. PICK T : T = HeldUrls(w)
  BY Zenon
<1>6. /\ Cardinality(S) \in Nat
      /\ (u \in S <=> u \in T) => Cardinality(T) = Cardinality(S)
      /\ u \notin S /\ u \in T => Cardinality(T) = Cardinality(S) + 1
      /\ u \in S /\ u \notin T => Cardinality(T) = Cardinality(S) - 1 /\ Cardinality(S) > 0
  BY <1>1, <1>2, <1>4, <1>5, CountMoves, Zenon
<1>8. Cardinality(T) \in Nat
  BY <1>1, <1>5, FS_CardinalityType, Zenon
<1> QED
  BY <1>3, <1>4, <1>5, <1>6, <1>8 DEF Has

(* The arithmetic of a step: references, entries, tasks that owe one.       *)
Balance(r, r2, h, h2, l, l2, n, n2, o, o2, e, e2) ==
  /\ r \in Nat /\ r2 \in Nat /\ h \in Nat /\ h2 \in Nat /\ l \in Nat /\ l2 \in Nat
  /\ n \in Nat /\ n2 \in Nat /\ o \in Nat /\ o2 \in Nat /\ e \in Nat /\ e2 \in Nat
  /\ r = h + l + n /\ h2 + e = h + e2 /\ n2 + o = n + o2 /\ r2 + o + e + l = r + o2 + e2 + l2

(* A balanced step keeps the references equal to entries, lost entries and  *)
(* tasks that owe one.                                                      *)
LEMMA Balances ==
  ASSUME NEW r, NEW r2, NEW h, NEW h2, NEW l, NEW l2, NEW n, NEW n2, NEW o, NEW o2, NEW e, NEW e2,
         Balance(r, r2, h, h2, l, l2, n, n2, o, o2, e, e2)
  PROVE  r2 = h2 + l2 + n2
BY SMT DEF Balance

(* A step of one task keeps the invariant when the task fits its new point, *)
(* and it accounts for the references it takes or leaves.                   *)
LEMMA TaskSteps ==
  ASSUME SupInvariant, NEW c \in Tasks, NEW u \in Urls,
         NEW s \in Supervisor, NEW q \in [Tasks -> Task], sup' = s, tasks' = q,
         \A x \in Urls : x # u => s.workers[x] = sup.workers[x],
         \A d \in Tasks : d # c => q[d].pc = tasks[d].pc /\ TaskFits(q[d]),
         \A d \in Tasks : Forewarned(s.workers, q[d]),
         TaskFits(q[c]),
         s.refs + Owes(tasks[c]) + Has(sup.workers, u) + sup.leaked
           = sup.refs + Owes(q[c]) + Has(s.workers, u) + s.leaked
  PROVE  SupInvariant'
<1>1. sup.workers \in [Urls -> Nat] /\ s.workers \in [Urls -> Nat]
  BY Zenon DEF SupInvariant, Supervisor
<1>2. /\ Cardinality(HeldUrls(sup.workers)) \in Nat /\ Cardinality(HeldUrls(s.workers)) \in Nat
      /\ Cardinality(HeldUrls(s.workers)) + Has(sup.workers, u)
           = Cardinality(HeldUrls(sup.workers)) + Has(s.workers, u)
  BY <1>1, UrlsMove, Zenon
<1>3. /\ Cardinality(Owing(tasks)) \in Nat /\ Cardinality(Owing(q)) \in Nat
      /\ Cardinality(Owing(q)) + Owes(tasks[c]) = Cardinality(Owing(tasks)) + Owes(q[c])
  BY CountsMove, Zenon DEF SupInvariant
<1>4. /\ sup.refs = Cardinality(HeldUrls(sup.workers)) + sup.leaked + Cardinality(Owing(tasks))
      /\ sup.refs \in Nat /\ sup.leaked \in Nat /\ s.refs \in Nat /\ s.leaked \in Nat
  BY Zenon DEF SupInvariant, Supervisor
<1>5. /\ Owes(tasks[c]) \in Nat /\ Owes(q[c]) \in Nat
      /\ Has(sup.workers, u) \in Nat /\ Has(s.workers, u) \in Nat
  BY Zenon DEF Owes, Has
<1>6. s.refs = Cardinality(HeldUrls(s.workers)) + s.leaked + Cardinality(Owing(q))
  <2>1. Balance(sup.refs, s.refs, Cardinality(HeldUrls(sup.workers)), Cardinality(HeldUrls(s.workers)),
                sup.leaked, s.leaked, Cardinality(Owing(tasks)), Cardinality(Owing(q)),
                Owes(tasks[c]), Owes(q[c]), Has(sup.workers, u), Has(s.workers, u))
    BY <1>2, <1>3, <1>4, <1>5, Zenon DEF Balance
  <2> QED
    BY <2>1, Balances, SMT
<1>7. \A d \in Tasks : TaskFits(q[d])
  BY Zenon
<1> QED
  BY <1>6, <1>7, Zenon DEF SupInvariant

(* The call of a task that has one.                                         *)
LEMMA CallOf ==
  ASSUME NEW t \in Task, t.calls # <<>>
  PROVE  Head(t.calls) \in ManagementCalls /\ Head(t.calls).url \in Urls
<1>1. PICK s \in Seq(ManagementCalls) : s = t.calls
  BY Zenon DEF Task
<1>2. Head(s) \in ManagementCalls
  BY <1>1
<1> QED
  BY <1>1, <1>2, Zenon DEF ManagementCalls

(* The same for a step that leaves the other tasks alone and adds no entry. *)
LEMMA TaskMoves ==
  ASSUME SupInvariant, NEW c \in Tasks, NEW u \in Urls, NEW s \in Supervisor, sup' = s,
         tasks' \in [Tasks -> Task], \A d \in Tasks : d # c => tasks'[d] = tasks[d],
         \A x \in Urls : x # u => s.workers[x] = sup.workers[x],
         s.workers[u] = sup.workers[u] \/ s.workers[u] = 0,
         TaskFits(tasks'[c]), Forewarned(s.workers, tasks'[c]),
         s.refs + Owes(tasks[c]) + Has(sup.workers, u) + sup.leaked
           = sup.refs + Owes(tasks'[c]) + Has(s.workers, u) + s.leaked
  PROVE  SupInvariant'
<1>1. PICK q \in [Tasks -> Task] : q = tasks'
  BY Zenon
<1>2. \A d \in Tasks : d # c => q[d].pc = tasks[d].pc /\ TaskFits(q[d])
  BY <1>1, Zenon DEF SupInvariant
<1>3. ASSUME NEW d \in Tasks PROVE Forewarned(s.workers, q[d])
  <2>1. CASE d = c
    BY <1>1, <2>1, Zenon
  <2>2. CASE d # c
    <3>1. q[d] = tasks[d] /\ Forewarned(sup.workers, tasks[d]) /\ TaskFits(tasks[d]) /\ tasks[d] \in Task
      BY <1>1, <2>2, Zenon DEF SupInvariant
    <3>2. Adding(tasks[d]) => Head(tasks[d].calls).url \in Urls
      BY <3>1, CallOf, Zenon DEF Adding, TaskFits
    <3>3. \A x \in Urls : s.workers[x] # 0 => sup.workers[x] # 0
      BY Zenon
    <3> QED
      BY <3>1, <3>2, <3>3 DEF Forewarned
  <2> QED
    BY <2>1, <2>2, Zenon
<1>4. TaskFits(q[c])
  BY <1>1, Zenon
<1>5. s.refs + Owes(tasks[c]) + Has(sup.workers, u) + sup.leaked
        = sup.refs + Owes(q[c]) + Has(s.workers, u) + s.leaked
  BY <1>1, Zenon
<1>6. tasks' = q
  BY <1>1, Zenon
<1> HIDE <1>1
<1> QED
  BY <1>2, <1>3, <1>4, <1>5, <1>6, TaskSteps

(* A task goes on in its call, or ends it.                                  *)
LEMMA Goes ==
  ASSUME SupInvariant, NEW c \in Tasks, NEW pc \in TaskPoints, To(c, pc)
  PROVE  /\ tasks' \in [Tasks -> Task] /\ \A d \in Tasks : d # c => tasks'[d] = tasks[d]
         /\ tasks'[c].pc = pc /\ tasks'[c].calls = tasks[c].calls
         /\ tasks'[c].hold = tasks[c].hold /\ tasks'[c].late = tasks[c].late
BY Zenon DEF SupInvariant, To, Task

(* A task that ends its call is at the start of the next.                   *)
LEMMA Ends ==
  ASSUME SupInvariant, NEW c \in Tasks, tasks[c].calls # <<>>, Finish(c)
  PROVE  /\ tasks' \in [Tasks -> Task] /\ \A d \in Tasks : d # c => tasks'[d] = tasks[d]
         /\ tasks'[c].pc = "start"
<1>1. Tail(tasks[c].calls) \in Seq(ManagementCalls)
  BY DEF SupInvariant, Task
<1>2. Over(tasks[c]) \in Task /\ Over(tasks[c]).pc = "start"
  BY <1>1, Zenon DEF Over, Task, TaskPoints
<1> QED
  BY <1>2, Zenon DEF SupInvariant, Finish

(* After the removal the rest of an add goes on without an entry.           *)
LEMMA EndsRemoval ==
  ASSUME SupInvariant, NEW c \in Tasks, tasks[c].calls # <<>>, AfterRemoval(c),
         NEW w, Op(c).op = "add" /\ w[Op(c).url] # 0 => tasks[c].late
  PROVE  /\ tasks' \in [Tasks -> Task] /\ \A d \in Tasks : d # c => tasks'[d] = tasks[d]
         /\ Owes(tasks'[c]) = 0 /\ TaskFits(tasks'[c]) /\ Forewarned(w, tasks'[c])
<1>1. CASE Op(c).op = "add"
  <2>1. To(c, "discover") /\ "discover" \in TaskPoints
    BY <1>1, Zenon DEF AfterRemoval, TaskPoints
  <2>2. /\ tasks' \in [Tasks -> Task] /\ \A d \in Tasks : d # c => tasks'[d] = tasks[d]
        /\ tasks'[c].pc = "discover" /\ tasks'[c].calls = tasks[c].calls
        /\ tasks'[c].late = tasks[c].late
    BY <2>1, Goes, Zenon
  <2> QED
    BY <1>1, <2>2, Zenon DEF TaskFits, Owes, Counting, Forewarned, Adding, Op
<1>2. CASE Op(c).op # "add"
  <2>1. Finish(c)
    BY <1>2, Zenon DEF AfterRemoval
  <2>2. /\ tasks' \in [Tasks -> Task] /\ \A d \in Tasks : d # c => tasks'[d] = tasks[d]
        /\ tasks'[c].pc = "start"
    BY <2>1, Ends, Zenon
  <2> QED
    BY <2>2, Zenon DEF TaskFits, Owes, Counting, Forewarned, Adding
<1> QED
  BY <1>1, <1>2, Zenon

(* The call of a task that has one, and the types around it.                *)
LEMMA OpIs ==
  ASSUME SupInvariant, NEW c \in Tasks, tasks[c].calls # <<>>
  PROVE  /\ Op(c) \in ManagementCalls /\ Op(c).url \in Urls /\ sup \in Supervisor
         /\ sup.workers[Op(c).url] \in Nat /\ sup.refs \in Nat /\ sup.leaked \in Nat
         /\ tasks[c] \in Task /\ TaskFits(tasks[c]) /\ Forewarned(sup.workers, tasks[c])
<1>1. tasks[c] \in Task /\ sup \in Supervisor /\ TaskFits(tasks[c]) /\ Forewarned(sup.workers, tasks[c])
  BY Zenon DEF SupInvariant
<1>2. Op(c) \in ManagementCalls /\ Op(c).url \in Urls
  BY <1>1, CallOf, Zenon DEF Op
<1> QED
  BY <1>1, <1>2, Zenon DEF Supervisor

(* Every action keeps the invariant.                                        *)
LEMMA StepStart ==
  ASSUME SupInvariant, NEW c \in Tasks, OnWorkerAdded(c) \/ OnWorkerRemoved(c)
  PROVE  SupInvariant'
<1>1. /\ tasks[c].calls # <<>> /\ tasks[c].pc = "start" /\ sup' = sup
  BY Zenon DEF OnWorkerAdded, OnWorkerRemoved, Ready
<1>2. PICK pc \in {"take", "discover"} :
        To(c, pc) /\ (pc = "discover" => sup.workers[Op(c).url] = 0 /\ Op(c).op = "add")
  BY Zenon DEF OnWorkerAdded, OnWorkerRemoved, AlreadyTracked
<1>3. pc \in TaskPoints
  BY Zenon DEF TaskPoints
<1>4. /\ tasks' \in [Tasks -> Task] /\ \A d \in Tasks : d # c => tasks'[d] = tasks[d]
      /\ tasks'[c].pc = pc /\ tasks'[c].calls = tasks[c].calls /\ tasks'[c].late = tasks[c].late
  BY <1>2, <1>3, Goes, Zenon
<1>5. TaskFits(tasks'[c]) /\ Forewarned(sup.workers, tasks'[c])
  BY <1>1, <1>2, <1>4, Zenon DEF TaskFits, Forewarned, Adding, Op
<1>6. Owes(tasks'[c]) = Owes(tasks[c])
  BY <1>1, <1>4, Zenon DEF Owes, Counting
<1>7. PICK u \in Urls : u = Op(c).url
  BY <1>1, OpIs, Zenon
<1>8. sup.refs + Owes(tasks[c]) + Has(sup.workers, u) + sup.leaked
        = sup.refs + Owes(tasks'[c]) + Has(sup.workers, u) + sup.leaked
  BY <1>6, Zenon
<1>9. sup \in Supervisor
  BY Zenon DEF SupInvariant
<1> QED
  BY <1>1, <1>4, <1>5, <1>8, <1>9, TaskMoves, Zenon

(* The entry is taken out: the task now owes its reference.                 *)
LEMMA StepTake ==
  ASSUME SupInvariant, NEW c \in Tasks, TakeEntry(c)
  PROVE  SupInvariant'
<1>1. tasks[c].calls # <<>> /\ tasks[c].pc = "take"
  BY Zenon DEF TakeEntry, Ready
<1>2. PICK u \in Urls : u = Op(c).url
  BY <1>1, OpIs, Zenon
<1>3. /\ sup \in Supervisor /\ sup.workers[u] \in Nat /\ sup.refs \in Nat /\ sup.leaked \in Nat
      /\ TaskFits(tasks[c])
  BY <1>1, <1>2, OpIs, Zenon
<1>4. Owes(tasks[c]) = 0
  BY <1>1, Zenon DEF Owes, Counting
<1>5. CASE sup.workers[u] = 0
  <2>1. AfterRemoval(c) /\ sup' = sup
    BY <1>2, <1>5, Zenon DEF TakeEntry
  <2>2. /\ tasks' \in [Tasks -> Task] /\ \A d \in Tasks : d # c => tasks'[d] = tasks[d]
        /\ Owes(tasks'[c]) = 0 /\ TaskFits(tasks'[c]) /\ Forewarned(sup.workers, tasks'[c])
    BY <1>1, <1>2, <1>5, <2>1, EndsRemoval, Zenon
  <2>3. sup.refs + Owes(tasks[c]) + Has(sup.workers, u) + sup.leaked
          = sup.refs + Owes(tasks'[c]) + Has(sup.workers, u) + sup.leaked
    BY <1>4, <2>2, Zenon
  <2> QED
    BY <1>3, <2>1, <2>2, <2>3, TaskMoves, Zenon
<1>6. CASE sup.workers[u] # 0
  <2>1. To(c, "release") /\ "release" \in TaskPoints
    BY <1>2, <1>6, Zenon DEF TakeEntry, TaskPoints
  <2>2. PICK s : s = [sup EXCEPT !.workers[u] = 0]
    BY Zenon
  <2>3. sup' = s
    BY <1>2, <1>6, <2>2, Zenon DEF TakeEntry
  <2>4. /\ s \in Supervisor /\ s.refs = sup.refs /\ s.leaked = sup.leaked
        /\ s.workers[u] = 0 /\ \A x \in Urls : x # u => s.workers[x] = sup.workers[x]
    BY <1>3, <2>2, Zenon DEF Supervisor
  <2>5. /\ tasks' \in [Tasks -> Task] /\ \A d \in Tasks : d # c => tasks'[d] = tasks[d]
        /\ tasks'[c].pc = "release" /\ tasks'[c].calls = tasks[c].calls
    BY <2>1, Goes, Zenon
  <2>6. TaskFits(tasks'[c]) /\ Forewarned(s.workers, tasks'[c])
    BY <1>1, <1>2, <2>4, <2>5, Zenon DEF TaskFits, Forewarned, Op
  <2>7. Owes(tasks'[c]) = 1 /\ Has(sup.workers, u) = 1 /\ Has(s.workers, u) = 0
    BY <1>6, <2>4, <2>5, Zenon DEF Owes, Counting, Has
  <2>8. s.refs + Owes(tasks[c]) + Has(sup.workers, u) + sup.leaked
          = sup.refs + Owes(tasks'[c]) + Has(s.workers, u) + s.leaked
    BY <1>3, <1>4, <2>4, <2>7
  <2> QED
    BY <2>3, <2>4, <2>5, <2>6, <2>8, TaskMoves, Zenon
<1> QED
  BY <1>5, <1>6, Zenon

(* The reference is given back.                                             *)
LEMMA StepRelease ==
  ASSUME SupInvariant, NEW c \in Tasks, Release(c)
  PROVE  SupInvariant'
<1>1. tasks[c].calls # <<>> /\ tasks[c].pc = "release"
  BY Zenon DEF Release, Ready
<1>2. PICK u \in Urls : u = Op(c).url
  BY <1>1, OpIs, Zenon
<1>3. /\ sup \in Supervisor /\ sup.refs \in Nat /\ sup.leaked \in Nat
      /\ TaskFits(tasks[c]) /\ Forewarned(sup.workers, tasks[c]) /\ tasks[c] \in Task
  BY <1>1, OpIs, Zenon
<1>4. Owes(tasks[c]) = 1
  BY <1>1, Zenon DEF Owes, Counting
<1>5. sup.refs > 0
  <2>1. Owes(tasks[c]) <= Cardinality(Owing(tasks)) /\ Cardinality(Owing(tasks)) \in Nat
    BY CountsMove, Zenon DEF SupInvariant
  <2>2. Cardinality(HeldUrls(sup.workers)) \in Nat
    BY TaskAssumption, FS_Subset, FS_CardinalityType, Zenon DEF HeldUrls
  <2>3. sup.refs = Cardinality(HeldUrls(sup.workers)) + sup.leaked + Cardinality(Owing(tasks))
    BY Zenon DEF SupInvariant
  <2> QED
    BY <1>3, <1>4, <2>1, <2>2, <2>3
<1>6. PICK s : s = [sup EXCEPT !.refs = sup.refs - 1]
  BY Zenon
<1>7. sup' = s
  BY <1>5, <1>6, Zenon DEF Release
<1>8. s \in Supervisor /\ s.refs = sup.refs - 1 /\ s.leaked = sup.leaked /\ s.workers = sup.workers
  BY <1>3, <1>5, <1>6 DEF Supervisor
<1>9. Op(c).op = "add" /\ sup.workers[Op(c).url] # 0 => tasks[c].late
  BY <1>1, <1>3, Zenon DEF Forewarned, Adding, Op, TaskPoints
<1>10. /\ tasks' \in [Tasks -> Task] /\ \A d \in Tasks : d # c => tasks'[d] = tasks[d]
       /\ Owes(tasks'[c]) = 0 /\ TaskFits(tasks'[c]) /\ Forewarned(sup.workers, tasks'[c])
  <2>1. CASE sup.refs = 1
    <3>1. To(c, "drop") /\ "drop" \in TaskPoints
      BY <2>1, Zenon DEF Release, TaskPoints
    <3>2. /\ tasks' \in [Tasks -> Task] /\ \A d \in Tasks : d # c => tasks'[d] = tasks[d]
          /\ tasks'[c].pc = "drop" /\ tasks'[c].calls = tasks[c].calls /\ tasks'[c].late = tasks[c].late
      BY <3>1, Goes, Zenon
    <3> QED
      BY <1>1, <1>9, <3>2, Zenon DEF Owes, Counting, TaskFits, Forewarned, Adding, Op
  <2>2. CASE sup.refs # 1
    <3>1. AfterRemoval(c)
      BY <2>2, Zenon DEF Release
    <3> QED
      BY <1>1, <1>9, <3>1, EndsRemoval, Zenon
  <2> QED
    BY <2>1, <2>2, Zenon
<1>11. s.refs + Owes(tasks[c]) + Has(sup.workers, u) + sup.leaked
         = sup.refs + Owes(tasks'[c]) + Has(s.workers, u) + s.leaked
  <2>1. Has(sup.workers, u) \in Nat
    BY Zenon DEF Has
  <2> QED
    BY <1>3, <1>4, <1>8, <1>10, <2>1
<1>12. \A x \in Urls : s.workers[x] = sup.workers[x]
  BY <1>8, Zenon
<1>13. Forewarned(s.workers, tasks'[c])
  BY <1>8, <1>10, Zenon
<1> QED
  BY <1>7, <1>8, <1>10, <1>11, <1>12, <1>13, TaskMoves, Zenon

(* Dropping the indexer touches no reference.                               *)
LEMMA StepDropIndexer ==
  ASSUME SupInvariant, NEW c \in Tasks, DropIndexer(c)
  PROVE  SupInvariant'
<1>1. tasks[c].calls # <<>> /\ tasks[c].pc = "drop"
  BY Zenon DEF DropIndexer, Ready
<1>2. PICK u \in Urls : u = Op(c).url
  BY <1>1, OpIs, Zenon
<1>3. /\ sup \in Supervisor /\ sup.refs \in Nat /\ sup.leaked \in Nat
      /\ TaskFits(tasks[c]) /\ Forewarned(sup.workers, tasks[c]) /\ tasks[c] \in Task
  BY <1>1, OpIs, Zenon
<1>4. Owes(tasks[c]) = 0
  BY <1>1, Zenon DEF Owes, Counting
<1>5. PICK l \in BOOLEAN : l = (sup.raced \/ sup.refs > 0)
  BY Zenon
<1>6. PICK s : s = [sup EXCEPT !.indexer = 0, !.raced = l]
  BY Zenon
<1>7. sup' = s /\ AfterRemoval(c)
  BY <1>5, <1>6, Zenon DEF DropIndexer
<1>8. s \in Supervisor /\ s.refs = sup.refs /\ s.leaked = sup.leaked /\ s.workers = sup.workers
  BY <1>3, <1>6, Zenon DEF Supervisor
<1>9. Op(c).op = "add" /\ s.workers[Op(c).url] # 0 => tasks[c].late
  BY <1>1, <1>3, <1>8, Zenon DEF Forewarned, Adding, Op, TaskPoints
<1>10. /\ tasks' \in [Tasks -> Task] /\ \A d \in Tasks : d # c => tasks'[d] = tasks[d]
       /\ Owes(tasks'[c]) = 0 /\ TaskFits(tasks'[c]) /\ Forewarned(s.workers, tasks'[c])
  BY <1>1, <1>7, <1>9, EndsRemoval, Zenon
<1>11. s.refs + Owes(tasks[c]) + Has(sup.workers, u) + sup.leaked
         = sup.refs + Owes(tasks'[c]) + Has(s.workers, u) + s.leaked
  BY <1>4, <1>8, <1>10, Zenon
<1>12. \A x \in Urls : s.workers[x] = sup.workers[x]
  BY <1>8, Zenon
<1> QED
  BY <1>7, <1>8, <1>10, <1>11, <1>12, TaskMoves, Zenon

(* Discovery only decides how the call goes on.                             *)
LEMMA StepDiscover ==
  ASSUME SupInvariant, NEW c \in Tasks, Discover(c)
  PROVE  SupInvariant'
<1>1. tasks[c].calls # <<>> /\ tasks[c].pc = "discover" /\ sup' = sup
  BY Zenon DEF Discover, Ready
<1>2. PICK u \in Urls : u = Op(c).url
  BY <1>1, OpIs, Zenon
<1>3. /\ sup \in Supervisor /\ TaskFits(tasks[c]) /\ Forewarned(sup.workers, tasks[c])
  BY <1>1, OpIs, Zenon
<1>4. Owes(tasks[c]) = 0
  BY <1>1, Zenon DEF Owes, Counting
<1>5. /\ tasks' \in [Tasks -> Task] /\ \A d \in Tasks : d # c => tasks'[d] = tasks[d]
      /\ Owes(tasks'[c]) = 0 /\ TaskFits(tasks'[c]) /\ Forewarned(sup.workers, tasks'[c])
  <2>1. CASE To(c, "acquire")
    <3>1. "acquire" \in TaskPoints
      BY Zenon DEF TaskPoints
    <3>2. /\ tasks' \in [Tasks -> Task] /\ \A d \in Tasks : d # c => tasks'[d] = tasks[d]
          /\ tasks'[c].pc = "acquire" /\ tasks'[c].calls = tasks[c].calls /\ tasks'[c].late = tasks[c].late
      BY <2>1, <3>1, Goes, Zenon
    <3> QED
      BY <1>1, <1>3, <3>2, Zenon DEF Owes, Counting, TaskFits, Forewarned, Adding, TaskPoints
  <2>2. CASE Finish(c)
    <3>1. /\ tasks' \in [Tasks -> Task] /\ \A d \in Tasks : d # c => tasks'[d] = tasks[d]
          /\ tasks'[c].pc = "start"
      BY <1>1, <2>2, Ends, Zenon
    <3> QED
      BY <3>1, Zenon DEF Owes, Counting, TaskFits, Forewarned, Adding
  <2> QED
    BY <2>1, <2>2, Zenon DEF Discover
<1>6. sup.refs + Owes(tasks[c]) + Has(sup.workers, u) + sup.leaked
         = sup.refs + Owes(tasks'[c]) + Has(sup.workers, u) + sup.leaked
  BY <1>4, <1>5, Zenon
<1> QED
  BY <1>1, <1>3, <1>5, <1>6, TaskMoves, Zenon

(* A reference is counted before the indexer exists: the task owes it.      *)
LEMMA StepAcquire ==
  ASSUME SupInvariant, NEW c \in Tasks, Acquire(c)
  PROVE  SupInvariant'
<1>1. tasks[c].calls # <<>> /\ tasks[c].pc = "acquire"
  BY Zenon DEF Acquire, Ready
<1>2. PICK u \in Urls : u = Op(c).url
  BY <1>1, OpIs, Zenon
<1>3. /\ sup \in Supervisor /\ sup.refs \in Nat /\ sup.leaked \in Nat
      /\ TaskFits(tasks[c]) /\ Forewarned(sup.workers, tasks[c])
  BY <1>1, OpIs, Zenon
<1>4. PICK s : s = sup'
  BY Zenon
<1>5. s \in Supervisor /\ s.refs = sup.refs + 1 /\ s.leaked = sup.leaked /\ s.workers = sup.workers
  <2>1. PICK m \in Nat : m = sup.made + 1
    BY <1>3 DEF Supervisor
  <2>2. PICK n \in Nat : n = sup.refs + 1 /\ (sup.refs = 0 => n = 1)
    BY <1>3
  <2>3. s = [sup EXCEPT !.refs = n, !.made = m, !.indexer = m] \/ s = [sup EXCEPT !.refs = n]
    BY <1>3, <1>4, <2>1, <2>2, Zenon DEF Acquire, Supervisor
  <2> HIDE <1>4
  <2> QED
    BY <1>3, <2>2, <2>3, Zenon DEF Supervisor
<1>6. "get" \in TaskPoints /\ To(c, "get")
  BY Zenon DEF TaskPoints, Acquire
<1>7. /\ tasks' \in [Tasks -> Task] /\ \A d \in Tasks : d # c => tasks'[d] = tasks[d]
      /\ tasks'[c].pc = "get" /\ tasks'[c].calls = tasks[c].calls /\ tasks'[c].late = tasks[c].late
  BY <1>6, Goes, Zenon
<1>8. Owes(tasks[c]) = 0 /\ Owes(tasks'[c]) = 1
  BY <1>1, <1>7, Zenon DEF Owes, Counting
<1>9. TaskFits(tasks'[c]) /\ Forewarned(s.workers, tasks'[c])
  BY <1>1, <1>3, <1>5, <1>7, Zenon DEF TaskFits, Forewarned, Adding, TaskPoints
<1>10. s.refs + Owes(tasks[c]) + Has(sup.workers, u) + sup.leaked
         = sup.refs + Owes(tasks'[c]) + Has(s.workers, u) + s.leaked
  <2>1. Has(sup.workers, u) \in Nat
    BY Zenon DEF Has
  <2> QED
    BY <1>3, <1>5, <1>8, <2>1
<1>11. \A x \in Urls : s.workers[x] = sup.workers[x]
  BY <1>5, Zenon
<1>12. sup' = s
  BY <1>4, Zenon
<1> HIDE <1>4
<1> QED
  BY <1>5, <1>7, <1>9, <1>10, <1>11, <1>12, TaskMoves, Zenon

(* When the indexer is gone, the panicked task keeps the reference.         *)
LEMMA StepGet ==
  ASSUME SupInvariant, NEW c \in Tasks, GetIndexer(c)
  PROVE  SupInvariant'
<1>1. tasks[c].calls # <<>> /\ tasks[c].pc = "get" /\ sup' = sup
  BY Zenon DEF GetIndexer, Ready
<1>2. PICK u \in Urls : u = Op(c).url
  BY <1>1, OpIs, Zenon
<1>3. /\ sup \in Supervisor /\ TaskFits(tasks[c]) /\ Forewarned(sup.workers, tasks[c])
      /\ sup.indexer \in Nat /\ tasks[c] \in Task /\ tasks \in [Tasks -> Task]
  BY <1>1, OpIs, Zenon DEF Supervisor, SupInvariant
<1>4. PICK t : t = [tasks[c] EXCEPT !.pc = IF sup.indexer = 0 THEN "panicked" ELSE "track",
                                    !.hold = sup.indexer]
  BY Zenon
<1>5. /\ t \in Task /\ t.calls = tasks[c].calls /\ t.late = tasks[c].late /\ t.hold = sup.indexer
      /\ t.pc = IF sup.indexer = 0 THEN "panicked" ELSE "track"
  BY <1>3, <1>4, Zenon DEF Task, TaskPoints
<1>6. tasks' = [tasks EXCEPT ![c] = t]
  BY <1>3, <1>4, Zenon DEF GetIndexer
<1>7. /\ tasks' \in [Tasks -> Task] /\ \A d \in Tasks : d # c => tasks'[d] = tasks[d]
      /\ tasks'[c] = t
  BY <1>3, <1>5, <1>6, Zenon
<1>8. Owes(tasks[c]) = 1 /\ Owes(tasks'[c]) = 1
  BY <1>1, <1>5, <1>7, Zenon DEF Owes, Counting
<1>9. TaskFits(t) /\ Forewarned(sup.workers, t)
  BY <1>1, <1>3, <1>5, Zenon DEF TaskFits, Forewarned, Adding, TaskPoints
<1>10. sup.refs + Owes(tasks[c]) + Has(sup.workers, u) + sup.leaked
         = sup.refs + Owes(tasks'[c]) + Has(sup.workers, u) + sup.leaked
  BY <1>8, Zenon
<1> QED
  BY <1>1, <1>3, <1>7, <1>9, <1>10, TaskMoves, Zenon

(* Track overwrites an entry only when the task was late, and every add of  *)
(* the URL under way is late from then on.                                  *)
LEMMA StepTrack ==
  ASSUME SupInvariant, NEW c \in Tasks, Track(c)
  PROVE  SupInvariant'
<1>1. tasks[c].calls # <<>> /\ tasks[c].pc = "track"
  BY Zenon DEF Track, Ready
<1>2. PICK u \in Urls : u = Op(c).url
  BY <1>1, OpIs, Zenon
<1>3. /\ sup \in Supervisor /\ sup.refs \in Nat /\ sup.leaked \in Nat /\ sup.workers[u] \in Nat
      /\ TaskFits(tasks[c]) /\ Forewarned(sup.workers, tasks[c]) /\ tasks[c] \in Task
      /\ Op(c) \in ManagementCalls
  BY <1>1, <1>2, OpIs, Zenon
<1>4. tasks[c].hold # 0 /\ tasks[c].hold \in Nat /\ Op(c).op = "add"
  BY <1>1, <1>3, Zenon DEF TaskFits, Task, Op
<1>5. sup.workers[u] # 0 => tasks[c].late
  BY <1>1, <1>2, <1>3, <1>4, Zenon DEF Forewarned, Adding, Op, TaskPoints
<1>6. PICK k \in Nat : k = IF sup.workers[u] # 0 THEN sup.leaked + 1 ELSE sup.leaked
  BY <1>3
<1>7. PICK s : s = [sup EXCEPT !.workers[u] = tasks[c].hold, !.leaked = k]
  BY Zenon
<1>8. sup' = s
  BY <1>2, <1>5, <1>6, <1>7, Zenon DEF Track
<1>9. /\ s \in Supervisor /\ s.refs = sup.refs /\ s.leaked = k
      /\ s.workers[u] = tasks[c].hold /\ \A x \in Urls : x # u => s.workers[x] = sup.workers[x]
  BY <1>3, <1>4, <1>7, Zenon DEF Supervisor
<1>10. PICK q : q = tasks'
  BY Zenon
<1>11. /\ q = [d \in Tasks |-> IF d = c THEN Over(tasks[d])
                 ELSE [tasks[d] EXCEPT !.late = tasks[d].late \/ (tasks[d].pc # "start" /\ Op(d) = Op(c))]]
  BY <1>10, Zenon DEF Track
<1>12. q[c] = Over(tasks[c])
  BY <1>11, Zenon
<1>13. Over(tasks[c]) \in Task /\ Over(tasks[c]).pc = "start"
  BY <1>1, <1>3 DEF Over, Task, TaskPoints
<1>14. ASSUME NEW d \in Tasks, d # c
       PROVE  /\ q[d] \in Task /\ q[d].pc = tasks[d].pc /\ q[d].calls = tasks[d].calls
              /\ q[d].hold = tasks[d].hold
              /\ q[d].late <=> tasks[d].late \/ (tasks[d].pc # "start" /\ Op(d) = Op(c))
  <2>1. PICK l \in BOOLEAN : l <=> tasks[d].late \/ (tasks[d].pc # "start" /\ Op(d) = Op(c))
    BY Zenon
  <2>2. tasks[d] \in Task /\ tasks[d].late \in BOOLEAN
    BY Zenon DEF SupInvariant, Task
  <2>3. l = (tasks[d].late \/ (tasks[d].pc # "start" /\ Op(d) = Op(c)))
    BY <2>1, <2>2, Zenon
  <2>4. q[d] = [tasks[d] EXCEPT !.late = l]
    BY <1>11, <1>14, <2>3, Zenon
  <2>5. [tasks[d] EXCEPT !.late = l] \in Task
    BY <2>1, <2>2, Zenon DEF Task
  <2> QED
    BY <2>1, <2>2, <2>4, <2>5, Zenon DEF Task
<1>15. q \in [Tasks -> Task]
  <2>1. \A d \in Tasks : q[d] \in Task
    BY <1>12, <1>13, <1>14, Zenon
  <2>2. q = [d \in Tasks |-> q[d]]
    BY <1>11, Zenon
  <2> QED
    BY <2>1, <2>2, Zenon
<1>16. ASSUME NEW d \in Tasks PROVE TaskFits(q[d]) /\ Forewarned(s.workers, q[d])
  <2>1. CASE d = c
    BY <1>12, <1>13, <2>1, Zenon DEF TaskFits, Forewarned, Adding
  <2>2. CASE d # c
    <3>1. TaskFits(tasks[d]) /\ Forewarned(sup.workers, tasks[d]) /\ tasks[d] \in Task
      BY Zenon DEF SupInvariant
    <3>2. TaskFits(q[d])
      BY <1>14, <2>2, <3>1, Zenon DEF TaskFits
    <3>3. ASSUME Adding(q[d]), s.workers[Head(q[d].calls).url] # 0 PROVE q[d].late
      <4>1. Adding(tasks[d]) /\ tasks[d].pc # "start" /\ q[d].calls = tasks[d].calls
        BY <1>14, <2>2, <3>3, Zenon DEF Adding
      <4>2. Op(d) \in ManagementCalls /\ Op(d).op = "add" /\ Op(d) = Head(q[d].calls)
        BY <3>1, <4>1 DEF TaskFits, Task, Op, Adding
      <4>3. CASE Op(d).url = u
        <5>1. Op(d) = Op(c)
          BY <1>2, <1>3, <1>4, <4>2, <4>3 DEF ManagementCalls
        <5> QED
          BY <1>14, <2>2, <4>1, <5>1, Zenon
      <4>4. CASE Op(d).url # u
        <5>1. sup.workers[Op(d).url] # 0
          BY <1>9, <3>3, <4>2, <4>4, Zenon DEF ManagementCalls
        <5>2. tasks[d].late
          BY <3>1, <4>1, <4>2, <5>1, Zenon DEF Forewarned
        <5> QED
          BY <1>14, <2>2, <5>2, Zenon
      <4> QED
        BY <4>3, <4>4, Zenon
    <3> QED
      BY <3>2, <3>3, Zenon DEF Forewarned
  <2> QED
    BY <2>1, <2>2, Zenon
<1>17. Owes(tasks[c]) = 1 /\ Owes(q[c]) = 0 /\ Has(s.workers, u) = 1
  BY <1>1, <1>4, <1>9, <1>12, <1>13, Zenon DEF Owes, Counting, Has
<1>18. s.refs + Owes(tasks[c]) + Has(sup.workers, u) + sup.leaked
         = sup.refs + Owes(q[c]) + Has(s.workers, u) + s.leaked
  BY <1>3, <1>6, <1>9, <1>17 DEF Has
<1>19. \A d \in Tasks : d # c => q[d].pc = tasks[d].pc /\ TaskFits(q[d])
  BY <1>14, <1>16, Zenon
<1>20. tasks' = q
  BY <1>10, Zenon
<1> HIDE <1>10
<1> QED
  BY <1>8, <1>9, <1>15, <1>16, <1>18, <1>19, <1>20, TaskSteps

(* No worker, no task in a call and no reference.                           *)
LEMMA SupStarts == SupInit => SupInvariant
<1> SUFFICES ASSUME SupInit PROVE SupInvariant
  BY Zenon
<1>1. PICK plan \in CallPlans :
        tasks = [c \in Tasks |-> [calls |-> plan[c], pc |-> "start", hold |-> 0, late |-> FALSE]]
  BY Zenon DEF SupInit
<1>2. plan \in [Tasks -> Seq(ManagementCalls)]
  BY TaskAssumption, Zenon
<1>3. /\ tasks \in [Tasks -> Task] /\ \A c \in Tasks : tasks[c].pc = "start"
  BY <1>1, <1>2, Zenon DEF Task, TaskPoints
<1>4. /\ sup \in Supervisor /\ sup.refs = 0 /\ sup.leaked = 0 /\ \A u \in Urls : sup.workers[u] = 0
  BY Zenon DEF SupInit, Supervisor
<1>5. HeldUrls(sup.workers) = {} /\ Owing(tasks) = {}
  BY <1>3, <1>4, Zenon DEF HeldUrls, Owing, Counting
<1>6. Cardinality({}) = 0
  BY FS_EmptySet, Zenon
<1>7. sup.refs = Cardinality(HeldUrls(sup.workers)) + sup.leaked + Cardinality(Owing(tasks))
  BY <1>4, <1>5, <1>6
<1>8. \A c \in Tasks : TaskFits(tasks[c]) /\ Forewarned(sup.workers, tasks[c])
  BY <1>3, Zenon DEF TaskFits, Forewarned, Adding
<1> QED
  BY <1>3, <1>4, <1>7, <1>8, Zenon DEF SupInvariant

(* Every step of the supervisor keeps the invariant.                        *)
LEMMA SupSteps == SupInvariant /\ [SupNext]_supVars => SupInvariant'
<1> SUFFICES ASSUME SupInvariant, [SupNext]_supVars PROVE SupInvariant'
  BY Zenon
<1>1. CASE SupNext
  <2>1. PICK c \in Tasks : TaskStep(c)
    BY <1>1, Zenon DEF SupNext
  <2> QED
    BY <2>1, StepStart, StepTake, StepRelease, StepDropIndexer, StepDiscover, StepAcquire, StepGet, StepTrack, Zenon
    DEF TaskStep
<1>2. CASE UNCHANGED supVars
  BY <1>2, Zenon DEF supVars, SupInvariant
<1> QED
  BY <1>1, <1>2, Zenon

(* The expectation of acquire_identity, and what became of it.              *)
Expected(s) == s.refs > 0 /\ s.indexer = 0 => s.raced

PanicInv == Expected(sup) /\ \A c \in Tasks : tasks[c].pc = "panicked" => sup.raced

(* A call that counts for a reference finds the count above zero.           *)
LEMMA OwingIsCounted ==
  ASSUME SupInvariant, NEW c \in Tasks, tasks[c].pc \in Counting
  PROVE  sup.refs > 0
<1>1. Owes(tasks[c]) = 1
  BY Zenon DEF Owes
<1>2. Owes(tasks[c]) <= Cardinality(Owing(tasks)) /\ Cardinality(Owing(tasks)) \in Nat
  BY CountsMove, Zenon DEF SupInvariant
<1>3. Cardinality(HeldUrls(sup.workers)) \in Nat
  BY TaskAssumption, FS_Subset, FS_CardinalityType, Zenon DEF HeldUrls
<1>4. /\ sup.refs = Cardinality(HeldUrls(sup.workers)) + sup.leaked + Cardinality(Owing(tasks))
      /\ sup.leaked \in Nat
  BY Zenon DEF SupInvariant, Supervisor
<1> QED
  BY <1>1, <1>2, <1>3, <1>4

(* A step that panics nobody and keeps the expectation.                     *)
LEMMA NobodyPanics ==
  ASSUME PanicInv, NEW c \in Tasks, Expected(sup'), sup.raced => sup'.raced,
         \A d \in Tasks : d # c => tasks'[d].pc = tasks[d].pc,
         tasks'[c].pc # "panicked"
  PROVE  PanicInv'
BY Zenon DEF PanicInv

(* No step but GetIndexer panics, no step but DropIndexer takes the indexer *)
(* of a referenced identity.                                                *)
LEMMA PanicSteps == SupInvariant /\ PanicInv /\ [SupNext]_supVars => PanicInv'
<1> SUFFICES ASSUME SupInvariant, PanicInv, [SupNext]_supVars PROVE PanicInv'
  BY Zenon
<1>1. ASSUME NEW c \in Tasks, TaskStep(c) PROVE PanicInv'
  <2>1. ASSUME NEW pc \in TaskPoints \ {"panicked"}, To(c, pc)
        PROVE  (\A d \in Tasks : d # c => tasks'[d].pc = tasks[d].pc) /\ tasks'[c].pc # "panicked"
    BY <2>1, Goes, Zenon
  <2>2. ASSUME tasks[c].calls # <<>>, Finish(c)
        PROVE  (\A d \in Tasks : d # c => tasks'[d].pc = tasks[d].pc) /\ tasks'[c].pc # "panicked"
    <3>1. (\A d \in Tasks : d # c => tasks'[d] = tasks[d]) /\ tasks'[c].pc = "start"
      BY <2>2, Ends, Zenon
    <3> QED BY <3>1, Zenon
  <2>3. ASSUME tasks[c].calls # <<>>, AfterRemoval(c)
        PROVE  (\A d \in Tasks : d # c => tasks'[d].pc = tasks[d].pc) /\ tasks'[c].pc # "panicked"
    BY <2>1, <2>2, <2>3, Zenon DEF AfterRemoval, TaskPoints
  <2>4. CASE OnWorkerAdded(c) \/ OnWorkerRemoved(c) \/ Discover(c)
    <3>1. sup' = sup /\ Expected(sup) /\ tasks[c].calls # <<>>
      BY <2>4, Zenon DEF OnWorkerAdded, OnWorkerRemoved, Discover, Ready, PanicInv
    <3>2. To(c, "take") \/ To(c, "discover") \/ To(c, "acquire") \/ Finish(c)
      BY <2>4, Zenon DEF OnWorkerAdded, OnWorkerRemoved, Discover
    <3> QED
      BY <2>1, <2>2, <3>1, <3>2, NobodyPanics, Zenon DEF TaskPoints
  <2>5. CASE TakeEntry(c)
    <3>1. tasks[c].calls # <<>> /\ (AfterRemoval(c) \/ To(c, "release"))
      BY <2>5, Zenon DEF TakeEntry, Ready
    <3>2. sup'.refs = sup.refs /\ sup'.indexer = sup.indexer /\ sup'.raced = sup.raced
      BY <2>5, Zenon DEF TakeEntry, SupInvariant, Supervisor
    <3>3. Expected(sup')
      BY <3>2, Zenon DEF Expected, PanicInv
    <3> QED
      BY <2>1, <2>3, <3>1, <3>2, <3>3, NobodyPanics, Zenon DEF TaskPoints
  <2>6. CASE Release(c)
    <3>1. tasks[c].calls # <<>> /\ (AfterRemoval(c) \/ To(c, "drop")) /\ tasks[c].pc = "release"
      BY <2>6, Zenon DEF Release, Ready
    <3>2. sup'.refs = (IF sup.refs > 0 THEN sup.refs - 1 ELSE 0) /\ sup'.indexer = sup.indexer
          /\ sup'.raced = sup.raced /\ sup.refs \in Nat
      BY <2>6, Zenon DEF Release, SupInvariant, Supervisor
    <3>3. sup'.refs > 0 => sup.refs > 0
      BY <3>2
    <3>4. Expected(sup')
      BY <3>2, <3>3, Zenon DEF Expected, PanicInv
    <3> QED
      BY <2>1, <2>3, <3>1, <3>2, <3>4, NobodyPanics, Zenon DEF TaskPoints
  <2>7. CASE DropIndexer(c)
    <3>1. tasks[c].calls # <<>> /\ AfterRemoval(c)
      BY <2>7, Zenon DEF DropIndexer, Ready
    <3>2. sup'.refs = sup.refs /\ (sup'.raced <=> sup.raced \/ sup.refs > 0)
      BY <2>7, Zenon DEF DropIndexer, SupInvariant, Supervisor
    <3>3. Expected(sup')
      BY <3>2, Zenon DEF Expected
    <3> QED
      BY <2>3, <3>1, <3>2, <3>3, NobodyPanics, Zenon
  <2>8. CASE Acquire(c)
    <3>1. tasks[c].calls # <<>> /\ To(c, "get")
      BY <2>8, Zenon DEF Acquire, Ready
    <3>2. sup.refs \in Nat /\ sup.made \in Nat /\ sup \in Supervisor
      BY Zenon DEF SupInvariant, Supervisor
    <3>3. sup'.raced = sup.raced
      BY <2>8, <3>2, Zenon DEF Acquire, Supervisor
    <3>4. CASE sup.refs = 0
      <4>1. sup'.indexer = sup.made + 1
        BY <2>8, <3>2, <3>4, Zenon DEF Acquire, Supervisor
      <4>2. sup'.indexer # 0
        BY <3>2, <4>1
      <4> QED
        BY <2>1, <3>1, <3>3, <4>2, NobodyPanics, Zenon DEF Expected, TaskPoints
    <3>5. CASE sup.refs # 0
      <4>1. sup.refs > 0
        BY <3>2, <3>5
      <4>2. sup'.indexer = sup.indexer
        BY <2>8, <3>2, <3>5, Zenon DEF Acquire, Supervisor
      <4> QED
        BY <2>1, <3>1, <3>3, <4>1, <4>2, NobodyPanics, Zenon DEF Expected, PanicInv, TaskPoints
    <3> QED
      BY <3>4, <3>5, Zenon
  <2>9. CASE GetIndexer(c)
    <3>1. tasks[c].pc = "get" /\ sup' = sup /\ tasks \in [Tasks -> Task]
      BY <2>9, Zenon DEF GetIndexer, Ready, SupInvariant
    <3>2. sup.refs > 0
      BY <3>1, OwingIsCounted, Zenon DEF Counting
    <3>3. sup.indexer = 0 => sup.raced
      BY <3>2, Zenon DEF PanicInv, Expected
    <3>4. tasks' = [tasks EXCEPT ![c] = [tasks[c] EXCEPT
                      !.pc = IF sup.indexer = 0 THEN "panicked" ELSE "track", !.hold = sup.indexer]]
      BY <2>9, <3>1, Zenon DEF GetIndexer
    <3>5. /\ \A d \in Tasks : d # c => tasks'[d].pc = tasks[d].pc
          /\ tasks'[c].pc = IF sup.indexer = 0 THEN "panicked" ELSE "track"
      BY <3>1, <3>4, Zenon DEF Task
    <3> QED
      BY <3>1, <3>3, <3>5, Zenon DEF PanicInv, Expected
  <2>10. CASE Track(c)
    <3>1. sup'.refs = sup.refs /\ sup'.indexer = sup.indexer /\ sup'.raced = sup.raced
      BY <2>10, Zenon DEF Track, SupInvariant, Supervisor
    <3>2. /\ \A d \in Tasks : d # c => tasks'[d].pc = tasks[d].pc
          /\ tasks'[c].pc # "panicked"
      BY <2>10, Zenon DEF Track, SupInvariant, Task, Over
    <3>3. Expected(sup')
      BY <3>1, Zenon DEF Expected, PanicInv
    <3> QED
      BY <3>1, <3>2, <3>3, NobodyPanics, Zenon
  <2> QED
    BY <1>1, <2>4, <2>5, <2>6, <2>7, <2>8, <2>9, <2>10, Zenon DEF TaskStep
<1>2. CASE UNCHANGED supVars
  BY <1>2, Zenon DEF supVars, PanicInv
<1> QED
  BY <1>1, <1>2, Zenon DEF SupNext

(* An add panics only after the indexer was dropped under a new reference.  *)
LEMMA PanicsStayExplained == SupSpec => []PanicsComeFromTheRace
<1>1. SupInit => PanicInv
  <2> SUFFICES ASSUME SupInit PROVE PanicInv
    BY Zenon
  <2>0. PICK plan \in CallPlans :
          tasks = [c \in Tasks |-> [calls |-> plan[c], pc |-> "start", hold |-> 0, late |-> FALSE]]
    BY Zenon DEF SupInit
  <2>1. sup.refs = 0 /\ \A c \in Tasks : tasks[c].pc = "start"
    <3>1. sup.refs = 0
      BY DEF SupInit
    <3>2. \A c \in Tasks : tasks[c].pc = "start"
      BY <2>0
    <3> QED
      BY <3>1, <3>2
  <2>2. ~(sup.refs > 0)
    BY <2>1
  <2> QED
    BY <2>1, <2>2, Zenon DEF PanicInv, Expected
<1>2. PanicInv => PanicsComeFromTheRace
  BY Zenon DEF PanicInv, Expected, PanicsComeFromTheRace
<1> QED
  BY <1>1, <1>2, SupStarts, SupSteps, PanicSteps, PTL DEF SupSpec

(* The references of a cache identity are its entries, the entries that     *)
(* were overwritten, and the tasks between counting and recording, the      *)
(* panicked ones included.                                                  *)
LEMMA RefsStayExact == SupSpec => []RefsCountHolders
<1>1. SupInvariant => RefsCountHolders
  BY Zenon DEF SupInvariant, RefsCountHolders, HeldUrls, Owing, Counting
<1> QED
  BY <1>1, SupStarts, SupSteps, PTL DEF SupSpec

-----------------------------------------------------------------------------
(* The load slots.                                                          *)

Counter == [present : BOOLEAN, tokens : Nat, requests : Nat]

Slot == [state : 0 .. 3, target : SlotTargets]

SlotPoints == {"idle", "decode", "decode_release", "release", "free", "prune", "done"}

Moving == {"decode", "decode_release"}

Signals == [Sharers -> SlotPoints]

(* The state s of a slot and the points g of its sharers: one sharer at     *)
(* most moves the counters to decode, and one at most frees.                *)
SlotFits(s, g) ==
  /\ s.state \in {0, 3} => \A h \in Sharers : g[h] = "idle"
  /\ \A h \in Sharers : g[h] = "free" => s.state = 2
  /\ \A h, k \in Sharers : g[h] = "free" /\ g[k] = "free" => h = k
  /\ \A h, k \in Sharers : g[h] \in Moving /\ g[k] \in Moving => h = k

Uses(s, g, t) == s.target = t /\ (s.state \in {0, 1} \/ \E h \in Sharers : g[h] = "free")
Fills(s, g, t) == s.target = t /\ (s.state = 0 \/ \E h \in Sharers : g[h] \in Moving)

UsersOf(so, sg, t) == {r \in SlotRequests : Uses(so[r], sg[r], t)}
FillersOf(so, sg, t) == {r \in SlotRequests : Fills(so[r], sg[r], t)}

CounterFits(k, so, sg, t) ==
  /\ k.requests = Cardinality(UsersOf(so, sg, t))
  /\ k.tokens = SumFunctionOnSet(PrefillTokens, FillersOf(so, sg, t))
  /\ k.requests > 0 => k.present

SlotInvariant ==
  /\ counters \in [SlotTargets -> Counter]
  /\ slotOf \in [SlotRequests -> Slot] /\ signals \in [SlotRequests -> Signals]
  /\ \A r \in SlotRequests : SlotFits(slotOf[r], signals[r])
  /\ \A t \in SlotTargets : CounterFits(counters[t], slotOf, signals, t)

Use(s, g, t) == IF Uses(s, g, t) THEN 1 ELSE 0
Fill(r, s, g, t) == IF Fills(s, g, t) THEN PrefillTokens[r] ELSE 0

(* The slot of request r becomes s, and its sharers are at g.               *)
Moved(so, sg, r, s, g, so2, sg2) ==
  /\ so \in [SlotRequests -> Slot] /\ sg \in [SlotRequests -> Signals]
  /\ r \in SlotRequests /\ s \in Slot /\ g \in Signals
  /\ so2 = [so EXCEPT ![r] = s] /\ sg2 = [sg EXCEPT ![r] = g]

(* How the users and fillers of a target change with the slot of one        *)
(* request.                                                                 *)
UsersChange(so, sg, r, s, g, so2, sg2, t) ==
  /\ Cardinality(UsersOf(so, sg, t)) \in Nat /\ Cardinality(UsersOf(so2, sg2, t)) \in Nat
  /\ Cardinality(UsersOf(so2, sg2, t)) + Use(so[r], sg[r], t)
       = Cardinality(UsersOf(so, sg, t)) + Use(s, g, t)
  /\ Use(so[r], sg[r], t) <= Cardinality(UsersOf(so, sg, t))

(* When the slot of one request changes, the users of a target change by    *)
(* that request.                                                            *)
LEMMA UsersMove ==
  ASSUME NEW so, NEW sg, NEW r, NEW s, NEW g, NEW so2, NEW sg2,
         Moved(so, sg, r, s, g, so2, sg2), NEW t \in SlotTargets
  PROVE  UsersChange(so, sg, r, s, g, so2, sg2, t)
<1>1. IsFiniteSet(UsersOf(so, sg, t)) /\ IsFiniteSet(UsersOf(so2, sg2, t))
  BY SlotAssumption, FS_Subset, Zenon DEF UsersOf
<1>2. \A d \in SlotRequests : d # r => so2[d] = so[d] /\ sg2[d] = sg[d]
  BY Zenon DEF Moved
<1>3. so2[r] = s /\ sg2[r] = g
  BY Zenon DEF Moved
<1>4. PICK S : S = UsersOf(so, sg, t)
  BY Zenon
<1>5. PICK T : T = UsersOf(so2, sg2, t)
  BY Zenon
<1>6. \A d : d # r => (d \in S <=> d \in T)
  BY <1>2, <1>4, <1>5, Zenon DEF UsersOf
<1>7. /\ r \in S <=> Uses(so[r], sg[r], t)
      /\ r \in T <=> Uses(s, g, t)
  BY <1>3, <1>4, <1>5, Zenon DEF UsersOf, Moved
<1>8. /\ Cardinality(S) \in Nat
      /\ (r \in S <=> r \in T) => Cardinality(T) = Cardinality(S)
      /\ r \notin S /\ r \in T => Cardinality(T) = Cardinality(S) + 1
      /\ r \in S /\ r \notin T => Cardinality(T) = Cardinality(S) - 1 /\ Cardinality(S) > 0
  BY <1>1, <1>4, <1>6, CountMoves, Zenon
<1>9. r \in S => Cardinality(S) > 0
  <2> SUFFICES ASSUME r \in S PROVE Cardinality(S) > 0
    BY Zenon
  <2>1. IsFiniteSet(S) /\ S # {}
    BY <1>1, <1>4, Zenon
  <2> QED
    BY <1>8, <2>1, FS_EmptySet
<1>10. Cardinality(T) \in Nat
  BY <1>1, <1>5, FS_CardinalityType, Zenon
<1> QED
  BY <1>4, <1>5, <1>7, <1>8, <1>9, <1>10 DEF UsersChange, Use

FillersChange(so, sg, r, s, g, so2, sg2, t) ==
  /\ SumFunctionOnSet(PrefillTokens, FillersOf(so, sg, t)) \in Nat
  /\ SumFunctionOnSet(PrefillTokens, FillersOf(so2, sg2, t)) \in Nat
  /\ SumFunctionOnSet(PrefillTokens, FillersOf(so2, sg2, t)) + Fill(r, so[r], sg[r], t)
       = SumFunctionOnSet(PrefillTokens, FillersOf(so, sg, t)) + Fill(r, s, g, t)
  /\ Fill(r, so[r], sg[r], t) <= SumFunctionOnSet(PrefillTokens, FillersOf(so, sg, t))

(* And so do the tokens of its fillers.                                     *)
LEMMA FillersMove ==
  ASSUME NEW so, NEW sg, NEW r, NEW s, NEW g, NEW so2, NEW sg2,
         Moved(so, sg, r, s, g, so2, sg2), NEW t \in SlotTargets
  PROVE  FillersChange(so, sg, r, s, g, so2, sg2, t)
<1>1. PICK S : S = FillersOf(so, sg, t)
  BY Zenon
<1>2. PICK T : T = FillersOf(so2, sg2, t)
  BY Zenon
<1>3. IsFiniteSet(S) /\ IsFiniteSet(T) /\ S \subseteq SlotRequests /\ T \subseteq SlotRequests
  BY <1>1, <1>2, SlotAssumption, FS_Subset, Zenon DEF FillersOf
<1>4. \A d \in SlotRequests : d # r => so2[d] = so[d] /\ sg2[d] = sg[d]
  BY Zenon DEF Moved
<1>5. so2[r] = s /\ sg2[r] = g
  BY Zenon DEF Moved
<1>6. \A d : d # r => (d \in S <=> d \in T)
  BY <1>1, <1>2, <1>4, Zenon DEF FillersOf
<1>7. /\ r \in S <=> Fills(so[r], sg[r], t)
      /\ r \in T <=> Fills(s, g, t)
  BY <1>1, <1>2, <1>5, Zenon DEF FillersOf, Moved
<1>8. r \in SlotRequests /\ \A x \in SlotRequests : PrefillTokens[x] \in Nat
  BY SlotAssumption, Zenon DEF Moved
<1>9. (\A x \in S : PrefillTokens[x] \in Nat) /\ (\A x \in T : PrefillTokens[x] \in Nat)
  BY <1>3, <1>8, Zenon
<1>10. SumFunctionOnSet(PrefillTokens, S) \in Nat /\ SumFunctionOnSet(PrefillTokens, T) \in Nat
  BY <1>3, <1>9, SumIsNat, Zenon
<1>11. \A x \in S \cup T : PrefillTokens[x] \in Int
  BY <1>9
<1>12. /\ (r \in S <=> r \in T) => SumFunctionOnSet(PrefillTokens, T) = SumFunctionOnSet(PrefillTokens, S)
       /\ r \notin S /\ r \in T =>
            SumFunctionOnSet(PrefillTokens, T) = SumFunctionOnSet(PrefillTokens, S) + PrefillTokens[r]
       /\ r \in S /\ r \notin T =>
            SumFunctionOnSet(PrefillTokens, T) = SumFunctionOnSet(PrefillTokens, S) - PrefillTokens[r]
  BY <1>3, <1>6, <1>11, SumMoves
<1>13. r \in S => PrefillTokens[r] <= SumFunctionOnSet(PrefillTokens, S)
  <2> SUFFICES ASSUME r \in S PROVE PrefillTokens[r] <= SumFunctionOnSet(PrefillTokens, S)
    BY Zenon
  <2>1. \A x \in S : PrefillTokens[x] \in Int
    BY <1>11, Zenon
  <2>2. SumFunctionOnSet(PrefillTokens, S) = PrefillTokens[r] + SumFunctionOnSet(PrefillTokens, S \ {r})
    BY <1>3, <2>1, SumWithout, Zenon
  <2>3. IsFiniteSet(S \ {r}) /\ \A x \in S \ {r} : PrefillTokens[x] \in Nat
    BY <1>3, <1>9, FS_Subset, Zenon
  <2>4. SumFunctionOnSet(PrefillTokens, S \ {r}) \in Nat
    BY <2>3, SumIsNat, Zenon
  <2> QED
    BY <1>8, <1>10, <2>2, <2>4
<1> QED
  BY <1>1, <1>2, <1>7, <1>8, <1>10, <1>12, <1>13 DEF FillersChange, Fill

(* A step that changes the slot of one request, and counters that move by   *)
(* what the request stood for before and stands for after.                  *)
SlotStep(r, s, g, k) ==
  /\ r \in SlotRequests /\ s \in Slot /\ g \in Signals /\ k \in [SlotTargets -> Counter]
  /\ slotOf' = [slotOf EXCEPT ![r] = s] /\ signals' = [signals EXCEPT ![r] = g] /\ counters' = k
  /\ SlotFits(s, g)

Balanced(r, s, g, k, t) ==
  /\ k[t].requests + Use(slotOf[r], signals[r], t) = counters[t].requests + Use(s, g, t)
  /\ k[t].tokens + Fill(r, slotOf[r], signals[r], t) = counters[t].tokens + Fill(r, s, g, t)
  /\ k[t].requests > 0 => k[t].present

(* A balanced step on the slot of one request keeps the invariant.          *)
LEMMA SlotSteps ==
  ASSUME SlotInvariant, NEW r, NEW s, NEW g, NEW k, SlotStep(r, s, g, k),
         \A t \in SlotTargets : Balanced(r, s, g, k, t)
  PROVE  SlotInvariant'
<1>0. /\ r \in SlotRequests /\ s \in Slot /\ g \in Signals /\ k \in [SlotTargets -> Counter]
      /\ slotOf' = [slotOf EXCEPT ![r] = s] /\ signals' = [signals EXCEPT ![r] = g] /\ counters' = k
      /\ SlotFits(s, g)
  BY Zenon DEF SlotStep
<1>1. PICK so \in [SlotRequests -> Slot] : so = slotOf /\ so[r] = slotOf[r]
  BY <1>0, Zenon DEF SlotInvariant
<1>2. PICK sg \in [SlotRequests -> Signals] : sg = signals /\ sg[r] = signals[r]
  BY <1>0, Zenon DEF SlotInvariant
<1>3. PICK so2 : so2 = slotOf' /\ so2 = [so EXCEPT ![r] = s]
  BY <1>0, <1>1, Zenon
<1>4. PICK sg2 : sg2 = signals' /\ sg2 = [sg EXCEPT ![r] = g]
  BY <1>0, <1>2, Zenon
<1>5. so2 \in [SlotRequests -> Slot] /\ sg2 \in [SlotRequests -> Signals] /\ Moved(so, sg, r, s, g, so2, sg2)
  BY <1>0, <1>3, <1>4, Zenon DEF Moved
<1>6. \A d \in SlotRequests : SlotFits(so2[d], sg2[d])
  BY <1>0, <1>1, <1>2, <1>3, <1>4, Zenon DEF SlotInvariant
<1>7. ASSUME NEW t \in SlotTargets PROVE CounterFits(k[t], so2, sg2, t)
  <2>1. CounterFits(counters[t], so, sg, t) /\ counters[t] \in Counter /\ k[t] \in Counter
    BY <1>0, <1>1, <1>2, Zenon DEF SlotInvariant
  <2>2. /\ k[t].requests + Use(so[r], sg[r], t) = counters[t].requests + Use(s, g, t)
        /\ k[t].tokens + Fill(r, so[r], sg[r], t) = counters[t].tokens + Fill(r, s, g, t)
        /\ k[t].requests > 0 => k[t].present
    BY <1>1, <1>2, Zenon DEF Balanced
  <2>3. /\ counters[t].requests \in Nat /\ counters[t].tokens \in Nat
        /\ k[t].requests \in Nat /\ k[t].tokens \in Nat
    BY <2>1, Zenon DEF Counter
  <2>4. /\ Cardinality(UsersOf(so2, sg2, t)) \in Nat
        /\ Cardinality(UsersOf(so2, sg2, t)) + Use(so[r], sg[r], t)
             = Cardinality(UsersOf(so, sg, t)) + Use(s, g, t)
    <3>1. UsersChange(so, sg, r, s, g, so2, sg2, t)
      BY <1>5, UsersMove, Zenon
    <3> QED
      BY <3>1, Zenon DEF UsersChange
  <2>5. /\ SumFunctionOnSet(PrefillTokens, FillersOf(so2, sg2, t)) \in Nat
        /\ SumFunctionOnSet(PrefillTokens, FillersOf(so2, sg2, t)) + Fill(r, so[r], sg[r], t)
             = SumFunctionOnSet(PrefillTokens, FillersOf(so, sg, t)) + Fill(r, s, g, t)
    <3>1. FillersChange(so, sg, r, s, g, so2, sg2, t)
      BY <1>5, FillersMove, Zenon
    <3> QED
      BY <3>1, Zenon DEF FillersChange
  <2>6. /\ counters[t].requests = Cardinality(UsersOf(so, sg, t))
        /\ counters[t].tokens = SumFunctionOnSet(PrefillTokens, FillersOf(so, sg, t))
    BY <2>1, Zenon DEF CounterFits
  <2>7. Use(so[r], sg[r], t) \in Nat /\ Use(s, g, t) \in Nat
    BY Zenon DEF Use
  <2>8. Fill(r, so[r], sg[r], t) \in Nat /\ Fill(r, s, g, t) \in Nat
    BY <1>0, SlotAssumption, Zenon DEF Fill
  <2>9. k[t].requests = Cardinality(UsersOf(so2, sg2, t))
    BY <2>2, <2>3, <2>4, <2>6, <2>7
  <2>10. k[t].tokens = SumFunctionOnSet(PrefillTokens, FillersOf(so2, sg2, t))
    BY <2>2, <2>3, <2>5, <2>6, <2>8
  <2> QED
    BY <2>2, <2>9, <2>10, Zenon DEF CounterFits
<1>8. slotOf' = so2 /\ signals' = sg2 /\ counters' = k /\ k \in [SlotTargets -> Counter]
  BY <1>0, <1>3, <1>4, Zenon
<1> HIDE <1>0, <1>3, <1>4
<1> QED
  BY <1>5, <1>6, <1>7, <1>8, Zenon DEF SlotInvariant

(* What the counters of a target are at least.                              *)
LEMMA Counted ==
  ASSUME SlotInvariant, NEW r \in SlotRequests, NEW t \in SlotTargets
  PROVE  /\ counters[t] \in Counter /\ counters[t].requests \in Nat /\ counters[t].tokens \in Nat
         /\ counters[t].present \in BOOLEAN /\ PrefillTokens[r] \in Nat
         /\ slotOf[r] \in Slot /\ signals[r] \in Signals /\ SlotFits(slotOf[r], signals[r])
         /\ Uses(slotOf[r], signals[r], t) => counters[t].requests >= 1
         /\ Fills(slotOf[r], signals[r], t) => counters[t].tokens >= PrefillTokens[r]
         /\ counters[t].requests > 0 => counters[t].present
<1>1. /\ counters[t] \in Counter /\ slotOf \in [SlotRequests -> Slot] /\ signals \in [SlotRequests -> Signals]
      /\ SlotFits(slotOf[r], signals[r]) /\ CounterFits(counters[t], slotOf, signals, t)
  BY Zenon DEF SlotInvariant
<1>2. slotOf[r] \in Slot /\ signals[r] \in Signals
  BY <1>1, Zenon
<1>3. PICK so2 : so2 = [slotOf EXCEPT ![r] = slotOf[r]]
  BY Zenon
<1>4. PICK sg2 : sg2 = [signals EXCEPT ![r] = signals[r]]
  BY Zenon
<1>0. Moved(slotOf, signals, r, slotOf[r], signals[r], so2, sg2)
  BY <1>1, <1>2, <1>3, <1>4, Zenon DEF Moved
<1>5. Use(slotOf[r], signals[r], t) <= Cardinality(UsersOf(slotOf, signals, t))
  BY <1>0, UsersMove, Zenon DEF UsersChange
<1>6. Fill(r, slotOf[r], signals[r], t) <= SumFunctionOnSet(PrefillTokens, FillersOf(slotOf, signals, t))
  BY <1>0, FillersMove, Zenon DEF FillersChange
<1>7. counters[t].requests \in Nat /\ counters[t].tokens \in Nat /\ counters[t].present \in BOOLEAN
  BY <1>1, Zenon DEF Counter
<1>8. PrefillTokens[r] \in Nat
  BY SlotAssumption, Zenon
<1> QED
  BY <1>1, <1>2, <1>5, <1>6, <1>7, <1>8, Zenon DEF CounterFits, Use, Fill

(* A request begins: its target counts it, and its tokens.                  *)
LEMMA StepBeginRequest ==
  ASSUME SlotInvariant, NEW r \in SlotRequests, BeginRequest(r)
  PROVE  SlotInvariant'
<1>1. PICK t \in SlotTargets :
        /\ counters' = [counters EXCEPT ![t] = [present |-> TRUE,
                                                tokens |-> counters[t].tokens + PrefillTokens[r],
                                                requests |-> counters[t].requests + 1]]
        /\ slotOf' = [slotOf EXCEPT ![r] = [state |-> 0, target |-> t]]
  BY Zenon DEF BeginRequest, SlotInvariant
<1>2. slotOf[r].state = 3 /\ signals' = signals
  BY Zenon DEF BeginRequest
<1>3. PICK g : g = signals[r]
  BY Zenon
<1>4. /\ g \in Signals /\ SlotFits(slotOf[r], g) /\ slotOf[r] \in Slot
      /\ signals \in [SlotRequests -> Signals] /\ counters \in [SlotTargets -> Counter]
  BY <1>3, Zenon DEF SlotInvariant
<1>5. signals' = [signals EXCEPT ![r] = g]
  BY <1>2, <1>3, <1>4, Zenon
<1>6. \A h \in Sharers : g[h] = "idle"
  BY <1>2, <1>4, Zenon DEF SlotFits
<1>7. PICK s : s = [state |-> 0, target |-> t]
  BY Zenon
<1>8. s \in Slot /\ s.state = 0 /\ s.target = t
  BY <1>7 DEF Slot
<1>9. SlotFits(s, g)
  BY <1>6, <1>8, Zenon DEF SlotFits, Moving
<1>10. PICK k : k = counters'
  BY Zenon
<1>11. counters[t].tokens \in Nat /\ counters[t].requests \in Nat /\ PrefillTokens[r] \in Nat
  BY Counted, Zenon
<1>12. /\ k \in [SlotTargets -> Counter] /\ \A x \in SlotTargets : x # t => k[x] = counters[x]
       /\ k[t].present /\ k[t].tokens = counters[t].tokens + PrefillTokens[r]
       /\ k[t].requests = counters[t].requests + 1
  BY <1>1, <1>4, <1>10, <1>11 DEF Counter
<1>13. ASSUME NEW x \in SlotTargets
       PROVE /\ k[x].requests + Use(slotOf[r], g, x) = counters[x].requests + Use(s, g, x)
             /\ k[x].tokens + Fill(r, slotOf[r], g, x) = counters[x].tokens + Fill(r, s, g, x)
             /\ k[x].requests > 0 => k[x].present
  <2>1. Use(slotOf[r], g, x) = 0 /\ Fill(r, slotOf[r], g, x) = 0
    BY <1>2, <1>6 DEF Use, Fill, Uses, Fills, Moving
  <2>2. /\ Use(s, g, x) = IF x = t THEN 1 ELSE 0
        /\ Fill(r, s, g, x) = IF x = t THEN PrefillTokens[r] ELSE 0
    BY <1>8, Zenon DEF Use, Fill, Uses, Fills
  <2>3. /\ counters[x].requests \in Nat /\ counters[x].tokens \in Nat
        /\ counters[x].requests > 0 => counters[x].present
    BY Counted, Zenon
  <2> QED
    BY <1>11, <1>12, <2>1, <2>2, <2>3
<1>14. slotOf' = [slotOf EXCEPT ![r] = s] /\ counters' = k
  BY <1>1, <1>7, <1>10, Zenon
<1>15. \A x \in SlotTargets : Balanced(r, s, g, k, x)
  BY <1>3, <1>13, Zenon DEF Balanced
<1>16. SlotStep(r, s, g, k)
  BY <1>4, <1>5, <1>8, <1>9, <1>12, <1>14, Zenon DEF SlotStep
<1> QED
  BY <1>15, <1>16, SlotSteps, Zenon

(* A step of one sharer concerns the target of the slot only.               *)
LEMMA SharerSteps ==
  ASSUME SlotInvariant, NEW r, NEW s, NEW g, NEW k, SlotStep(r, s, g, k), NEW t \in SlotTargets,
         slotOf[r].target = t, s.target = t, \A x \in SlotTargets : x # t => k[x] = counters[x],
         Balanced(r, s, g, k, t)
  PROVE  SlotInvariant'
<1>1. ASSUME NEW x \in SlotTargets PROVE Balanced(r, s, g, k, x)
  <2>1. CASE x = t
    BY <2>1, Zenon
  <2>2. CASE x # t
    <3>1. /\ Use(slotOf[r], signals[r], x) = 0 /\ Use(s, g, x) = 0
          /\ Fill(r, slotOf[r], signals[r], x) = 0 /\ Fill(r, s, g, x) = 0
      BY <2>2, Zenon DEF Use, Fill, Uses, Fills
    <3>2. /\ counters[x].requests \in Nat /\ counters[x].tokens \in Nat
          /\ counters[x].requests > 0 => counters[x].present
      BY Counted, Zenon DEF SlotStep
    <3>3. k[x] = counters[x]
      BY <2>2, Zenon
    <3> QED
      BY <3>1, <3>2, <3>3, Zenon DEF Balanced
  <2> QED
    BY <2>1, <2>2, Zenon
<1> QED
  BY <1>1, SlotSteps, Zenon

(* A sharer moves from one point to another and the others stay.            *)
LEMMA SignalIs ==
  ASSUME SlotInvariant, NEW r \in SlotRequests, NEW h \in Sharers, NEW from, NEW to \in SlotPoints,
         Signal(r, h, from, to)
  PROVE  \E g \in Signals :
           /\ signals[r][h] = from /\ g[h] = to /\ \A x \in Sharers : x # h => g[x] = signals[r][x]
           /\ signals' = [signals EXCEPT ![r] = g]
<1>1. PICK g : g = [signals[r] EXCEPT ![h] = to]
  BY Zenon
<1>2. signals \in [SlotRequests -> Signals] /\ signals[r] \in Signals
  BY Zenon DEF SlotInvariant
<1>3. g \in Signals /\ g[h] = to /\ \A x \in Sharers : x # h => g[x] = signals[r][x]
  BY <1>1, <1>2, Zenon DEF Signals
<1>4. signals[r][h] = from /\ signals' = [signals EXCEPT ![r] = g]
  BY <1>1, <1>2, Zenon DEF Signal
<1> QED
  BY <1>3, <1>4, Zenon

(* The slot of a request, kept or with another state, is a slot.            *)
LEMMA SlotKept ==
  ASSUME SlotInvariant, NEW r \in SlotRequests
  PROVE  /\ slotOf = [slotOf EXCEPT ![r] = slotOf[r]] /\ slotOf[r].target \in SlotTargets
         /\ \A n \in 0 .. 3 : \E s \in Slot : /\ s.state = n /\ s.target = slotOf[r].target
                                              /\ [slotOf EXCEPT ![r].state = n] = [slotOf EXCEPT ![r] = s]
<1>1. slotOf \in [SlotRequests -> Slot] /\ slotOf[r] \in Slot
  BY Zenon DEF SlotInvariant
<1>2. ASSUME NEW n \in 0 .. 3
      PROVE  \E s \in Slot : /\ s.state = n /\ s.target = slotOf[r].target
                             /\ [slotOf EXCEPT ![r].state = n] = [slotOf EXCEPT ![r] = s]
  <2>1. PICK s : s = [slotOf[r] EXCEPT !.state = n]
    BY Zenon
  <2>2. s \in Slot /\ s.state = n /\ s.target = slotOf[r].target
    BY <1>1, <2>1, Zenon DEF Slot
  <2>3. [slotOf EXCEPT ![r].state = n] = [slotOf EXCEPT ![r] = s]
    BY <1>1, <2>1, Zenon
  <2> QED
    BY <2>2, <2>3, Zenon
<1>3. slotOf = [slotOf EXCEPT ![r] = slotOf[r]]
  BY <1>1, Zenon
<1>4. slotOf[r].target \in SlotTargets
  BY <1>1, Zenon DEF Slot
<1> QED
  BY <1>2, <1>3, <1>4, Zenon

(* The winner of the first exchange stands for the tokens from then on.     *)
LEMMA StepSignalDecode ==
  ASSUME SlotInvariant, NEW r \in SlotRequests, NEW h \in Sharers, SignalDecode(r, h)
  PROVE  SlotInvariant'
<1>1. PICK releasing \in BOOLEAN :
        Signal(r, h, "idle",
               IF Cas(r, 0) THEN (IF releasing THEN "decode_release" ELSE "decode")
               ELSE IF releasing THEN "release" ELSE "idle")
  BY Zenon DEF SignalDecode
<1>2. PICK to \in SlotPoints :
        /\ Signal(r, h, "idle", to)
        /\ IF slotOf[r].state = 0 THEN to \in Moving ELSE to \in {"release", "idle"}
  BY <1>1, Zenon DEF Cas, Moving, SlotPoints
<1>3. PICK g \in Signals :
        /\ signals[r][h] = "idle" /\ g[h] = to /\ \A x \in Sharers : x # h => g[x] = signals[r][x]
        /\ signals' = [signals EXCEPT ![r] = g]
  BY <1>2, SignalIs
<1>4. PICK t \in SlotTargets : t = slotOf[r].target
  BY SlotKept, Zenon
<1>5. /\ slotOf[r] \in Slot /\ signals[r] \in Signals /\ SlotFits(slotOf[r], signals[r])
      /\ counters[t].requests \in Nat /\ counters[t].tokens \in Nat
      /\ counters[t].requests > 0 => counters[t].present
  BY Counted, Zenon
<1>6. slotOf[r].state \in {0, 1, 2}
  BY <1>5 DEF SignalDecode, Slot
<1>7. PICK s \in Slot : /\ s.state = (IF slotOf[r].state = 0 THEN 1 ELSE slotOf[r].state) /\ s.target = t
                        /\ slotOf' = [slotOf EXCEPT ![r] = s]
  <2>1. PICK n \in 0 .. 3 : n = IF slotOf[r].state = 0 THEN 1 ELSE slotOf[r].state
    BY <1>6
  <2>2. slotOf' = [slotOf EXCEPT ![r].state = n]
    BY <2>1, Zenon DEF SignalDecode, Cas, SlotInvariant
  <2>3. PICK s \in Slot : /\ s.state = n /\ s.target = slotOf[r].target
                          /\ [slotOf EXCEPT ![r].state = n] = [slotOf EXCEPT ![r] = s]
    BY SlotKept, ZenonT(40)
  <2> QED
    BY <1>4, <2>1, <2>2, <2>3, Zenon
<1>8. counters' = counters /\ counters \in [SlotTargets -> Counter]
  BY Zenon DEF SignalDecode, SlotInvariant
<1>9. SlotFits(s, g) /\ (Uses(s, g, t) <=> Uses(slotOf[r], signals[r], t))
        /\ (Fills(s, g, t) <=> Fills(slotOf[r], signals[r], t))
  <2>1. CASE slotOf[r].state = 0
    <3>1. \A x \in Sharers : signals[r][x] = "idle"
      BY <1>5, <2>1, Zenon DEF SlotFits
    <3>2. s.state = 1 /\ to \in Moving
      BY <1>2, <1>7, <2>1, Zenon
    <3>3. SlotFits(s, g)
      BY <1>3, <3>1, <3>2 DEF SlotFits, Moving
    <3> QED
      BY <1>3, <1>4, <1>7, <2>1, <3>2, <3>3, Zenon DEF Uses, Fills
  <2>2. CASE slotOf[r].state # 0
    <3>1. s.state = slotOf[r].state /\ to \in {"release", "idle"} /\ s.state \in {1, 2}
      BY <1>2, <1>6, <1>7, <2>2, Zenon
    <3>2. \A x \in Sharers : /\ g[x] = "free" <=> signals[r][x] = "free"
                             /\ g[x] \in Moving <=> signals[r][x] \in Moving
      BY <1>3, <3>1, Zenon DEF Moving
    <3>3. SlotFits(s, g)
      BY <1>5, <3>1, <3>2 DEF SlotFits
    <3> QED
      BY <1>4, <1>7, <3>1, <3>2, <3>3, Zenon DEF Uses, Fills
  <2> QED
    BY <2>1, <2>2, Zenon
<1>10. /\ Use(s, g, t) = Use(slotOf[r], signals[r], t)
       /\ Fill(r, s, g, t) = Fill(r, slotOf[r], signals[r], t)
  BY <1>9, Zenon DEF Use, Fill
<1>11. SlotStep(r, s, g, counters) /\ Balanced(r, s, g, counters, t)
  BY <1>3, <1>5, <1>7, <1>8, <1>9, <1>10, Zenon DEF SlotStep, Balanced
<1> QED
  BY <1>4, <1>7, <1>11, SharerSteps, Zenon

(* The one sharer that moves takes the tokens away, all of them.            *)
LEMMA StepBeginDecode ==
  ASSUME SlotInvariant, NEW r \in SlotRequests, NEW h \in Sharers, BeginDecode(r, h)
  PROVE  SlotInvariant'
<1>1. PICK from \in Moving, to \in {"idle", "release"} : Signal(r, h, from, to)
  BY Zenon DEF BeginDecode, Moving
<1>2. to \in SlotPoints
  BY Zenon DEF SlotPoints
<1>3. PICK g \in Signals :
        /\ signals[r][h] = from /\ g[h] = to /\ \A x \in Sharers : x # h => g[x] = signals[r][x]
        /\ signals' = [signals EXCEPT ![r] = g]
  BY <1>1, <1>2, SignalIs
<1>4. PICK t \in SlotTargets : t = slotOf[r].target
  BY SlotKept, Zenon
<1>5. /\ slotOf[r] \in Slot /\ signals[r] \in Signals /\ SlotFits(slotOf[r], signals[r])
      /\ counters[t].requests \in Nat /\ counters[t].tokens \in Nat /\ PrefillTokens[r] \in Nat
      /\ counters[t].requests > 0 => counters[t].present
      /\ Fills(slotOf[r], signals[r], t) => counters[t].tokens >= PrefillTokens[r]
  BY Counted, Zenon
<1>6. slotOf' = slotOf /\ slotOf' = [slotOf EXCEPT ![r] = slotOf[r]]
  BY SlotKept, Zenon DEF BeginDecode
<1>7. slotOf[r].state \in {1, 2}
  BY <1>3, <1>5 DEF SlotFits, Slot, Moving
<1>8. \A x \in Sharers : g[x] \notin Moving /\ (g[x] = "free" <=> signals[r][x] = "free")
  BY <1>3, <1>5, Zenon DEF SlotFits, Moving
<1>9. SlotFits(slotOf[r], g)
  BY <1>5, <1>7, <1>8 DEF SlotFits
<1>10. Fills(slotOf[r], signals[r], t) /\ ~Fills(slotOf[r], g, t)
  BY <1>3, <1>4, <1>7, <1>8 DEF Fills
<1>11. Uses(slotOf[r], signals[r], t) <=> Uses(slotOf[r], g, t)
  BY <1>8, Zenon DEF Uses
<1>12. PICK c : c = [counters[t] EXCEPT !.present = TRUE, !.tokens = Monus(counters[t].tokens, PrefillTokens[r])]
  BY Zenon
<1>13. Monus(counters[t].tokens, PrefillTokens[r]) = counters[t].tokens - PrefillTokens[r]
  BY <1>5, <1>10 DEF Monus
<1>14. /\ c \in Counter /\ c.present /\ c.tokens = counters[t].tokens - PrefillTokens[r]
       /\ c.requests = counters[t].requests
  <2>1. counters[t] \in Counter
    BY Counted, Zenon
  <2>2. counters[t].tokens - PrefillTokens[r] \in Nat
    BY <1>5, <1>10
  <2> QED
    BY <1>12, <1>13, <2>1, <2>2, Zenon DEF Counter
<1>15. counters \in [SlotTargets -> Counter]
  BY Zenon DEF SlotInvariant
<1>16. counters' = [counters EXCEPT ![t] = c]
  BY <1>4, <1>12, <1>15, Zenon DEF BeginDecode, DecodeBegun
<1>17. PICK k \in [SlotTargets -> Counter] :
         counters' = k /\ k[t] = c /\ \A x \in SlotTargets : x # t => k[x] = counters[x]
  BY <1>14, <1>15, <1>16, Zenon
<1>18. k[t].requests + Use(slotOf[r], signals[r], t) = counters[t].requests + Use(slotOf[r], g, t)
  BY <1>11, <1>14, <1>17, Zenon DEF Use
<1>19. k[t].tokens + Fill(r, slotOf[r], signals[r], t) = counters[t].tokens + Fill(r, slotOf[r], g, t)
  BY <1>5, <1>10, <1>14, <1>17 DEF Fill
<1>20. k[t].requests > 0 => k[t].present
  BY <1>14, <1>17, Zenon
<1>21. SlotStep(r, slotOf[r], g, k) /\ Balanced(r, slotOf[r], g, k, t)
  BY <1>3, <1>5, <1>6, <1>9, <1>17, <1>18, <1>19, <1>20, Zenon DEF SlotStep, Balanced
<1> QED
  BY <1>4, <1>17, <1>21, SharerSteps, Zenon

(* The winner of the second exchange stands for the request from then on.   *)
LEMMA StepSignalRelease ==
  ASSUME SlotInvariant, NEW r \in SlotRequests, NEW h \in Sharers, SignalRelease(r, h)
  PROVE  SlotInvariant'
<1>1. PICK to \in {"free", "done"} :
        Signal(r, h, "release", to) /\ (to = "free" <=> slotOf[r].state = 1)
  BY Zenon DEF SignalRelease, Cas
<1>2. to \in SlotPoints
  BY Zenon DEF SlotPoints
<1>3. PICK g \in Signals :
        /\ signals[r][h] = "release" /\ g[h] = to /\ \A x \in Sharers : x # h => g[x] = signals[r][x]
        /\ signals' = [signals EXCEPT ![r] = g]
  BY <1>1, <1>2, SignalIs
<1>4. PICK t \in SlotTargets : t = slotOf[r].target
  BY SlotKept, Zenon
<1>5. /\ slotOf[r] \in Slot /\ signals[r] \in Signals /\ SlotFits(slotOf[r], signals[r])
      /\ counters[t].requests \in Nat /\ counters[t].tokens \in Nat
      /\ counters[t].requests > 0 => counters[t].present
  BY Counted, Zenon
<1>6. slotOf[r].state \in {1, 2}
  BY <1>3, <1>5 DEF SlotFits, Slot
<1>7. PICK s \in Slot : s.state = 2 /\ s.target = t /\ slotOf' = [slotOf EXCEPT ![r] = s]
  <2>1. PICK n \in 0 .. 3 : n = 2
    BY SMT
  <2>2. slotOf' = [slotOf EXCEPT ![r].state = n]
    BY <1>6, <2>1, Zenon DEF SignalRelease, Cas, SlotInvariant
  <2>3. PICK s \in Slot : /\ s.state = n /\ s.target = slotOf[r].target
                          /\ [slotOf EXCEPT ![r].state = n] = [slotOf EXCEPT ![r] = s]
    BY SlotKept, ZenonT(40)
  <2> QED
    BY <1>4, <2>1, <2>2, <2>3, Zenon
<1>8. counters' = counters /\ counters \in [SlotTargets -> Counter]
  BY Zenon DEF SignalRelease, SlotInvariant
<1>9. \A x \in Sharers : g[x] \in Moving <=> signals[r][x] \in Moving
  BY <1>3, Zenon DEF Moving
<1>10. SlotFits(s, g)
  BY <1>1, <1>3, <1>5, <1>7, <1>9 DEF SlotFits
<1>11. Fills(s, g, t) <=> Fills(slotOf[r], signals[r], t)
  BY <1>4, <1>6, <1>7, <1>9 DEF Fills
<1>12. Uses(s, g, t) <=> Uses(slotOf[r], signals[r], t)
  <2>1. CASE slotOf[r].state = 1
    BY <1>1, <1>3, <1>4, <1>7, <2>1, Zenon DEF Uses
  <2>2. CASE slotOf[r].state = 2
    <3>1. \A x \in Sharers : g[x] = "free" <=> signals[r][x] = "free"
      BY <1>1, <1>3, <2>2
    <3> QED
      BY <1>4, <1>7, <2>2, <3>1, Zenon DEF Uses
  <2> QED
    BY <1>6, <2>1, <2>2, Zenon
<1>13. /\ Use(s, g, t) = Use(slotOf[r], signals[r], t)
       /\ Fill(r, s, g, t) = Fill(r, slotOf[r], signals[r], t)
  BY <1>11, <1>12, Zenon DEF Use, Fill
<1>14. SlotStep(r, s, g, counters) /\ Balanced(r, s, g, counters, t)
  BY <1>3, <1>5, <1>7, <1>8, <1>10, <1>13, Zenon DEF SlotStep, Balanced
<1> QED
  BY <1>4, <1>7, <1>14, SharerSteps, Zenon

(* The one sharer that frees finds the counter present and above zero.      *)
LEMMA StepFree ==
  ASSUME SlotInvariant, NEW r \in SlotRequests, NEW h \in Sharers, Free(r, h)
  PROVE  SlotInvariant'
<1>1. Signal(r, h, "free", "prune") /\ "prune" \in SlotPoints
  BY Zenon DEF Free, SlotPoints
<1>2. PICK g \in Signals :
        /\ signals[r][h] = "free" /\ g[h] = "prune" /\ \A x \in Sharers : x # h => g[x] = signals[r][x]
        /\ signals' = [signals EXCEPT ![r] = g]
  BY <1>1, SignalIs
<1>3. PICK t \in SlotTargets : t = slotOf[r].target
  BY SlotKept, Zenon
<1>4. /\ slotOf[r] \in Slot /\ signals[r] \in Signals /\ SlotFits(slotOf[r], signals[r])
      /\ counters[t].requests \in Nat /\ counters[t].tokens \in Nat /\ counters[t] \in Counter
      /\ counters[t].requests > 0 => counters[t].present
      /\ Uses(slotOf[r], signals[r], t) => counters[t].requests >= 1
  BY Counted, Zenon
<1>5. slotOf' = slotOf /\ slotOf' = [slotOf EXCEPT ![r] = slotOf[r]]
  BY SlotKept, Zenon DEF Free
<1>6. slotOf[r].state = 2
  BY <1>2, <1>4, Zenon DEF SlotFits
<1>7. \A x \in Sharers : g[x] # "free" /\ (g[x] \in Moving <=> signals[r][x] \in Moving)
  BY <1>2, <1>4, Zenon DEF SlotFits, Moving
<1>8. SlotFits(slotOf[r], g)
  BY <1>4, <1>6, <1>7 DEF SlotFits
<1>9. Uses(slotOf[r], signals[r], t) /\ ~Uses(slotOf[r], g, t)
  BY <1>2, <1>3, <1>6, <1>7 DEF Uses
<1>10. Fills(slotOf[r], signals[r], t) <=> Fills(slotOf[r], g, t)
  BY <1>7, Zenon DEF Fills
<1>11. PICK c : c = [counters[t] EXCEPT !.requests = counters[t].requests - 1]
  BY Zenon
<1>12. /\ c \in Counter /\ c.present = counters[t].present /\ c.tokens = counters[t].tokens
       /\ c.requests = counters[t].requests - 1
  <2>1. counters[t].requests - 1 \in Nat
    BY <1>4, <1>9
  <2> QED
    BY <1>4, <1>11, <2>1, Zenon DEF Counter
<1>13. counters \in [SlotTargets -> Counter]
  BY Zenon DEF SlotInvariant
<1>14. counters[t].present /\ Monus(counters[t].requests, 1) = counters[t].requests - 1
  BY <1>4, <1>9 DEF Monus
<1>15. counters' = [counters EXCEPT ![t] = c]
  BY <1>3, <1>11, <1>13, <1>14, Zenon DEF Free
<1>16. PICK k \in [SlotTargets -> Counter] :
         counters' = k /\ k[t] = c /\ \A x \in SlotTargets : x # t => k[x] = counters[x]
  BY <1>12, <1>13, <1>15, Zenon
<1>17. k[t].requests + Use(slotOf[r], signals[r], t) = counters[t].requests + Use(slotOf[r], g, t)
  BY <1>4, <1>9, <1>12, <1>16 DEF Use
<1>18. k[t].tokens + Fill(r, slotOf[r], signals[r], t) = counters[t].tokens + Fill(r, slotOf[r], g, t)
  BY <1>10, <1>12, <1>16, Zenon DEF Fill
<1>19. k[t].requests > 0 => k[t].present
  BY <1>12, <1>14, <1>16, Zenon
<1>20. SlotStep(r, slotOf[r], g, k) /\ Balanced(r, slotOf[r], g, k, t)
  BY <1>2, <1>4, <1>5, <1>8, <1>16, <1>17, <1>18, <1>19, Zenon DEF SlotStep, Balanced
<1> QED
  BY <1>3, <1>16, <1>20, SharerSteps, Zenon

(* Pruning changes no count.                                                *)
LEMMA PrunedIs ==
  ASSUME NEW c \in Counter, c.requests > 0 => c.present
  PROVE  /\ Pruned(c) \in Counter /\ Pruned(c).requests = c.requests /\ Pruned(c).tokens = c.tokens
         /\ Pruned(c).requests > 0 => Pruned(c).present
<1>1. CASE c.requests = 0 /\ c.tokens = 0
  BY <1>1 DEF Pruned, Absent, Counter
<1>2. CASE ~(c.requests = 0 /\ c.tokens = 0)
  <2>1. Pruned(c) = c
    BY <1>2, Zenon DEF Pruned
  <2> QED
    BY <2>1, Zenon
<1> QED
  BY <1>1, <1>2, Zenon

(* The release prunes an entry that counts nothing.                         *)
LEMMA StepPrune ==
  ASSUME SlotInvariant, NEW r \in SlotRequests, NEW h \in Sharers, Prune(r, h)
  PROVE  SlotInvariant'
<1>1. Signal(r, h, "prune", "done") /\ "done" \in SlotPoints
  BY Zenon DEF Prune, SlotPoints
<1>2. PICK g \in Signals :
        /\ signals[r][h] = "prune" /\ g[h] = "done" /\ \A x \in Sharers : x # h => g[x] = signals[r][x]
        /\ signals' = [signals EXCEPT ![r] = g]
  BY <1>1, SignalIs
<1>3. PICK t \in SlotTargets : t = slotOf[r].target
  BY SlotKept, Zenon
<1>4. /\ slotOf[r] \in Slot /\ signals[r] \in Signals /\ SlotFits(slotOf[r], signals[r])
      /\ counters[t].requests \in Nat /\ counters[t].tokens \in Nat /\ counters[t] \in Counter
      /\ counters[t].requests > 0 => counters[t].present
  BY Counted, Zenon
<1>5. slotOf' = slotOf /\ slotOf' = [slotOf EXCEPT ![r] = slotOf[r]]
  BY SlotKept, Zenon DEF Prune
<1>6. \A x \in Sharers : /\ g[x] = "free" <=> signals[r][x] = "free"
                         /\ g[x] \in Moving <=> signals[r][x] \in Moving
  BY <1>2, Zenon DEF Moving
<1>7. slotOf[r].state \notin {0, 3}
  BY <1>2, <1>4, Zenon DEF SlotFits
<1>8. SlotFits(slotOf[r], g)
  BY <1>4, <1>6, <1>7, Zenon DEF SlotFits
<1>9. /\ Use(slotOf[r], g, t) = Use(slotOf[r], signals[r], t)
      /\ Fill(r, slotOf[r], g, t) = Fill(r, slotOf[r], signals[r], t)
  BY <1>6, Zenon DEF Use, Fill, Uses, Fills
<1>10. PICK c \in Counter : /\ c = Pruned(counters[t]) /\ c.requests = counters[t].requests
                            /\ c.tokens = counters[t].tokens /\ (c.requests > 0 => c.present)
  BY <1>4, PrunedIs, Zenon
<1>11. counters' = [counters EXCEPT ![t] = c] /\ counters \in [SlotTargets -> Counter]
  BY <1>3, <1>10, Zenon DEF Prune, SlotInvariant
<1>12. PICK k \in [SlotTargets -> Counter] :
         counters' = k /\ k[t] = c /\ \A x \in SlotTargets : x # t => k[x] = counters[x]
  BY <1>10, <1>11, Zenon
<1>13. /\ k[t].requests + Use(slotOf[r], signals[r], t) = counters[t].requests + Use(slotOf[r], g, t)
       /\ k[t].tokens + Fill(r, slotOf[r], signals[r], t) = counters[t].tokens + Fill(r, slotOf[r], g, t)
       /\ k[t].requests > 0 => k[t].present
  BY <1>9, <1>10, <1>12, Zenon
<1>14. SlotStep(r, slotOf[r], g, k) /\ Balanced(r, slotOf[r], g, k, t)
  BY <1>2, <1>4, <1>5, <1>8, <1>12, <1>13, Zenon DEF SlotStep, Balanced
<1> QED
  BY <1>3, <1>12, <1>14, SharerSteps, Zenon

(* A target that goes away keeps the entry that requests count on.          *)
LEMMA StepUnregister ==
  ASSUME SlotInvariant, NEW t \in SlotTargets, UnregisterTarget(t)
  PROVE  SlotInvariant'
<1>1. /\ counters[t] \in Counter /\ counters \in [SlotTargets -> Counter]
      /\ CounterFits(counters[t], slotOf, signals, t)
  BY Zenon DEF SlotInvariant
<1>2. PICK c \in Counter : /\ c = Pruned(counters[t]) /\ c.requests = counters[t].requests
                           /\ c.tokens = counters[t].tokens /\ (c.requests > 0 => c.present)
  BY <1>1, PrunedIs, Zenon DEF CounterFits
<1>3. counters' = [counters EXCEPT ![t] = c]
  BY <1>2, Zenon DEF UnregisterTarget
<1>4. PICK k \in [SlotTargets -> Counter] :
         counters' = k /\ k[t] = c /\ \A x \in SlotTargets : x # t => k[x] = counters[x]
  BY <1>1, <1>2, <1>3, Zenon
<1>5. \A x \in SlotTargets : CounterFits(k[x], slotOf, signals, x)
  <2>1. CounterFits(c, slotOf, signals, t)
    BY <1>1, <1>2, Zenon DEF CounterFits
  <2> QED
    BY <1>4, <2>1, Zenon DEF SlotInvariant
<1>6. slotOf' = slotOf /\ signals' = signals /\ counters' = k
  BY <1>4, Zenon DEF UnregisterTarget
<1> QED
  BY <1>5, <1>6, Zenon DEF SlotInvariant

(* No request holds a slot.                                                 *)
LEMMA SlotsStart == SlotInit => SlotInvariant
<1> SUFFICES ASSUME SlotInit PROVE SlotInvariant
  BY Zenon
<1>1. PICK first \in SlotTargets : first = CHOOSE t \in SlotTargets : TRUE
  BY SlotAssumption, Zenon
<1>2. slotOf = [r \in SlotRequests |-> [state |-> 3, target |-> first]]
  BY <1>1, Zenon DEF SlotInit
<1>3. /\ slotOf \in [SlotRequests -> Slot] /\ \A r \in SlotRequests : slotOf[r].state = 3
  BY <1>2 DEF Slot
<1>4. /\ signals \in [SlotRequests -> Signals]
      /\ \A r \in SlotRequests : \A h \in Sharers : signals[r][h] = "idle"
  BY Zenon DEF SlotInit, Signals, SlotPoints
<1>5. /\ counters \in [SlotTargets -> Counter]
      /\ \A t \in SlotTargets : counters[t].requests = 0 /\ counters[t].tokens = 0
  BY Zenon DEF SlotInit, Absent, Counter
<1>6. \A r \in SlotRequests : SlotFits(slotOf[r], signals[r])
  BY <1>3, <1>4, Zenon DEF SlotFits, Moving
<1>7. ASSUME NEW t \in SlotTargets PROVE CounterFits(counters[t], slotOf, signals, t)
  <2>1. UsersOf(slotOf, signals, t) = {} /\ FillersOf(slotOf, signals, t) = {}
    BY <1>3, <1>4 DEF UsersOf, FillersOf, Uses, Fills, Moving
  <2>2. Cardinality({}) = 0 /\ SumFunctionOnSet(PrefillTokens, {}) = 0
    BY FS_EmptySet, SumOfNone, Zenon
  <2> QED
    BY <1>5, <2>1, <2>2 DEF CounterFits
<1> QED
  BY <1>3, <1>4, <1>5, <1>6, <1>7, Zenon DEF SlotInvariant

(* Every step of the slots keeps the invariant.                             *)
LEMMA SlotsStep == SlotInvariant /\ [SlotNext]_slotVars => SlotInvariant'
<1> SUFFICES ASSUME SlotInvariant, [SlotNext]_slotVars PROVE SlotInvariant'
  BY Zenon
<1>1. CASE SlotNext
  BY <1>1, StepBeginRequest, StepSignalDecode, StepBeginDecode, StepSignalRelease, StepFree, StepPrune,
     StepUnregister, Zenon DEF SlotNext
<1>2. CASE UNCHANGED slotVars
  BY <1>2, Zenon DEF slotVars, SlotInvariant
<1> QED
  BY <1>1, <1>2, Zenon

(* The counters of a target are the requests begun on it and not freed, and *)
(* the tokens of those that still prefill.                                  *)
LEMMA SlotsStayExact == SlotSpec => []SlotsAreExact
<1>1. SlotInvariant => SlotsAreExact
  <2> SUFFICES ASSUME SlotInvariant, NEW t \in SlotTargets
               PROVE  /\ counters[t].requests = Cardinality(ActiveOn(t))
                      /\ counters[t].tokens = SumFunctionOnSet(PrefillTokens, PrefillingOn(t))
    BY Zenon DEF SlotsAreExact
  <2>1. UsersOf(slotOf, signals, t) = ActiveOn(t)
    BY Zenon DEF UsersOf, Uses, ActiveOn, Sharing
  <2>2. FillersOf(slotOf, signals, t) = PrefillingOn(t)
    BY Zenon DEF FillersOf, Fills, PrefillingOn, Sharing, Moving
  <2> QED
    BY <2>1, <2>2, Zenon DEF SlotInvariant, CounterFits
<1> QED
  BY <1>1, SlotsStart, SlotsStep, PTL DEF SlotSpec

(* For any management calls and URLs, and for any requests, targets and     *)
(* sharers.  KvIndexSupervisor: the references of a cache identity are the  *)
(* entries that hold one, the ones an overwritten entry left behind and the *)
(* ones of calls between counting and recording, also of a call that        *)
(* panicked there; and a call panics only after the last remove dropped the *)
(* indexer of an identity that had a new reference by then.  KvRequestSlot, *)
(* InMemorySlotManager: the counters a selection reads are the requests     *)
(* begun and not freed and the tokens still to prefill, in whatever order   *)
(* body and producer signal.                                                *)
THEOREM HoldersStayExact == SupSpec /\ SlotSpec => []HoldersAreExact
BY RefsStayExact, PanicsStayExplained, SlotsStayExact, PTL DEF HoldersAreExact
=============================================================================
