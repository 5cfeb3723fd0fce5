---------------------------- MODULE StorageProofs ---------------------------
(***************************************************************************)
(* Proofs about what the router keeps in memory.                           *)
(*                                                                         *)
(* The store of responses, for any responses, users and interleaving: its  *)
(* index of users agrees with what is stored.                              *)
(*                                                                         *)
(* The encoding cache, for any frontends, concurrent calls, models, texts  *)
(* and budgets that validate accepts: a call is answered with its own      *)
(* encoding, a cache holds each key once within its budgets, the gauges    *)
(* and the counters are exact, a model is loaded once, and the entry just  *)
(* stored survives the eviction it causes.  First come sums of bytes and   *)
(* lists of entries, then what lookup, push and the eviction loop do to    *)
(* such a list, then the inductive invariant, action by action.            *)
(***************************************************************************)
EXTENDS ResponseStore, EncodeCache, Induction

-----------------------------------------------------------------------------
(* What RetainOthers computes: the values of its local function, as a rule. *)
RetainRule(ids, id, g) ==
  g = [i \in 0 .. Len(ids) |->
         IF i = 0 THEN <<>> ELSE IF ids[i] = id THEN g[i - 1] ELSE Append(g[i - 1], ids[i])]

RetainTo(ids, id) == CHOOSE g : RetainRule(ids, id, g)

(* RetainOthers is the last value of the chosen function.                   *)
LEMMA RetainIsChosen ==
  ASSUME NEW ids, NEW id
  PROVE  RetainOthers(ids, id) = RetainTo(ids, id)[Len(ids)]
BY Zenon DEF RetainOthers, RetainTo, RetainRule

(* The local function of RetainOthers exists.                               *)
LEMMA RetainToExists ==
  ASSUME NEW S, NEW ids \in Seq(S), NEW id
  PROVE  RetainRule(ids, id, RetainTo(ids, id))
<1> DEFINE n == Len(ids)
           step == [i \in 1 .. n |-> [v \in Seq(S) |-> IF ids[i] = id THEN v ELSE Append(v, ids[i])]]
<1>1. n \in Nat /\ <<>> \in Seq(S)
  OBVIOUS
<1>2. StepsUp(n, Seq(S), step)
  BY DEF StepsUp
<1>3. PICK g : CountsUp(n, Seq(S), <<>>, step, g)
  <2> HIDE DEF n, step
  <2> QED
    BY <1>1, <1>2, UpwardRecursion, Zenon
<1>4. RetainRule(ids, id, g)
  <2>1. g \in [0 .. n -> Seq(S)]
    BY <1>3, Zenon DEF CountsUp
  <2>2. ASSUME NEW i \in 0 .. n
        PROVE  g[i] = IF i = 0 THEN <<>> ELSE IF ids[i] = id THEN g[i - 1] ELSE Append(g[i - 1], ids[i])
    <3>1. CASE i = 0
      BY <1>3, <3>1, Zenon DEF CountsUp
    <3>2. CASE i # 0
      <4>1. i \in 1 .. n /\ i - 1 \in 0 .. n
        BY <3>2
      <4>2. g[i] = step[i][g[i - 1]]
        BY <1>3, <4>1, Zenon DEF CountsUp
      <4>3. g[i - 1] \in Seq(S)
        BY <2>1, <4>1, Zenon
      <4>4. step[i][g[i - 1]] = IF ids[i] = id THEN g[i - 1] ELSE Append(g[i - 1], ids[i])
        BY <4>1, <4>3, Zenon
      <4> QED
        BY <3>2, <4>2, <4>4, Zenon
    <3> QED
      BY <3>1, <3>2, Zenon
  <2>3. g = [i \in 0 .. n |-> IF i = 0 THEN <<>> ELSE IF ids[i] = id THEN g[i - 1] ELSE Append(g[i - 1], ids[i])]
    BY <2>1, <2>2, Zenon
  <2> QED
    BY <2>3, Zenon DEF RetainRule
<1> QED
  BY <1>4, Zenon DEF RetainTo

(* What is retained are the other ids, and nothing else.                    *)
LEMMA RetainedAreTheOthers ==
  ASSUME NEW S, NEW ids \in Seq(S), NEW id
  PROVE  /\ RetainOthers(ids, id) \in Seq(S)
         /\ Range(RetainOthers(ids, id)) = Range(ids) \ {id}
<1> DEFINE g == RetainTo(ids, id)
           n == Len(ids)
           Upper(k) == {ids[i] : i \in 1 .. k}
           A == {k \in Nat : k <= n => g[k] \in Seq(S) /\ Range(g[k]) = Upper(k) \ {id}}
<1>1. g = [i \in 0 .. n |-> IF i = 0 THEN <<>> ELSE IF ids[i] = id THEN g[i - 1] ELSE Append(g[i - 1], ids[i])]
  BY RetainToExists, Zenon DEF RetainRule
<1>2. n \in Nat
  OBVIOUS
<1> HIDE DEF g
<1>3. 0 \in A
  <2>1. 0 \in 0 .. n
    BY <1>2
  <2>2. g[0] = <<>>
    BY <1>1, <2>1, Zenon
  <2>3. Range(<<>>) = {} /\ Upper(0) = {}
    BY DEF Range
  <2>4. g[0] \in Seq(S) /\ Range(g[0]) = Upper(0) \ {id}
    <3>1. <<>> \in Seq(S)
      OBVIOUS
    <3> HIDE DEF Upper
    <3> QED
      BY <2>2, <2>3, <3>1, Zenon
  <2> HIDE DEF Upper
  <2> QED
    BY <2>4
<1>4. ASSUME NEW k \in Nat, k \in A PROVE k + 1 \in A
  <2>1. SUFFICES ASSUME k + 1 <= n
                 PROVE  g[k + 1] \in Seq(S) /\ Range(g[k + 1]) = Upper(k + 1) \ {id}
    OBVIOUS
  <2>2. k + 1 \in 0 .. n /\ k + 1 # 0 /\ (k + 1) - 1 = k /\ k + 1 \in 1 .. n
    BY <1>2, <2>1
  <2>3. g[k + 1] = IF ids[k + 1] = id THEN g[k] ELSE Append(g[k], ids[k + 1])
    BY <1>1, <2>2, Zenon
  <2>4. g[k] \in Seq(S) /\ Range(g[k]) = Upper(k) \ {id}
    BY <1>4, <2>1
  <2>5. ids[k + 1] \in S
    BY <2>2
  <2>6. Upper(k + 1) = Upper(k) \cup {ids[k + 1]}
    <3>1. 1 .. k + 1 = (1 .. k) \cup {k + 1}
      OBVIOUS
    <3> QED
      BY <3>1, Zenon
  <2>7. \A s \in Seq(S) : \A x \in S : Append(s, x) \in Seq(S) /\ Range(Append(s, x)) = Range(s) \cup {x}
    BY DEF Range
  <2>8. /\ Append(g[k], ids[k + 1]) \in Seq(S)
        /\ Range(Append(g[k], ids[k + 1])) = Range(g[k]) \cup {ids[k + 1]}
    BY <2>4, <2>5, <2>7, Zenon
  <2> HIDE DEF Upper
  <2>9. CASE ids[k + 1] = id
    <3>1. g[k + 1] = g[k]
      BY <2>3, <2>9, Zenon
    <3>2. Upper(k + 1) \ {id} = Upper(k) \ {id}
      BY <2>6, <2>9, Zenon
    <3> QED
      BY <2>4, <3>1, <3>2, Zenon
  <2>10. CASE ids[k + 1] # id
    <3>1. g[k + 1] = Append(g[k], ids[k + 1])
      BY <2>3, <2>10, Zenon
    <3>2. Upper(k + 1) \ {id} = (Upper(k) \ {id}) \cup {ids[k + 1]}
      BY <2>6, <2>10, Zenon
    <3> QED
      BY <2>4, <2>8, <3>1, <3>2, Zenon
  <2> QED
    BY <2>9, <2>10, Zenon
<1>5. \A k \in Nat : k \in A
  <2> HIDE DEF A, n, Upper
  <2> QED
    BY <1>3, <1>4, SetInduction, Zenon
<1>6. g[n] \in Seq(S) /\ Range(g[n]) = Upper(n) \ {id}
  <2>1. n <= n
    BY <1>2
  <2> HIDE DEF n, Upper
  <2> QED
    BY <1>2, <1>5, <2>1, Zenon
<1>7. Upper(n) = Range(ids)
  BY DEF Range
<1>8. RetainOthers(ids, id) = g[n]
  BY RetainIsChosen, Zenon DEF g
<1> QED
  BY <1>6, <1>7, <1>8, Zenon

-----------------------------------------------------------------------------
(* The inductive invariant of the response store: its types, and that the   *)
(* index agrees with what is stored.                                        *)
StoreTypes ==
  /\ DOMAIN responses \subseteq ResponseIds
  /\ \A u \in DOMAIN userIndex : userIndex[u] \in Seq(ResponseIds)
  /\ Nobody \notin DOMAIN userIndex

StoreInv == StoreTypes /\ StoreIsIndexed

(* Looking up what Put and Without leave.                                   *)
HasPut(f, k, v, g) ==
  /\ DOMAIN g = DOMAIN f \cup {k}
  /\ g[k] = v
  /\ \A x \in DOMAIN f : x # k => g[x] = f[x]

(* Put has the new entry and the others as they were.                        *)
LEMMA PutFields ==
  ASSUME NEW f, NEW k, NEW v
  PROVE  HasPut(f, k, v, Put(f, k, v))
BY Zenon DEF Put, HasPut

(* Without has the other entries as they were.                               *)
LEMMA WithoutFields ==
  ASSUME NEW f, NEW K
  PROVE  /\ DOMAIN Without(f, K) = DOMAIN f \ K
         /\ \A x \in DOMAIN f \ K : Without(f, K)[x] = f[x]
<1>1. Without(f, K) = [x \in DOMAIN f \ K |-> f[x]]
  BY Zenon DEF Without, Restrict
<1> QED
  BY <1>1, Zenon

(* What a sequence holds with one more element.                             *)
LEMMA RangeOfAppend ==
  ASSUME NEW S, NEW s \in Seq(S), NEW x \in S
  PROVE  Append(s, x) \in Seq(S) /\ Range(Append(s, x)) = Range(s) \cup {x}
<1>1. \A t \in Seq(S) : \A y \in S : Append(t, y) \in Seq(S) /\ Range(Append(t, y)) = Range(t) \cup {y}
  BY DEF Range
<1> QED
  BY <1>1, Zenon

(* Only the empty sequence holds nothing.                                    *)
LEMMA RangeOfEmpty == \A S : \A s \in Seq(S) : (s = <<>> <=> Range(s) = {})
<1> SUFFICES ASSUME NEW S, NEW s \in Seq(S) PROVE s = <<>> <=> Range(s) = {}
  OBVIOUS
<1> QED
  BY DEF Range

(* Every index is a sequence of ids, the empty one where there is no entry. *)
LEMMA IndexIsASequence ==
  ASSUME StoreTypes, NEW u
  PROVE  /\ IndexOf(u) \in Seq(ResponseIds)
         /\ u \in DOMAIN userIndex => IndexOf(u) = userIndex[u]
         /\ u \notin DOMAIN userIndex => IndexOf(u) = <<>> /\ Range(IndexOf(u)) = {}
<1>1. <<>> \in Seq(ResponseIds)
  OBVIOUS
<1>2. Range(<<>>) = {}
  BY <1>1, RangeOfEmpty, Zenon
<1> QED
  BY <1>1, <1>2, Zenon DEF IndexOf, StoreTypes

(* The index as a set of ids, before and after a step.                      *)
Ids(f, u) == IF u \in DOMAIN f THEN Range(f[u]) ELSE {}

(* Ids is what IndexOf holds.                                                *)
LEMMA IdsOfIndex ==
  ASSUME StoreTypes, NEW u
  PROVE  Range(IndexOf(u)) = Ids(userIndex, u)
BY IndexIsASequence, Zenon DEF Ids

(* StoreIsIndexed in terms of Ids, for any contents of the store.           *)
Agrees(rs, ix, m) ==
  /\ \A id \in DOMAIN rs : rs[id].user # Nobody => id \in Ids(ix, rs[id].user)
  /\ ~m => \A u \in DOMAIN ix : Ids(ix, u) # {} /\ \A id \in Ids(ix, u) : id \in DOMAIN rs /\ rs[id].user = u

(* Agrees states the invariant.                                              *)
LEMMA AgreesIsIndexed ==
  ASSUME StoreTypes
  PROVE  StoreIsIndexed <=> Agrees(responses, userIndex, moved)
<1>1. \A u \in DOMAIN userIndex : userIndex[u] # <<>> <=> Range(userIndex[u]) # {}
  BY RangeOfEmpty, Zenon DEF StoreTypes
<1>2. \A u \in DOMAIN userIndex : Ids(userIndex, u) = Range(userIndex[u])
  BY Zenon DEF Ids
<1>3. \A u : Range(IndexOf(u)) = Ids(userIndex, u)
  BY IdsOfIndex, Zenon
<1> QED
  BY <1>1, <1>2, <1>3, Zenon DEF StoreIsIndexed, OwnedIsIndexed, IndexIsTheUsers, Agrees

(* The same for the next state.                                             *)
LEMMA AgreesNext ==
  ASSUME StoreTypes', Agrees(responses', userIndex', moved')
  PROVE  StoreInv'
<1>1. \A u \in DOMAIN userIndex' : userIndex'[u] # <<>> <=> Range(userIndex'[u]) # {}
  BY RangeOfEmpty, Zenon DEF StoreTypes
<1>2. \A u \in DOMAIN userIndex' : Ids(userIndex', u) = Range(userIndex'[u])
  BY Zenon DEF Ids
<1>3. Range(<<>>) = {}
  <2>1. <<>> \in Seq(ResponseIds)
    OBVIOUS
  <2> QED
    BY <2>1, RangeOfEmpty, Zenon
<1>4. \A u : Range(IndexOf(u)') = Ids(userIndex', u)
  BY <1>2, <1>3, Zenon DEF IndexOf, Ids
<1> QED
  BY <1>1, <1>2, <1>4, Zenon DEF StoreIsIndexed, OwnedIsIndexed, IndexIsTheUsers, Agrees, StoreInv

(* store_response appends the id to its user's index and replaces what was  *)
(* stored under it; only a response that changes its user leaves the old    *)
(* user's index behind.                                                     *)
LEMMA StoreKeepsIndex ==
  ASSUME StoreInv, NEW r \in Storable, StoreResponse(r)
  PROVE  StoreInv'
<1>1. Agrees(responses, userIndex, moved) /\ StoreTypes
  BY AgreesIsIndexed, Zenon DEF StoreInv
<1>2. r.id \in ResponseIds
  BY Zenon DEF ResponseIds
<1>3. /\ DOMAIN responses' = DOMAIN responses \cup {r.id}
      /\ responses'[r.id] = r
      /\ \A x \in DOMAIN responses : x # r.id => responses'[x] = responses[x]
  <2>1. responses' = Put(responses, r.id, r)
    BY Zenon DEF StoreResponse
  <2>2. HasPut(responses, r.id, r, responses')
    BY <2>1, PutFields, Zenon
  <2> QED
    BY <2>2, Zenon DEF HasPut
<1>4. moved' = (moved \/ (r.id \in DOMAIN responses /\ responses[r.id].user # r.user))
  BY Zenon DEF StoreResponse
<1>5. CASE r.user = Nobody
  <2>1. userIndex' = userIndex
    BY <1>5, Zenon DEF StoreResponse, Indexed
  <2>2. StoreTypes'
    BY <1>1, <1>2, <1>3, <2>1, Zenon DEF StoreTypes
  <2>3. Agrees(responses', userIndex', moved')
    <3>1. ASSUME NEW id \in DOMAIN responses', responses'[id].user # Nobody
          PROVE  id \in Ids(userIndex', responses'[id].user)
      <4>1. id # r.id
        BY <1>3, <1>5, <3>1, Zenon
      <4>2. id \in DOMAIN responses /\ responses'[id] = responses[id]
        BY <1>3, <4>1, Zenon
      <4> QED
        BY <1>1, <2>1, <3>1, <4>2, Zenon DEF Agrees
    <3>2. ASSUME ~moved', NEW u \in DOMAIN userIndex
          PROVE  /\ Ids(userIndex, u) # {}
                 /\ \A id \in Ids(userIndex, u) : id \in DOMAIN responses' /\ responses'[id].user = u
      <4>1. Ids(userIndex, u) # {} /\ \A id \in Ids(userIndex, u) : id \in DOMAIN responses /\ responses[id].user = u
        BY <1>1, <1>4, <3>2, Zenon DEF Agrees
      <4>2. u # Nobody
        BY <1>1, Zenon DEF StoreTypes
      <4>3. \A id \in Ids(userIndex, u) : id # r.id
        BY <1>4, <1>5, <3>2, <4>1, <4>2, Zenon
      <4> QED
        BY <1>3, <4>1, <4>3, Zenon
    <3> QED
      BY <2>1, <3>1, <3>2, Zenon DEF Agrees
  <2> QED
    BY <2>2, <2>3, AgreesNext, Zenon
<1>6. CASE r.user # Nobody
  <2> DEFINE u == r.user
             new == Append(IndexOf(u), r.id)
  <2>1. userIndex' = Put(userIndex, u, new)
    BY <1>6, Zenon DEF StoreResponse, Indexed
  <2>2. new \in Seq(ResponseIds) /\ Range(new) = Range(IndexOf(u)) \cup {r.id}
    <3>1. IndexOf(u) \in Seq(ResponseIds)
      BY <1>1, IndexIsASequence, Zenon
    <3>2. \A s \in Seq(ResponseIds) : \A x \in ResponseIds :
            Append(s, x) \in Seq(ResponseIds) /\ Range(Append(s, x)) = Range(s) \cup {x}
      BY RangeOfAppend, Zenon
    <3> QED
      BY <1>2, <3>1, <3>2, Zenon
  <2>3. Range(IndexOf(u)) = Ids(userIndex, u)
    BY <1>1, IdsOfIndex, Zenon
  <2> HIDE DEF new, u
  <2>4. /\ DOMAIN userIndex' = DOMAIN userIndex \cup {u}
        /\ userIndex'[u] = new
        /\ \A x \in DOMAIN userIndex : x # u => userIndex'[x] = userIndex[x]
    <3>1. HasPut(userIndex, u, new, userIndex')
      BY <2>1, PutFields, Zenon
    <3> QED
      BY <3>1, Zenon DEF HasPut
  <2>5. /\ Ids(userIndex', u) = Ids(userIndex, u) \cup {r.id}
        /\ \A x : x # u => Ids(userIndex', x) = Ids(userIndex, x)
    BY <2>2, <2>3, <2>4, Zenon DEF Ids
  <2>6. StoreTypes'
    BY <1>1, <1>2, <1>3, <1>6, <2>2, <2>4, Zenon DEF StoreTypes, u
  <2>7. ASSUME NEW id \in DOMAIN responses', responses'[id].user # Nobody
        PROVE  id \in Ids(userIndex', responses'[id].user)
    <3>1. CASE id = r.id
      BY <1>3, <2>5, <3>1, Zenon DEF u
    <3>2. CASE id # r.id
      <4>1. id \in DOMAIN responses /\ responses'[id] = responses[id]
        BY <1>3, <3>2, Zenon
      <4>2. id \in Ids(userIndex, responses[id].user)
        BY <1>1, <2>7, <4>1, Zenon DEF Agrees
      <4> QED
        BY <2>5, <4>1, <4>2, Zenon
    <3> QED
      BY <3>1, <3>2, Zenon
  <2>8. ASSUME ~moved', NEW x \in DOMAIN userIndex'
        PROVE  /\ Ids(userIndex', x) # {}
               /\ \A id \in Ids(userIndex', x) : id \in DOMAIN responses' /\ responses'[id].user = x
    <3>1. ~moved /\ (r.id \in DOMAIN responses => responses[r.id].user = u)
      BY <1>4, <2>8, Zenon DEF u
    <3>2. \A y \in DOMAIN userIndex : Ids(userIndex, y) # {} /\ \A id \in Ids(userIndex, y) : id \in DOMAIN responses /\ responses[id].user = y
      BY <1>1, <3>1, Zenon DEF Agrees
    <3>3. \A id \in Ids(userIndex, u) : id \in DOMAIN responses /\ responses[id].user = u
      BY <3>2, Zenon DEF Ids
    <3>4. CASE x = u
      BY <1>3, <2>5, <3>3, <3>4, Zenon DEF u
    <3>5. CASE x # u
      <4>1. x \in DOMAIN userIndex /\ Ids(userIndex', x) = Ids(userIndex, x)
        BY <2>4, <2>5, <3>5, Zenon
      <4>2. \A id \in Ids(userIndex, x) : id # r.id
        BY <3>1, <3>2, <3>5, <4>1, Zenon
      <4> QED
        BY <1>3, <3>2, <4>1, <4>2, Zenon
    <3> QED
      BY <3>4, <3>5, Zenon
  <2>9. Agrees(responses', userIndex', moved')
    BY <2>7, <2>8, Zenon DEF Agrees
  <2> QED
    BY <2>6, <2>9, AgreesNext, Zenon
<1> QED
  BY <1>5, <1>6, Zenon

(* delete_response takes the id out of its user's index, and the user out   *)
(* of the index with the last id.                                           *)
LEMMA DeleteKeepsIndex ==
  ASSUME StoreInv, NEW id, DeleteResponse(id)
  PROVE  StoreInv'
<1> DEFINE u == responses[id].user
           kept == RetainOthers(IndexOf(u), id)
<1>1. Agrees(responses, userIndex, moved) /\ StoreTypes
  BY AgreesIsIndexed, Zenon DEF StoreInv
<1>2. /\ id \in DOMAIN responses /\ moved' = moved
      /\ DOMAIN responses' = DOMAIN responses \ {id}
      /\ \A x \in DOMAIN responses \ {id} : responses'[x] = responses[x]
  BY WithoutFields, Zenon DEF DeleteResponse
<1>3. kept \in Seq(ResponseIds) /\ Range(kept) = Ids(userIndex, u) \ {id}
  <2>1. IndexOf(u) \in Seq(ResponseIds)
    BY <1>1, IndexIsASequence, Zenon
  <2>2. Range(IndexOf(u)) = Ids(userIndex, u)
    BY <1>1, IdsOfIndex, Zenon
  <2>3. kept \in Seq(ResponseIds) /\ Range(kept) = Range(IndexOf(u)) \ {id}
    BY <2>1, RetainedAreTheOthers, Zenon
  <2> QED
    BY <2>2, <2>3, Zenon
<1>4. userIndex' = IF u \notin DOMAIN userIndex THEN userIndex
                   ELSE IF kept = <<>> THEN Without(userIndex, {u}) ELSE Put(userIndex, u, kept)
  BY Zenon DEF DeleteResponse, Unindexed
<1>5. (kept = <<>>) <=> (Range(kept) = {})
  BY <1>3, RangeOfEmpty, Zenon
<1> HIDE DEF kept, u
<1>6. /\ Ids(userIndex', u) = Ids(userIndex, u) \ {id}
      /\ \A x : x # u => Ids(userIndex', x) = Ids(userIndex, x)
      /\ DOMAIN userIndex' \subseteq DOMAIN userIndex
      /\ \A x \in DOMAIN userIndex' : userIndex'[x] \in Seq(ResponseIds)
      /\ u \in DOMAIN userIndex' => Ids(userIndex', u) # {}
  <2>1. CASE u \notin DOMAIN userIndex
    <3>1. userIndex' = userIndex
      BY <1>4, <2>1, Zenon
    <3> QED
      BY <1>1, <2>1, <3>1, Zenon DEF Ids, StoreTypes
  <2>2. CASE u \in DOMAIN userIndex /\ kept = <<>>
    <3>1. userIndex' = Without(userIndex, {u})
      BY <1>4, <2>2, Zenon
    <3>2. /\ DOMAIN userIndex' = DOMAIN userIndex \ {u}
          /\ \A x \in DOMAIN userIndex \ {u} : userIndex'[x] = userIndex[x]
      BY <3>1, WithoutFields, Zenon
    <3>3. Ids(userIndex, u) \ {id} = {}
      BY <1>3, <1>5, <2>2, Zenon
    <3> QED
      BY <1>1, <3>2, <3>3, Zenon DEF Ids, StoreTypes
  <2>3. CASE u \in DOMAIN userIndex /\ kept # <<>>
    <3>1. userIndex' = Put(userIndex, u, kept)
      BY <1>4, <2>3, Zenon
    <3>2. /\ DOMAIN userIndex' = DOMAIN userIndex \cup {u}
          /\ userIndex'[u] = kept
          /\ \A x \in DOMAIN userIndex : x # u => userIndex'[x] = userIndex[x]
      <4>1. HasPut(userIndex, u, kept, userIndex')
        BY <3>1, PutFields, Zenon
      <4> QED
        BY <4>1, Zenon DEF HasPut
    <3>3. Ids(userIndex', u) = Range(kept) /\ Range(kept) # {}
      BY <1>5, <2>3, <3>2, Zenon DEF Ids
    <3> QED
      BY <1>1, <1>3, <2>3, <3>2, <3>3, Zenon DEF Ids, StoreTypes
  <2> QED
    BY <2>1, <2>2, <2>3, Zenon
<1>7. StoreTypes'
  BY <1>1, <1>2, <1>6, Zenon DEF StoreTypes
<1>8. ASSUME NEW x \in DOMAIN responses', responses'[x].user # Nobody
      PROVE  x \in Ids(userIndex', responses'[x].user)
  <2>1. x \in DOMAIN responses /\ x # id /\ responses'[x] = responses[x]
    BY <1>2, Zenon
  <2>2. x \in Ids(userIndex, responses[x].user)
    BY <1>1, <1>8, <2>1, Zenon DEF Agrees
  <2> QED
    BY <1>6, <2>1, <2>2, Zenon
<1>9. ASSUME ~moved', NEW x \in DOMAIN userIndex'
      PROVE  /\ Ids(userIndex', x) # {}
             /\ \A i \in Ids(userIndex', x) : i \in DOMAIN responses' /\ responses'[i].user = x
  <2>1. x \in DOMAIN userIndex /\ ~moved
    BY <1>2, <1>6, <1>9, Zenon
  <2>2. Ids(userIndex, x) # {} /\ \A i \in Ids(userIndex, x) : i \in DOMAIN responses /\ responses[i].user = x
    BY <1>1, <2>1, Zenon DEF Agrees
  <2>3. \A i \in Ids(userIndex', x) : i \in Ids(userIndex, x) /\ i # id
    BY <1>6, <2>2, Zenon DEF u
  <2>4. Ids(userIndex', x) # {}
    BY <1>6, <1>9, <2>2, Zenon
  <2> QED
    BY <1>2, <2>2, <2>3, <2>4, Zenon
<1>10. Agrees(responses', userIndex', moved')
  BY <1>8, <1>9, Zenon DEF Agrees
<1> QED
  BY <1>7, <1>10, AgreesNext, Zenon

(* delete_user_responses takes away what the index names and the index.     *)
LEMMA DeleteUserKeepsIndex ==
  ASSUME StoreInv, NEW u, DeleteUserResponses(u)
  PROVE  StoreInv'
<1>1. Agrees(responses, userIndex, moved) /\ StoreTypes
  BY AgreesIsIndexed, Zenon DEF StoreInv
<1>2. /\ u \in DOMAIN userIndex /\ moved' = moved
      /\ DOMAIN responses' = DOMAIN responses \ Ids(userIndex, u)
      /\ \A x \in DOMAIN responses \ Ids(userIndex, u) : responses'[x] = responses[x]
  BY WithoutFields, Zenon DEF DeleteUserResponses, Ids
<1>3. /\ DOMAIN userIndex' = DOMAIN userIndex \ {u}
      /\ \A x \in DOMAIN userIndex \ {u} : userIndex'[x] = userIndex[x]
  BY WithoutFields, Zenon DEF DeleteUserResponses
<1>4. \A x : x # u => Ids(userIndex', x) = Ids(userIndex, x)
  BY <1>3, Zenon DEF Ids
<1>5. StoreTypes'
  BY <1>1, <1>2, <1>3, Zenon DEF StoreTypes
<1>6. ASSUME NEW x \in DOMAIN responses', responses'[x].user # Nobody
      PROVE  x \in Ids(userIndex', responses'[x].user)
  <2>1. x \in DOMAIN responses /\ x \notin Ids(userIndex, u) /\ responses'[x] = responses[x]
    BY <1>2, Zenon
  <2>2. x \in Ids(userIndex, responses[x].user)
    BY <1>1, <1>6, <2>1, Zenon DEF Agrees
  <2>3. responses[x].user # u
    BY <2>1, <2>2, Zenon
  <2> QED
    BY <1>4, <2>1, <2>2, <2>3, Zenon
<1>7. ASSUME ~moved', NEW x \in DOMAIN userIndex'
      PROVE  /\ Ids(userIndex', x) # {}
             /\ \A i \in Ids(userIndex', x) : i \in DOMAIN responses' /\ responses'[i].user = x
  <2>1. x \in DOMAIN userIndex /\ x # u /\ ~moved
    BY <1>2, <1>3, <1>7, Zenon
  <2>2. \A y \in DOMAIN userIndex : Ids(userIndex, y) # {} /\ \A i \in Ids(userIndex, y) : i \in DOMAIN responses /\ responses[i].user = y
    BY <1>1, <2>1, Zenon DEF Agrees
  <2>3. \A i \in Ids(userIndex, x) : i \notin Ids(userIndex, u)
    BY <1>2, <2>1, <2>2, Zenon
  <2> QED
    BY <1>2, <1>4, <2>1, <2>2, <2>3, Zenon
<1>8. Agrees(responses', userIndex', moved')
  BY <1>6, <1>7, Zenon DEF Agrees
<1> QED
  BY <1>5, <1>8, AgreesNext, Zenon

(* Whatever is stored, stored again, deleted and read, the store and its    *)
(* index agree: every stored response of a user is in the user's index, and *)
(* as long as no id changed its user the index names nothing else, so that  *)
(* deleting leaves nothing behind.                                          *)
THEOREM StoreStaysIndexed == StoreSpec => []StoreIsIndexed
<1>1. StoreInit => StoreInv
  <2> SUFFICES ASSUME StoreInit PROVE StoreInv
    OBVIOUS
  <2>1. DOMAIN responses = {} /\ DOMAIN userIndex = {}
    BY DEF StoreInit
  <2> QED
    BY <2>1, Zenon DEF StoreInv, StoreTypes, StoreIsIndexed, OwnedIsIndexed, IndexIsTheUsers
<1>2. StoreInv /\ [StoreNext]_storeVars => StoreInv'
  <2> SUFFICES ASSUME StoreInv, [StoreNext]_storeVars PROVE StoreInv'
    OBVIOUS
  <2>1. ASSUME NEW r \in Storable, StoreResponse(r) PROVE StoreInv'
    BY <2>1, StoreKeepsIndex, Zenon
  <2>2. ASSUME NEW id \in ResponseIds, DeleteResponse(id) PROVE StoreInv'
    BY <2>2, DeleteKeepsIndex, Zenon
  <2>3. ASSUME NEW u \in ResponseUsers, DeleteUserResponses(u) PROVE StoreInv'
    BY <2>3, DeleteUserKeepsIndex, Zenon
  <2>4. ASSUME UNCHANGED <<responses, userIndex, moved>> PROVE StoreInv'
    BY <2>4, Zenon DEF StoreInv, StoreTypes, StoreIsIndexed, OwnedIsIndexed, IndexIsTheUsers, IndexOf
  <2>5. ASSUME NEW id \in ResponseIds, CollectChain(id) PROVE UNCHANGED <<responses, userIndex, moved>>
    BY <2>5, Zenon DEF CollectChain
  <2>6. ASSUME FetchChain \/ ChainReturned \/ UNCHANGED storeVars PROVE UNCHANGED <<responses, userIndex, moved>>
    BY <2>6, Zenon DEF FetchChain, ChainReturned, storeVars
  <2> QED
    BY <2>1, <2>2, <2>3, <2>4, <2>5, <2>6, Zenon DEF StoreNext
<1>3. StoreInv => StoreIsIndexed
  BY Zenon DEF StoreInv
<1> QED
  BY <1>1, <1>2, <1>3, PTL DEF StoreSpec

-----------------------------------------------------------------------------
(* The bytes of a list of entries.                                          *)

Texts == DOMAIN TextBytes

Entry == [key : Nat \X Texts, value : EncModels \X Texts, bytes : Nat]

(* What SumBytes computes: the values of its local function, as a rule.     *)
SumBytesRule(s, g) == g = [n \in 0 .. Len(s) |-> IF n = 0 THEN 0 ELSE g[n - 1] + s[n].bytes]

BytesTo(s) == CHOOSE g : SumBytesRule(s, g)

(* The sums of the first entries, one by one.                               *)
AddsUp(s, g) ==
  /\ g \in [0 .. Len(s) -> Nat] /\ g[0] = 0
  /\ \A n \in 1 .. Len(s) : g[n] = g[n - 1] + s[n].bytes

(* SumBytes is the last value of the chosen function.                       *)
LEMMA SumBytesIsChosen ==
  ASSUME NEW s
  PROVE  SumBytes(s) = BytesTo(s)[Len(s)]
BY Zenon DEF SumBytes, BytesTo, SumBytesRule

(* The local function of SumBytes exists and adds the entries up.           *)
LEMMA BytesAddUp ==
  ASSUME NEW s \in Seq(Entry)
  PROVE  AddsUp(s, BytesTo(s))
<1> DEFINE n == Len(s)
           step == [i \in 1 .. n |-> [v \in Nat |-> v + s[i].bytes]]
<1>1. n \in Nat /\ 0 \in Nat /\ \A i \in 1 .. n : s[i].bytes \in Nat
  <2>1. n \in Nat /\ \A i \in 1 .. n : s[i] \in Entry
    OBVIOUS
  <2>2. \A e \in Entry : e.bytes \in Nat
    BY DEF Entry
  <2> QED
    BY <2>1, <2>2, Zenon
<1>2. StepsUp(n, Nat, step)
  <2> HIDE DEF n
  <2> QED
    BY <1>1 DEF StepsUp
<1>3. PICK g : CountsUp(n, Nat, 0, step, g)
  <2> HIDE DEF n, step
  <2> QED
    BY <1>1, <1>2, UpwardRecursion, Zenon
<1>4. AddsUp(s, g)
  <2>1. ASSUME NEW i \in 1 .. n PROVE g[i] = g[i - 1] + s[i].bytes
    <3>1. i - 1 \in 0 .. n
      BY <1>1
    <3>2. g[i] = step[i][g[i - 1]] /\ g[i - 1] \in Nat
      BY <1>3, <3>1, Zenon DEF CountsUp
    <3> QED
      BY <3>2, Zenon
  <2> QED
    BY <1>3, <2>1, Zenon DEF CountsUp, AddsUp
<1>5. SumBytesRule(s, g)
  <2>1. ASSUME NEW i \in 0 .. n PROVE g[i] = IF i = 0 THEN 0 ELSE g[i - 1] + s[i].bytes
    <3>1. i # 0 => i \in 1 .. n
      BY <1>1
    <3> QED
      BY <1>4, <3>1, Zenon DEF AddsUp
  <2> QED
    BY <1>4, <2>1, Zenon DEF AddsUp, SumBytesRule
<1>6. SumBytesRule(s, BytesTo(s))
  BY <1>5, Zenon DEF BytesTo
<1>7. PICK h : h = BytesTo(s)
  BY Zenon
<1>8. \A i \in 0 .. n : h[i] = IF i = 0 THEN 0 ELSE h[i - 1] + s[i].bytes
  BY <1>6, <1>7, Zenon DEF SumBytesRule
<1>9. \A i \in 0 .. n : h[i] = g[i]
  <2> DEFINE Q == {i \in Nat : i <= n => h[i] = g[i]}
  <2> HIDE DEF n
  <2>1. 0 \in Q
    BY <1>1, <1>4, <1>8 DEF AddsUp
  <2>2. ASSUME NEW i \in Nat, i \in Q PROVE i + 1 \in Q
    <3>1. SUFFICES ASSUME i + 1 <= n PROVE h[i + 1] = g[i + 1]
      OBVIOUS
    <3>2. PICK j : j = i + 1
      BY Zenon
    <3>3. j \in 0 .. n /\ j \in 1 .. n /\ j # 0 /\ j - 1 = i /\ i <= n
      BY <1>1, <3>1, <3>2
    <3>4. h[j] = h[j - 1] + s[j].bytes
      BY <1>8, <3>3, Zenon
    <3>5. g[j] = g[j - 1] + s[j].bytes
      BY <1>4, <3>3, Zenon DEF AddsUp, n
    <3>6. h[i] = g[i]
      BY <2>2, <3>3, Zenon
    <3>7. h[j] = g[j]
      BY <3>3, <3>4, <3>5, <3>6, Zenon
    <3> QED
      BY <3>2, <3>7, Zenon
  <2>3. \A i \in Nat : i \in Q
    <3> HIDE DEF Q
    <3> QED
      BY <2>1, <2>2, SetInduction
  <2> QED
    BY <1>1, <2>3
<1>10. h = g
  <2>1. h = [i \in 0 .. n |-> h[i]]
    BY <1>6, <1>7, Zenon DEF SumBytesRule
  <2>2. g = [i \in 0 .. n |-> g[i]]
    BY <1>4, Zenon DEF AddsUp
  <2> QED
    BY <1>9, <2>1, <2>2, Zenon
<1> QED
  BY <1>4, <1>7, <1>10, Zenon

(* The n entries of s after the first a have the sizes of those of t after  *)
(* the first b.                                                             *)
Matches(s, a, t, b, n) ==
  /\ a + n <= Len(s) /\ b + n <= Len(t)
  /\ \A i \in 1 .. n : t[b + i].bytes = s[a + i].bytes

AddTheSame(s, a, t, b, n) ==
  BytesTo(t)[b + n] + BytesTo(s)[a] = BytesTo(s)[a + n] + BytesTo(t)[b]

(* Equal stretches add the same number of bytes.                            *)
LEMMA StretchesAddTheSame ==
  ASSUME NEW s \in Seq(Entry), NEW t \in Seq(Entry), NEW a \in Nat, NEW b \in Nat, NEW n \in Nat,
         Matches(s, a, t, b, n)
  PROVE  AddTheSame(s, a, t, b, n)
<1>1. PICK g, h : g = BytesTo(s) /\ h = BytesTo(t)
  BY Zenon
<1>2. AddsUp(s, g) /\ AddsUp(t, h)
  BY <1>1, BytesAddUp, Zenon
<1>3. PICK k, l : k = Len(s) /\ l = Len(t)
  BY Zenon
<1>4. k \in Nat /\ l \in Nat /\ a + n <= k /\ b + n <= l
  BY <1>3 DEF Matches
<1>5. /\ g \in [0 .. k -> Nat] /\ \A i \in 1 .. k : g[i] = g[i - 1] + s[i].bytes
      /\ h \in [0 .. l -> Nat] /\ \A i \in 1 .. l : h[i] = h[i - 1] + t[i].bytes
      /\ \A i \in 1 .. n : t[b + i].bytes = s[a + i].bytes
  BY <1>2, <1>3, Zenon DEF AddsUp, Matches
<1> DEFINE Q == {i \in Nat : i <= n => h[b + i] + g[a] = g[a + i] + h[b]}
<1>6. 0 \in Q
  <2>1. g[a] \in Nat /\ h[b] \in Nat /\ a + 0 = a /\ b + 0 = b
    BY <1>4, <1>5
  <2> QED
    BY <2>1
<1>7. ASSUME NEW i \in Nat, i \in Q PROVE i + 1 \in Q
  <2>1. SUFFICES ASSUME i + 1 <= n PROVE h[b + (i + 1)] + g[a] = g[a + (i + 1)] + h[b]
    OBVIOUS
  <2>2. PICK x, y : x = a + (i + 1) /\ y = b + (i + 1)
    BY Zenon
  <2>3. /\ x \in 1 .. k /\ x \in 0 .. k /\ x - 1 = a + i /\ x - 1 \in 0 .. k
        /\ y \in 1 .. l /\ y \in 0 .. l /\ y - 1 = b + i /\ y - 1 \in 0 .. l
        /\ i + 1 \in 1 .. n /\ i <= n /\ a \in 0 .. k /\ b \in 0 .. l
    BY <1>4, <2>1, <2>2
  <2>4. g[x] = g[x - 1] + s[x].bytes /\ h[y] = h[y - 1] + t[y].bytes /\ t[y].bytes = s[x].bytes
    BY <1>5, <2>2, <2>3, Zenon
  <2>5. h[y - 1] + g[a] = g[x - 1] + h[b]
    BY <1>7, <2>3, Zenon
  <2>6. PICK v : v = s[x].bytes
    BY Zenon
  <2>7. PICK g0, g1, h0, h1, ga, hb :
          /\ g0 = g[x - 1] /\ g1 = g[x] /\ h0 = h[y - 1] /\ h1 = h[y] /\ ga = g[a] /\ hb = h[b]
    BY Zenon
  <2>8. g0 \in Nat /\ h0 \in Nat /\ ga \in Nat /\ hb \in Nat /\ g1 \in Nat /\ h1 \in Nat
    BY <1>5, <2>3, <2>7, Zenon
  <2>9. v \in Nat
    <3>1. s[x] \in Entry
      BY <1>3, <2>3
    <3> QED
      BY <2>6, <3>1 DEF Entry
  <2>10. g1 = g0 + v /\ h1 = h0 + v /\ h0 + ga = g0 + hb
    BY <2>4, <2>5, <2>6, <2>7, Zenon
  <2>11. h1 + ga = g1 + hb
    BY <2>8, <2>9, <2>10
  <2> QED
    BY <2>2, <2>7, <2>11, Zenon
<1>8. \A i \in Nat : i \in Q
  <2> HIDE DEF Q
  <2> QED
    BY <1>6, <1>7, SetInduction
<1>9. n \in Q /\ n <= n
  BY <1>8
<1>10. h[b + n] + g[a] = g[a + n] + h[b]
  BY <1>9, Zenon
<1> QED
  BY <1>1, <1>10, Zenon DEF AddTheSame

(* An entry has a size.                                                     *)
LEMMA EntryHasBytes == \A e \in Entry : e.bytes \in Nat
BY DEF Entry

(* The bytes of a sequence are a number; an empty one has none, one entry   *)
(* has its own.                                                             *)
LEMMA BytesOfFew ==
  ASSUME NEW s \in Seq(Entry)
  PROVE  /\ SumBytes(s) \in Nat
         /\ SumBytes(s) = BytesTo(s)[Len(s)]
         /\ BytesTo(s)[0] = 0
         /\ Len(s) = 0 => SumBytes(s) = 0
         /\ Len(s) = 1 => SumBytes(s) = s[1].bytes
<1>1. AddsUp(s, BytesTo(s))
  BY BytesAddUp
<1>2. PICK g, n : g = BytesTo(s) /\ n = Len(s)
  BY Zenon
<1>3. g \in [0 .. n -> Nat] /\ g[0] = 0 /\ \A i \in 1 .. n : g[i] = g[i - 1] + s[i].bytes
  BY <1>1, <1>2, Zenon DEF AddsUp
<1>4. n \in Nat /\ n \in 0 .. n
  BY <1>2
<1>5. SumBytes(s) = g[n]
  BY <1>2, SumBytesIsChosen, Zenon
<1>6. n = 1 => g[n] = s[1].bytes
  <2>1. n = 1 => s[1].bytes \in Nat
    <3>1. \A i \in 1 .. Len(s) : s[i] \in Entry
      OBVIOUS
    <3>2. n = 1 => 1 \in 1 .. n
      OBVIOUS
    <3> QED
      BY <1>2, <3>1, <3>2, EntryHasBytes, Zenon
  <2>2. n = 1 => g[1] = g[1 - 1] + s[1].bytes
    BY <1>3
  <2> QED
    BY <1>3, <2>1, <2>2
<1> QED
  BY <1>2, <1>3, <1>4, <1>5, <1>6, Zenon

(* A new first entry adds its bytes.                                        *)
LEMMA BytesOfCons ==
  ASSUME NEW s \in Seq(Entry), NEW e \in Entry
  PROVE  /\ <<e>> \o s \in Seq(Entry) /\ Len(<<e>> \o s) = Len(s) + 1
         /\ (<<e>> \o s)[1] = e /\ \A i \in 1 .. Len(s) : (<<e>> \o s)[i + 1] = s[i]
         /\ SumBytes(<<e>> \o s) = e.bytes + SumBytes(s)
<1>1. PICK t, n : t = <<e>> \o s /\ n = Len(s)
  BY Zenon
<1>2. n \in Nat /\ t \in Seq(Entry) /\ Len(t) = n + 1 /\ t[1] = e /\ \A i \in 1 .. n : t[i + 1] = s[i]
  BY <1>1
<1>3. Matches(s, 0, t, 1, n)
  <2>1. 0 + n <= n /\ 1 + n <= n + 1 /\ \A i \in 1 .. n : 1 + i = i + 1 /\ 0 + i = i
    BY <1>2
  <2> QED
    BY <1>1, <1>2, <2>1 DEF Matches
<1>4. AddTheSame(s, 0, t, 1, n)
  <2>1. 0 \in Nat /\ 1 \in Nat
    OBVIOUS
  <2> QED
    BY <1>2, <1>3, <2>1, StretchesAddTheSame, Zenon
<1>5. PICK g, h : g = BytesTo(s) /\ h = BytesTo(t)
  BY Zenon
<1>6. /\ h \in [0 .. n + 1 -> Nat] /\ h[0] = 0 /\ \A i \in 1 .. n + 1 : h[i] = h[i - 1] + t[i].bytes
      /\ g \in [0 .. n -> Nat] /\ g[0] = 0
  BY <1>1, <1>2, <1>5, BytesAddUp, Zenon DEF AddsUp
<1>7. e.bytes \in Nat
  BY EntryHasBytes, Zenon
<1>8. h[1] = e.bytes
  <2>1. h[1] = h[1 - 1] + t[1].bytes
    BY <1>2, <1>6
  <2>2. h[1] = h[0] + e.bytes
    BY <1>2, <2>1
  <2> QED
    BY <1>6, <1>7, <2>2
<1>9. SumBytes(t) = h[n + 1] /\ SumBytes(s) = g[n] /\ g[n] \in Nat /\ h[n + 1] \in Nat
  <2>1. n \in 0 .. n /\ n + 1 \in 0 .. n + 1
    BY <1>2
  <2> QED
    BY <1>1, <1>2, <1>5, <1>6, <2>1, SumBytesIsChosen, Zenon
<1>10. h[1 + n] + g[0] = g[0 + n] + h[1]
  BY <1>4, <1>5, Zenon DEF AddTheSame
<1>11. h[n + 1] = g[n] + e.bytes
  <2>1. 1 + n = n + 1 /\ 0 + n = n
    BY <1>2
  <2>2. h[n + 1] + 0 = g[n] + e.bytes
    BY <1>6, <1>8, <1>10, <2>1, Zenon
  <2> QED
    BY <1>7, <1>9, <2>2
<1>12. SumBytes(t) = e.bytes + SumBytes(s)
  BY <1>7, <1>9, <1>11
<1> QED
  BY <1>1, <1>2, <1>12, Zenon

(* t is s without its i-th entry.                                           *)
IsRemoved(s, i, t) ==
  /\ t \in Seq(Entry) /\ Len(t) + 1 = Len(s)
  /\ \A j \in 1 .. Len(t) : t[j] = IF j < i THEN s[j] ELSE s[j + 1]

(* RemovedAt removes one entry.                                              *)
LEMMA RemovesOne ==
  ASSUME NEW s \in Seq(Entry), NEW i \in 1 .. Len(s)
  PROVE  IsRemoved(s, i, RemovedAt(s, i))
<1>1. PICK a, b, n : a = SubSeq(s, 1, i - 1) /\ b = SubSeq(s, i + 1, Len(s)) /\ n = Len(s)
  BY Zenon
<1>2. n \in Nat /\ i \in Nat /\ 1 <= i /\ i <= n
  BY <1>1
<1>3. a \in Seq(Entry) /\ Len(a) = i - 1 /\ \A j \in 1 .. i - 1 : a[j] = s[j]
  BY <1>1, <1>2
<1>4. b \in Seq(Entry) /\ Len(b) = n - i /\ \A j \in 1 .. n - i : b[j] = s[i + j]
  BY <1>1, <1>2
<1>5. PICK t : t = a \o b
  BY Zenon
<1>6. /\ t \in Seq(Entry) /\ Len(t) = Len(a) + Len(b)
      /\ \A j \in 1 .. Len(a) + Len(b) : t[j] = IF j <= Len(a) THEN a[j] ELSE b[j - Len(a)]
  <2>1. a \in Seq(Entry) /\ b \in Seq(Entry)
    BY <1>3, <1>4, Zenon
  <2>2. t \in Seq(Entry)
    BY <1>5, <2>1
  <2>3. Len(t) = Len(a) + Len(b)
    BY <1>5, <2>1
  <2>4. \A j \in 1 .. Len(a) + Len(b) : t[j] = IF j <= Len(a) THEN a[j] ELSE b[j - Len(a)]
    BY <1>5, <2>1
  <2> QED
    BY <2>2, <2>3, <2>4, Zenon
<1>7. Len(t) + 1 = n
  BY <1>2, <1>3, <1>4, <1>6
<1>8. ASSUME NEW j \in 1 .. Len(t) PROVE t[j] = IF j < i THEN s[j] ELSE s[j + 1]
  <2>1. j \in 1 .. Len(a) + Len(b)
    BY <1>6, Zenon
  <2>2. CASE j < i
    <3>1. j <= Len(a) /\ j \in 1 .. i - 1
      BY <1>2, <1>3, <2>2
    <3> QED
      BY <1>3, <1>6, <2>1, <2>2, <3>1, Zenon
  <2>3. CASE ~(j < i)
    <3>1. ~(j <= Len(a))
      BY <1>2, <1>3, <2>3
    <3>2. PICK k : k = j - Len(a)
      BY Zenon
    <3>3. k \in 1 .. n - i /\ i + k = j + 1
      BY <1>2, <1>3, <1>7, <2>3, <3>2
    <3>4. t[j] = b[k]
      BY <1>6, <2>1, <3>1, <3>2, Zenon
    <3>5. b[k] = s[i + k]
      BY <1>4, <3>3, Zenon
    <3> QED
      BY <2>3, <3>3, <3>4, <3>5, Zenon
  <2> QED
    BY <2>2, <2>3, Zenon
<1>9. RemovedAt(s, i) = t
  BY <1>1, <1>5, Zenon DEF RemovedAt
<1> QED
  BY <1>1, <1>6, <1>7, <1>8, <1>9, Zenon DEF IsRemoved

(* A removed entry takes its bytes with it.                                 *)
LEMMA BytesOfRemoved ==
  ASSUME NEW s \in Seq(Entry), NEW i \in 1 .. Len(s), NEW t, IsRemoved(s, i, t)
  PROVE  SumBytes(t) + s[i].bytes = SumBytes(s)
<1>1. PICK n, m : n = Len(s) /\ m = n - i
  BY Zenon
<1>2. n \in Nat /\ i \in 1 .. n /\ m \in Nat /\ i - 1 \in Nat /\ i \in Nat /\ t \in Seq(Entry) /\ Len(t) = n - 1
  BY <1>1 DEF IsRemoved
<1>3. \A j \in 1 .. n - 1 : t[j] = IF j < i THEN s[j] ELSE s[j + 1]
  BY <1>2, Zenon DEF IsRemoved
<1>4. Matches(s, 0, t, 0, i - 1)
  <2>1. 0 + (i - 1) <= n /\ 0 + (i - 1) <= n - 1
    BY <1>2
  <2>2. ASSUME NEW j \in 1 .. i - 1 PROVE t[0 + j].bytes = s[0 + j].bytes
    <3>1. 0 + j = j /\ j \in 1 .. n - 1 /\ j < i
      BY <1>2
    <3> QED
      BY <1>3, <3>1, Zenon
  <2> QED
    BY <1>1, <1>2, <2>1, <2>2, Zenon DEF Matches
<1>5. Matches(s, i, t, i - 1, m)
  <2>1. i + m <= n /\ (i - 1) + m <= n - 1
    BY <1>1, <1>2
  <2>2. ASSUME NEW j \in 1 .. m PROVE t[(i - 1) + j].bytes = s[i + j].bytes
    <3>1. PICK k : k = (i - 1) + j
      BY Zenon
    <3>2. k \in 1 .. n - 1 /\ ~(k < i) /\ k + 1 = i + j
      BY <1>1, <1>2, <3>1
    <3>3. t[k] = s[k + 1]
      BY <1>3, <3>2, Zenon
    <3> QED
      BY <3>1, <3>2, <3>3, Zenon
  <2> QED
    BY <1>1, <1>2, <2>1, <2>2, Zenon DEF Matches
<1>6. 0 \in Nat
  OBVIOUS
<1>7. AddTheSame(s, 0, t, 0, i - 1)
  BY <1>2, <1>4, <1>6, StretchesAddTheSame, Zenon
<1>8. AddTheSame(s, i, t, i - 1, m)
  BY <1>2, <1>5, StretchesAddTheSame, Zenon
<1>9. PICK g, h : g = BytesTo(s) /\ h = BytesTo(t)
  BY Zenon
<1>10. /\ g \in [0 .. n -> Nat] /\ g[0] = 0 /\ \A j \in 1 .. n : g[j] = g[j - 1] + s[j].bytes
       /\ h \in [0 .. n - 1 -> Nat] /\ h[0] = 0
  BY <1>1, <1>2, <1>9, BytesAddUp, Zenon DEF AddsUp
<1>11. h[0 + (i - 1)] + g[0] = g[0 + (i - 1)] + h[0] /\ h[(i - 1) + m] + g[i] = g[i + m] + h[i - 1]
  BY <1>7, <1>8, <1>9, Zenon DEF AddTheSame
<1>12. 0 + (i - 1) = i - 1 /\ (i - 1) + m = n - 1 /\ i + m = n
  BY <1>1, <1>2
<1>13. PICK g0, g1, g2, h0, h2 : g0 = g[i - 1] /\ g1 = g[i] /\ g2 = g[n] /\ h0 = h[i - 1] /\ h2 = h[n - 1]
  BY Zenon
<1>14. g0 \in Nat /\ g1 \in Nat /\ g2 \in Nat /\ h0 \in Nat /\ h2 \in Nat
  BY <1>2, <1>10, <1>13
<1>15. h0 + 0 = g0 + 0 /\ h2 + g1 = g2 + h0 /\ g1 = g0 + s[i].bytes
  BY <1>2, <1>10, <1>11, <1>12, <1>13, Zenon
<1>16. s[i].bytes \in Nat
  <2>1. s[i] \in Entry
    OBVIOUS
  <2> QED
    BY <2>1, EntryHasBytes, Zenon
<1>17. h2 + s[i].bytes = g2
  <2>1. PICK v : v = s[i].bytes
    BY Zenon
  <2>2. v \in Nat /\ h0 + 0 = g0 + 0 /\ h2 + g1 = g2 + h0 /\ g1 = g0 + v
    BY <1>15, <1>16, <2>1, Zenon
  <2>3. h2 + v = g2
    BY <1>14, <2>2
  <2> QED
    BY <2>1, <2>3, Zenon
<1> QED
  BY <1>1, <1>2, <1>9, <1>13, <1>17, SumBytesIsChosen, Zenon

(* The first and the other entries of a sequence have its bytes.            *)
LEMMA BytesOfParts ==
  ASSUME NEW s \in Seq(Entry), NEW n \in 0 .. Len(s)
  PROVE  /\ SubSeq(s, 1, n) \in Seq(Entry) /\ Len(SubSeq(s, 1, n)) = n
         /\ \A i \in 1 .. n : SubSeq(s, 1, n)[i] = s[i]
         /\ SumBytes(SubSeq(s, 1, n)) = BytesTo(s)[n]
         /\ SumBytes(SubSeq(s, 1, n)) + SumBytes(SubSeq(s, n + 1, Len(s))) = SumBytes(s)
<1>1. PICK a, b, k, m : a = SubSeq(s, 1, n) /\ b = SubSeq(s, n + 1, k) /\ k = Len(s) /\ m = k - n
  BY Zenon
<1>2. k \in Nat /\ n \in Nat /\ n <= k /\ m \in Nat
  BY <1>1
<1>3. a \in Seq(Entry) /\ Len(a) = n /\ \A i \in 1 .. n : a[i] = s[i]
  BY <1>1, <1>2
<1>4. b \in Seq(Entry) /\ Len(b) = m /\ \A i \in 1 .. m : b[i] = s[n + i]
  BY <1>1, <1>2
<1>5. Matches(s, 0, a, 0, n)
  <2>1. 0 + n <= k /\ 0 + n <= n /\ \A i \in 1 .. n : 0 + i = i
    BY <1>2
  <2> QED
    BY <1>1, <1>3, <2>1 DEF Matches
<1>6. Matches(s, n, b, 0, m)
  <2>1. n + m <= k /\ 0 + m <= m /\ \A i \in 1 .. m : 0 + i = i
    BY <1>1, <1>2
  <2> QED
    BY <1>1, <1>4, <2>1 DEF Matches
<1>7. 0 \in Nat
  OBVIOUS
<1>8. AddTheSame(s, 0, a, 0, n)
  BY <1>2, <1>3, <1>5, <1>7, StretchesAddTheSame, Zenon
<1>9. AddTheSame(s, n, b, 0, m)
  BY <1>2, <1>4, <1>6, <1>7, StretchesAddTheSame, Zenon
<1>10. PICK g, h, l : g = BytesTo(s) /\ h = BytesTo(a) /\ l = BytesTo(b)
  BY Zenon
<1>11. /\ g \in [0 .. k -> Nat] /\ g[0] = 0 /\ h \in [0 .. n -> Nat] /\ h[0] = 0
       /\ l \in [0 .. m -> Nat] /\ l[0] = 0
  BY <1>1, <1>3, <1>4, <1>10, BytesAddUp, Zenon DEF AddsUp
<1>12. h[0 + n] + g[0] = g[0 + n] + h[0] /\ l[0 + m] + g[n] = g[n + m] + l[0]
  BY <1>8, <1>9, <1>10, Zenon DEF AddTheSame
<1>13. 0 + n = n /\ 0 + m = m /\ n + m = k
  BY <1>1, <1>2
<1>14. PICK gn, gk, hn, lm : gn = g[n] /\ gk = g[k] /\ hn = h[n] /\ lm = l[m]
  BY Zenon
<1>15. gn \in Nat /\ gk \in Nat /\ hn \in Nat /\ lm \in Nat
  BY <1>2, <1>11, <1>14
<1>16. hn + 0 = gn + 0 /\ lm + gn = gk + 0
  BY <1>11, <1>12, <1>13, <1>14, Zenon
<1>17. hn = gn /\ hn + lm = gk
  BY <1>15, <1>16
<1>18. SumBytes(a) = hn /\ SumBytes(b) = lm /\ SumBytes(s) = gk
  BY <1>1, <1>3, <1>4, <1>10, <1>14, SumBytesIsChosen, Zenon
<1> QED
  BY <1>1, <1>3, <1>10, <1>14, <1>17, <1>18, Zenon

Distinct(s) == \A i, j \in 1 .. Len(s) : s[i].key = s[j].key => i = j

(* t is what stays of s when the entries of old leave for a new entry of    *)
(* key k.                                                                   *)
IsRest(s, k, old, t) ==
  /\ t \in Seq(Entry) /\ Len(t) + Len(old) = Len(s) /\ Len(t) < MaxCached
  /\ SumBytes(t) + SumBytes(old) = SumBytes(s)
  /\ Distinct(t)
  /\ \A i \in 1 .. Len(t) : t[i].key # k /\ \E j \in 1 .. Len(s) : t[i] = s[j]

IsFound(s, k, e) == e \in Entry /\ e.key = k /\ \E j \in 1 .. Len(s) : e = s[j]

(* One entry alone.                                                         *)
LEMMA BytesOfOne ==
  ASSUME NEW e \in Entry
  PROVE  <<e>> \in Seq(Entry) /\ Len(<<e>>) = 1 /\ SumBytes(<<e>>) = e.bytes
<1>1. PICK s : s = <<e>>
  BY Zenon
<1>2. s \in Seq(Entry) /\ Len(s) = 1 /\ s[1] = e
  BY <1>1
<1>3. SumBytes(s) = e.bytes
  BY <1>2, BytesOfFew, Zenon
<1> QED
  BY <1>1, <1>2, <1>3, Zenon

(* The entry of a key is found, and the others stay when it leaves.         *)
LEMMA RestOfSame ==
  ASSUME NEW s \in Seq(Entry), Len(s) <= MaxCached, Distinct(s), NEW k, HasKey(s, k)
  PROVE  IsFound(s, k, EntryOf(s, k)) /\ IsRest(s, k, <<EntryOf(s, k)>>, WithoutKey(s, k))
<1>1. PICK i, t, n : i = KeyPosition(s, k) /\ t = WithoutKey(s, k) /\ n = Len(s)
  BY Zenon
<1>2. i \in 1 .. n /\ s[i].key = k
  BY <1>1, Zenon DEF HasKey, KeyPosition
<1>3. EntryOf(s, k) = s[i] /\ t = RemovedAt(s, i)
  BY <1>1, Zenon DEF EntryOf, WithoutKey
<1>4. \A j \in 1 .. Len(s) : s[j] \in Entry
  OBVIOUS
<1>5. IsFound(s, k, s[i])
  BY <1>1, <1>2, <1>4, Zenon DEF IsFound
<1>6. IsRemoved(s, i, t)
  BY <1>1, <1>2, <1>3, RemovesOne, Zenon
<1>7. PICK m : m = Len(t)
  BY Zenon
<1>8. n \in Nat /\ m \in Nat /\ t \in Seq(Entry) /\ m + 1 = n /\ n <= MaxCached /\ MaxCached \in Nat /\ m < MaxCached
  <2>1. t \in Seq(Entry) /\ Len(t) + 1 = Len(s)
    BY <1>6, Zenon DEF IsRemoved
  <2> QED
    BY <1>1, <1>7, <2>1, EncodeAssumption
<1>9. \A j \in 1 .. m : t[j] = IF j < i THEN s[j] ELSE s[j + 1]
  BY <1>6, <1>7, Zenon DEF IsRemoved
<1> DEFINE Back(j) == IF j < i THEN j ELSE j + 1
<1>10. /\ \A j \in 1 .. m : Back(j) \in 1 .. n /\ Back(j) # i
       /\ \A j, l \in 1 .. m : Back(j) = Back(l) => j = l
  BY <1>2, <1>8
<1>11. \A j \in 1 .. m : t[j] = s[Back(j)]
  BY <1>9, Zenon
<1>12. \A j, l \in 1 .. n : s[j].key = s[l].key => j = l
  BY <1>1, Zenon DEF Distinct
<1> HIDE DEF Back
<1>13. Distinct(t)
  <2>1. ASSUME NEW j \in 1 .. m, NEW l \in 1 .. m, t[j].key = t[l].key PROVE j = l
    <3>1. Back(j) \in 1 .. n /\ Back(l) \in 1 .. n
      BY <1>10, Zenon
    <3>2. t[j] = s[Back(j)] /\ t[l] = s[Back(l)]
      BY <1>11, Zenon
    <3>3. s[Back(j)].key = s[Back(l)].key
      BY <2>1, <3>2, Zenon
    <3>4. Back(j) = Back(l)
      BY <1>12, <3>1, <3>3, Zenon
    <3> QED
      BY <1>10, <3>4, Zenon
  <2> QED
    BY <1>7, <2>1, Zenon DEF Distinct
<1>14. ASSUME NEW j \in 1 .. m PROVE t[j].key # k /\ \E l \in 1 .. n : t[j] = s[l]
  <2>1. Back(j) \in 1 .. n /\ Back(j) # i /\ t[j] = s[Back(j)]
    BY <1>10, <1>11, Zenon
  <2>2. s[Back(j)].key # s[i].key
    BY <1>2, <1>12, <2>1, Zenon
  <2> QED
    BY <1>2, <2>1, <2>2, Zenon
<1>15. <<s[i]>> \in Seq(Entry) /\ Len(<<s[i]>>) = 1 /\ SumBytes(<<s[i]>>) = s[i].bytes
  BY <1>1, <1>2, <1>4, BytesOfOne, Zenon
<1>16. SumBytes(t) + s[i].bytes = SumBytes(s)
  BY <1>1, <1>2, <1>6, BytesOfRemoved, Zenon
<1>17. IsRest(s, k, <<s[i]>>, t)
  BY <1>1, <1>7, <1>8, <1>13, <1>14, <1>15, <1>16, Zenon DEF IsRest
<1> QED
  BY <1>1, <1>3, <1>5, <1>17, Zenon

(* The first entries stay when the last ones leave for a new key.           *)
LEMMA RestOfFirst ==
  ASSUME NEW s \in Seq(Entry), Distinct(s), NEW k, ~HasKey(s, k),
         NEW n \in 0 .. Len(s), n < MaxCached, NEW old \in Seq(Entry), Len(old) + n = Len(s),
         SumBytes(old) = SumBytes(SubSeq(s, n + 1, Len(s)))
  PROVE  IsRest(s, k, old, SubSeq(s, 1, n))
<1>1. PICK t, m : t = SubSeq(s, 1, n) /\ m = Len(s)
  BY Zenon
<1>2. /\ t \in Seq(Entry) /\ Len(t) = n /\ \A i \in 1 .. n : t[i] = s[i]
      /\ SumBytes(t) + SumBytes(SubSeq(s, n + 1, m)) = SumBytes(s)
  BY <1>1, BytesOfParts, Zenon
<1>3. \A i \in 1 .. n : i \in 1 .. m
  BY <1>1
<1>4. Distinct(t)
  BY <1>1, <1>2, <1>3, Zenon DEF Distinct
<1>5. \A i \in 1 .. n : t[i].key # k /\ \E j \in 1 .. m : t[i] = s[j]
  BY <1>1, <1>2, <1>3, Zenon DEF HasKey
<1>6. n + Len(old) = m
  BY <1>1
<1> QED
  BY <1>1, <1>2, <1>4, <1>5, <1>6, Zenon DEF IsRest

(* What a push makes of s: the new entry first, the others from s.          *)
IsPushed(s, e, q) ==
  /\ q.lru \in Seq(Entry) /\ Len(q.lru) <= MaxCached /\ Distinct(q.lru)
  /\ q.bytes = SumBytes(q.lru) /\ 1 <= Len(q.lru) /\ q.lru[1] = e
  /\ \A i \in 1 .. Len(q.lru) : q.lru[i] = e \/ \E j \in 1 .. Len(s) : q.lru[i] = s[j]
  /\ q.evicted \in Nat /\ q.replaced \in Nat
  /\ Len(q.lru) + q.evicted + q.replaced = Len(s) + 1

(* r is s with e in front and without the entries of old.                   *)
Renewed(s, e, old, r) ==
  /\ r \in Seq(Entry) /\ Len(r) <= MaxCached /\ Distinct(r)
  /\ SumBytes(r) = SumBytes(s) - SumBytes(old) + e.bytes
  /\ Len(r) + Len(old) = Len(s) + 1 /\ 1 <= Len(r) /\ r[1] = e
  /\ \A i \in 1 .. Len(r) : r[i] = e \/ \E j \in 1 .. Len(s) : r[i] = s[j]

(* A new entry in front of what stays.                                      *)
LEMMA ConsOfRest ==
  ASSUME NEW s \in Seq(Entry), NEW e \in Entry, NEW old \in Seq(Entry), NEW t, IsRest(s, e.key, old, t)
  PROVE  Renewed(s, e, old, <<e>> \o t)
<1>1. PICK r, n : r = <<e>> \o t /\ n = Len(t)
  BY Zenon
<1>2. t \in Seq(Entry)
  BY Zenon DEF IsRest
<1>3. /\ r \in Seq(Entry) /\ Len(r) = n + 1 /\ r[1] = e /\ \A i \in 1 .. n : r[i + 1] = t[i]
      /\ SumBytes(r) = e.bytes + SumBytes(t)
  BY <1>1, <1>2, BytesOfCons, Zenon
<1>4. n \in Nat /\ Len(s) \in Nat /\ Len(old) \in Nat /\ MaxCached \in Nat
  BY <1>1, <1>2, EncodeAssumption
<1>5. n + Len(old) = Len(s) /\ n < MaxCached /\ SumBytes(t) + SumBytes(old) = SumBytes(s)
  BY <1>1, Zenon DEF IsRest
<1>6. Len(r) <= MaxCached /\ Len(r) + Len(old) = Len(s) + 1 /\ 1 <= Len(r)
  BY <1>3, <1>4, <1>5
<1>7. SumBytes(r) = SumBytes(s) - SumBytes(old) + e.bytes
  <2>1. PICK x, y, z, v, w : x = SumBytes(r) /\ y = SumBytes(s) /\ z = SumBytes(old) /\ v = e.bytes /\ w = SumBytes(t)
    BY Zenon
  <2>2. x \in Nat /\ y \in Nat /\ z \in Nat /\ v \in Nat /\ w \in Nat
    BY <1>2, <1>3, <2>1, BytesOfFew, EntryHasBytes, Zenon
  <2>3. x = v + w /\ w + z = y
    BY <1>3, <1>5, <2>1, Zenon
  <2>4. x = y - z + v
    BY <2>2, <2>3
  <2> QED
    BY <2>1, <2>4, Zenon
<1>8. ASSUME NEW i \in 1 .. Len(r), i # 1
      PROVE  \E l \in 1 .. n : l + 1 = i /\ r[i] = t[l]
  <2>1. PICK l : l = i - 1
    BY Zenon
  <2>2. l \in 1 .. n /\ l + 1 = i
    BY <1>3, <1>4, <1>8, <2>1
  <2> QED
    BY <1>3, <2>2, Zenon
<1>9. \A l \in 1 .. n : t[l].key # e.key /\ \E j \in 1 .. Len(s) : t[l] = s[j]
  BY <1>1, Zenon DEF IsRest
<1>10. \A i \in 1 .. Len(r) : r[i] = e \/ \E j \in 1 .. Len(s) : r[i] = s[j]
  <2>1. ASSUME NEW i \in 1 .. Len(r), i # 1 PROVE \E j \in 1 .. Len(s) : r[i] = s[j]
    <3>1. PICK l \in 1 .. n : r[i] = t[l]
      BY <1>8, <2>1, Zenon
    <3> QED
      BY <1>9, <3>1, Zenon
  <2> QED
    BY <1>3, <2>1, Zenon
<1>11. ASSUME NEW i \in 1 .. Len(r), NEW j \in 1 .. Len(r), r[i].key = r[j].key
       PROVE  i = j
  <2>1. CASE i = 1 /\ j = 1
    BY <2>1, Zenon
  <2>2. CASE i = 1 /\ j # 1
    BY <1>3, <1>8, <1>9, <1>11, <2>2, Zenon
  <2>3. CASE i # 1 /\ j = 1
    BY <1>3, <1>8, <1>9, <1>11, <2>3, Zenon
  <2>4. CASE i # 1 /\ j # 1
    <3>1. PICK l \in 1 .. n : l + 1 = i /\ r[i] = t[l]
      BY <1>8, <2>4, Zenon
    <3>2. PICK m \in 1 .. n : m + 1 = j /\ r[j] = t[m]
      BY <1>8, <2>4, Zenon
    <3>3. t[l].key = t[m].key
      BY <1>11, <3>1, <3>2, Zenon
    <3>4. l = m
      BY <1>1, <3>3, Zenon DEF IsRest, Distinct
    <3> QED
      BY <3>1, <3>2, <3>4, Zenon
  <2> QED
    BY <2>1, <2>2, <2>3, <2>4, Zenon
<1>12. Distinct(r)
  BY <1>11, Zenon DEF Distinct
<1> QED
  BY <1>1, <1>3, <1>6, <1>7, <1>10, <1>12, Zenon DEF Renewed

(* LruCache::push keeps one entry per key and the exact byte count; what    *)
(* leaves is either replaced or evicted.                                    *)
LEMMA PushIs ==
  ASSUME NEW c, NEW s, NEW e \in Entry, s = c.lru, s \in Seq(Entry), Len(s) <= MaxCached, Distinct(s), c.bytes = SumBytes(s)
  PROVE  IsPushed(s, e, Push(c, e))
<1>1. PICK k, n : k = e.key /\ n = Len(s)
  BY Zenon
<1>2. n \in Nat /\ MaxCached \in Nat \ {0} /\ n <= MaxCached
  BY <1>1, EncodeAssumption
<1> DEFINE Made(old, t, x, y) ==
             [lru |-> <<e>> \o t, bytes |-> c.bytes - LeavingBytes(old) + e.bytes, evicted |-> x, replaced |-> y]
<1>3. ASSUME NEW old \in Seq(Entry), NEW t, IsRest(s, k, old, t), NEW x \in Nat, NEW y \in Nat, x + y = Len(old)
      PROVE  IsPushed(s, e, Made(old, t, x, y))
  <2>1. PICK r : r = <<e>> \o t
    BY Zenon
  <2>2. Renewed(s, e, old, r)
    BY <1>1, <1>3, <2>1, ConsOfRest, Zenon
  <2>3. Len(r) + x + y = Len(s) + 1
    <3>1. PICK l, m : l = Len(r) /\ m = Len(old)
      BY Zenon
    <3>2. r \in Seq(Entry) /\ l + m = n + 1 /\ x + y = m
      BY <1>1, <1>3, <2>2, <3>1, Zenon DEF Renewed
    <3>3. l \in Nat /\ m \in Nat
      BY <3>1, <3>2
    <3>4. l + x + y = n + 1
      BY <1>2, <3>2, <3>3
    <3> QED
      BY <1>1, <3>1, <3>4, Zenon
  <2>4. PICK q : q = Made(old, t, x, y)
    BY Zenon
  <2>5. q.lru = r /\ q.bytes = SumBytes(r) /\ q.evicted = x /\ q.replaced = y
    BY <2>1, <2>2, <2>4, Zenon DEF LeavingBytes, Renewed
  <2>6. IsPushed(s, e, q)
    BY <1>3, <2>2, <2>3, <2>5, Zenon DEF IsPushed, Renewed
  <2> QED
    BY <2>4, <2>6, Zenon
<1>4. CASE HasKey(s, k)
  <2>1. PICK o : o = EntryOf(s, k)
    BY Zenon
  <2>2. o \in Entry /\ IsRest(s, k, <<o>>, WithoutKey(s, k))
    BY <1>4, <2>1, RestOfSame, Zenon DEF IsFound
  <2>3. <<o>> \in Seq(Entry) /\ Len(<<o>>) = 1 /\ 0 + 1 = 1 /\ 0 \in Nat /\ 1 \in Nat
    BY <2>2
  <2>4. IsPushed(s, e, Made(<<o>>, WithoutKey(s, k), 0, 1))
    BY <1>3, <2>2, <2>3, Zenon
  <2>5. Push(c, e) = Made(<<o>>, WithoutKey(s, k), 0, 1)
    BY <1>1, <1>4, <2>1, Zenon DEF Push
  <2> QED
    BY <2>4, <2>5, Zenon
<1>5. CASE ~HasKey(s, k) /\ n = MaxCached
  <2>1. PICK o, m : o = s[Len(s)] /\ m = n - 1
    BY Zenon
  <2>2. n \in 1 .. n /\ m \in 0 .. n /\ m < MaxCached /\ m + 1 = n /\ 1 + m = n /\ o = s[n]
    <3>1. o = s[n]
      BY <1>1, <2>1, Zenon
    <3>2. n \in 1 .. n /\ m \in 0 .. n /\ m < MaxCached /\ m + 1 = n /\ 1 + m = n
      BY <1>2, <1>5, <2>1
    <3> QED
      BY <3>1, <3>2, Zenon
  <2>3. o \in Entry
    BY <1>1, <2>2
  <2>4. <<o>> \in Seq(Entry) /\ Len(<<o>>) = 1 /\ SumBytes(<<o>>) = o.bytes
    BY <2>3, BytesOfOne, Zenon
  <2>5. SumBytes(SubSeq(s, m + 1, n)) = o.bytes
    <3>1. SubSeq(s, n, n) \in Seq(Entry) /\ Len(SubSeq(s, n, n)) = 1 /\ SubSeq(s, n, n)[1] = s[n]
      BY <1>1, <1>2, <2>2
    <3>2. PICK z : z = SubSeq(s, n, n)
      BY Zenon
    <3>3. SumBytes(z) = z[1].bytes
      BY <3>1, <3>2, BytesOfFew, Zenon
    <3> QED
      BY <2>2, <3>1, <3>2, <3>3, Zenon
  <2>6. IsRest(s, k, <<o>>, SubSeq(s, 1, m))
    BY <1>1, <1>5, <2>2, <2>4, <2>5, RestOfFirst, Zenon
  <2>7. 1 + 0 = 1 /\ 0 \in Nat /\ 1 \in Nat
    OBVIOUS
  <2>8. IsPushed(s, e, Made(<<o>>, SubSeq(s, 1, m), 1, 0))
    BY <1>3, <2>4, <2>6, <2>7, Zenon
  <2>9. Push(c, e) = Made(<<o>>, SubSeq(s, 1, n - Len(<<o>>)), Len(<<o>>), 0)
    BY <1>1, <1>5, <2>1, Zenon DEF Push
  <2>10. n - Len(<<o>>) = m
    BY <1>2, <2>1, <2>4
  <2> QED
    BY <2>4, <2>8, <2>9, <2>10, Zenon
<1>6. CASE ~HasKey(s, k) /\ n # MaxCached
  <2>1. n \in 0 .. n /\ n < MaxCached /\ 0 + n = n /\ n - 0 = n /\ 0 + 0 = 0 /\ 0 \in Nat
    BY <1>2, <1>6
  <2>2. <<>> \in Seq(Entry) /\ Len(<<>>) = 0
    OBVIOUS
  <2>3. SumBytes(SubSeq(s, n + 1, n)) = SumBytes(<<>>)
    <3>1. SubSeq(s, n + 1, n) = <<>>
      BY <1>1, <1>2
    <3> QED
      BY <3>1, Zenon
  <2>4. IsRest(s, k, <<>>, SubSeq(s, 1, n))
    BY <1>1, <1>6, <2>1, <2>2, <2>3, RestOfFirst, Zenon
  <2>5. IsPushed(s, e, Made(<<>>, SubSeq(s, 1, n), 0, 0))
    BY <1>3, <2>1, <2>2, <2>4, Zenon
  <2>6. Push(c, e) = Made(<<>>, SubSeq(s, 1, n - Len(<<>>)), Len(<<>>), 0)
    BY <1>1, <1>6, Zenon DEF Push
  <2> QED
    BY <2>1, <2>2, <2>5, <2>6, Zenon
<1> QED
  BY <1>4, <1>5, <1>6, Zenon

(* Fits is the longest prefix within the byte budget.                       *)
LEMMA FitsIs ==
  ASSUME NEW s \in Seq(Entry)
  PROVE  /\ Fits(s) \in 0 .. Len(s) /\ SumBytes(SubSeq(s, 1, Fits(s))) <= MaxCachedBytes
         /\ \A n \in 0 .. Len(s) : SumBytes(SubSeq(s, 1, n)) <= MaxCachedBytes => Fits(s) >= n
<1>1. PICK S : S = {n \in 0 .. Len(s) : SumBytes(SubSeq(s, 1, n)) <= MaxCachedBytes}
  BY Zenon
<1>2. Len(s) \in Nat /\ 0 \in 0 .. Len(s) /\ S \in SUBSET (0 .. Len(s)) /\ S \in SUBSET Int
  BY <1>1
<1>3. IsFiniteSet(S)
  <2>1. PICK m : m = Len(s)
    BY Zenon
  <2>2. 0 \in Int /\ m \in Int
    BY <1>2, <2>1
  <2>3. IsFiniteSet(0 .. m)
    BY <2>2, FS_Interval
  <2>4. S \in SUBSET (0 .. m)
    BY <1>2, <2>1, Zenon
  <2> QED
    BY <2>3, <2>4, FS_Subset, Zenon
<1>4. 0 \in S
  <2>1. PICK t : t = SubSeq(s, 1, 0)
    BY Zenon
  <2>2. t \in Seq(Entry) /\ Len(t) = 0
    BY <1>2, <2>1, BytesOfParts, Zenon
  <2>3. SumBytes(t) = 0
    BY <2>2, BytesOfFew, Zenon
  <2>4. 0 <= MaxCachedBytes
    BY EncodeAssumption
  <2> QED
    BY <1>1, <1>2, <2>1, <2>3, <2>4, Zenon
<1>5. \E x \in S : \A y \in S : x >= y
  BY <1>2, <1>3, <1>4, GreatestExists
<1>6. Fits(s) = Max(S)
  BY <1>1, Zenon DEF Fits
<1>7. Max(S) \in S /\ \A y \in S : Max(S) >= y
  BY <1>5, Zenon DEF Max
<1> QED
  BY <1>1, <1>6, <1>7, Zenon

(* What insert leaves of s and the new entry e.                             *)
IsTrimmed(s, e, replaced, r) ==
  /\ r.lru \in Seq(Entry) /\ Len(r.lru) <= MaxCached /\ Distinct(r.lru)
  /\ r.bytes = SumBytes(r.lru) /\ r.bytes <= MaxCachedBytes
  /\ \A i \in 1 .. Len(r.lru) : r.lru[i] = e \/ \E j \in 1 .. Len(s) : r.lru[i] = s[j]
  /\ r.evicted \in Nat /\ Len(r.lru) + r.evicted + replaced = Len(s) + 1
  /\ e.bytes <= MaxCachedBytes => 1 <= Len(r.lru) /\ r.lru[1] = e

(* The loop of insert ends within the budget, counts what it drops, and     *)
(* never drops an entry that fits by itself.                                *)
LEMMA TrimIs ==
  ASSUME NEW s \in Seq(Entry), NEW e \in Entry, NEW q, IsPushed(s, e, q)
  PROVE  IsTrimmed(s, e, q.replaced, Trim(q))
<1>1. PICK l, k, n : l = q.lru /\ k = Len(l) /\ n = IF q.bytes <= MaxCachedBytes THEN k ELSE Fits(l)
  BY Zenon
<1>2. /\ l \in Seq(Entry) /\ k <= MaxCached /\ Distinct(l) /\ q.bytes = SumBytes(l) /\ 1 <= k /\ l[1] = e
      /\ \A i \in 1 .. k : l[i] = e \/ \E j \in 1 .. Len(s) : l[i] = s[j]
      /\ q.evicted \in Nat /\ q.replaced \in Nat /\ k + q.evicted + q.replaced = Len(s) + 1
  BY <1>1, Zenon DEF IsPushed
<1>3. k \in Nat /\ Len(s) \in Nat /\ MaxCached \in Nat /\ MaxCachedBytes \in Nat
  BY <1>1, <1>2, EncodeAssumption
<1>4. n \in 0 .. k
  <2>1. Fits(l) \in 0 .. k
    BY <1>1, <1>2, FitsIs, Zenon
  <2>2. k \in 0 .. k
    BY <1>3
  <2> QED
    BY <1>1, <2>1, <2>2, Zenon
<1>5. PICK t, z : t = SubSeq(l, 1, n) /\ z = SubSeq(l, n + 1, k)
  BY Zenon
<1>6. /\ t \in Seq(Entry) /\ Len(t) = n /\ \A i \in 1 .. n : t[i] = l[i]
      /\ SumBytes(t) + SumBytes(z) = SumBytes(l)
  BY <1>1, <1>2, <1>4, <1>5, BytesOfParts, Zenon
<1>7. z \in Seq(Entry)
  <2>1. n + 1 \in 1 .. k + 1 /\ k \in 0 .. k /\ n \in Nat /\ l \in Seq(Entry) /\ k = Len(l)
    BY <1>1, <1>2, <1>3, <1>4
  <2> QED
    BY <1>5, <2>1
<1>8. SumBytes(t) \in Nat /\ SumBytes(z) \in Nat /\ SumBytes(l) \in Nat
  BY <1>2, <1>6, <1>7, BytesOfFew, Zenon
<1>9. PICK a, b, c : a = SumBytes(t) /\ b = SumBytes(z) /\ c = SumBytes(l)
  BY Zenon
<1>10. a \in Nat /\ b \in Nat /\ c \in Nat /\ a + b = c /\ q.bytes = c
  BY <1>2, <1>6, <1>8, <1>9, Zenon
<1>11. a <= MaxCachedBytes
  <2>1. CASE q.bytes <= MaxCachedBytes
    BY <1>3, <1>10, <2>1
  <2>2. CASE ~(q.bytes <= MaxCachedBytes)
    BY <1>1, <1>2, <1>5, <1>9, <2>2, FitsIs, Zenon
  <2> QED
    BY <2>1, <2>2, Zenon
<1>12. PICK r : r = Trim(q)
  BY Zenon
<1>13. r.lru = t /\ r.bytes = q.bytes - b /\ r.evicted = q.evicted + (k - n)
  BY <1>1, <1>5, <1>9, <1>12, Zenon DEF Trim, EvictedBy
<1>14. r.bytes = a
  BY <1>10, <1>13
<1>15. Distinct(t)
  <2>1. \A i \in 1 .. n : i \in 1 .. k
    BY <1>3, <1>4
  <2> QED
    BY <1>1, <1>2, <1>6, <2>1, Zenon DEF Distinct
<1>16. \A i \in 1 .. n : t[i] = e \/ \E j \in 1 .. Len(s) : t[i] = s[j]
  <2>1. \A i \in 1 .. n : i \in 1 .. k
    BY <1>3, <1>4
  <2>2. \A i \in 1 .. k : l[i] = e \/ \E j \in 1 .. Len(s) : l[i] = s[j]
    BY <1>2, Zenon
  <2>3. \A i \in 1 .. n : t[i] = l[i]
    BY <1>6, Zenon
  <2> QED
    BY <2>1, <2>2, <2>3, Zenon
<1>17. r.evicted \in Nat /\ n + r.evicted + q.replaced = Len(s) + 1 /\ n <= MaxCached
  <2>1. PICK x, y, w, v : x = q.evicted /\ y = q.replaced /\ w = Len(s) /\ v = r.evicted
    BY Zenon
  <2>2. x \in Nat /\ y \in Nat /\ w \in Nat /\ k + x + y = w + 1 /\ v = x + (k - n)
    BY <1>2, <1>3, <1>13, <2>1, Zenon
  <2>3. v \in Nat /\ n + v + y = w + 1 /\ n <= MaxCached
    BY <1>2, <1>3, <1>4, <2>2
  <2> QED
    BY <2>1, <2>3, Zenon
<1>18. ASSUME e.bytes <= MaxCachedBytes PROVE 1 <= n /\ t[1] = e
  <2>1. 1 <= n
    <3>1. CASE q.bytes <= MaxCachedBytes
      BY <1>1, <1>2, <3>1, Zenon
    <3>2. CASE ~(q.bytes <= MaxCachedBytes)
      <4>1. PICK u : u = SubSeq(l, 1, 1)
        BY Zenon
      <4>2. 1 \in 0 .. k /\ 1 \in 1 .. 1
        BY <1>2, <1>3
      <4>3. u \in Seq(Entry) /\ Len(u) = 1 /\ u[1] = l[1]
        BY <1>1, <1>2, <4>1, <4>2, BytesOfParts, Zenon
      <4>4. SumBytes(u) = e.bytes
        BY <1>2, <4>3, BytesOfFew, Zenon
      <4>5. n >= 1
        BY <1>1, <1>2, <1>18, <3>2, <4>1, <4>2, <4>4, FitsIs, Zenon
      <4> QED
        BY <1>4, <4>5
    <3> QED
      BY <3>1, <3>2, Zenon
  <2>2. 1 \in 1 .. n
    BY <1>4, <2>1
  <2> QED
    BY <1>2, <1>6, <2>1, <2>2, Zenon
<1>19. IsTrimmed(s, e, q.replaced, r)
  BY <1>6, <1>9, <1>11, <1>13, <1>14, <1>15, <1>16, <1>17, <1>18, Zenon DEF IsTrimmed
<1> QED
  BY <1>12, <1>19, Zenon

-----------------------------------------------------------------------------
(* The state of the encoding cache.                                         *)

Frontend ==
  [byModel : [EncModels -> [instance : Nat, cached : BOOLEAN]], loadLock : SUBSET Encoders,
   lru : Seq(Entry), bytes : Nat, live : BOOLEAN, hits : Nat, misses : Nat, evictions : Nat, oversized : Nat]

EncPoints == {"idle", "wait", "load", "ready", "encode", "insert", "count"}

EncCall ==
  [pc : EncPoints, model : EncModels \cup {""}, text : Texts \cup {""}, evicted : Nat,
   answer : (EncModels \X Texts) \cup {<<>>}, todo : Seq(EncModels \X Texts)]

EncTypes(fr, es, oc, n, en) ==
  /\ fr \in [Fronts -> Frontend] /\ es \in [Encoders -> EncCall]
  /\ oc \in [entries : Nat, bytes : Nat] /\ n \in Nat /\ en \in [Fronts -> Nat]

(* Where a call is determines its model and what of it is loaded.           *)
CallFits(fr, c) ==
  /\ c.pc # "idle" => c.model \in EncModels /\ c.text \in Texts
  /\ c.pc \in {"ready", "encode", "insert", "count"} => fr.byModel[c.model] # NotLoaded
  /\ c.pc = "load" => fr.byModel[c.model] = NotLoaded
  /\ c.pc = "insert" => TextBytes[c.text] <= MaxEntryBytes
  /\ c.evicted # 0 => c.pc = "count"
  /\ c.answer # <<>> => c.answer = <<c.model, c.text>>

CallsFit(fr, es) == \A p \in Encoders : CallFits(fr[FrontOf[p]], es[p])

(* The lock of a frontend is with its only loading call.                    *)
LockFits(lock, es, f) ==
  /\ \A p \in Encoders : p \in lock <=> FrontOf[p] = f /\ es[p].pc = "load"
  /\ \A p, q \in lock : p = q

LocksFit(fr, es) == \A f \in Fronts : LockFits(fr[f].loadLock, es, f)

(* An instance belongs to one model of a frontend.                          *)
ModelFits(byModel, n) ==
  \A m \in EncModels :
    /\ byModel[m].instance <= n
    /\ byModel[m].instance = 0 => byModel[m] = NotLoaded
    /\ \A k \in EncModels : byModel[k].instance = byModel[m].instance => k = m \/ byModel[m].instance = 0

ModelsFit(fr, n) == \A f \in Fronts : ModelFits(fr[f].byModel, n)

(* An entry is the encoding of its text by the model of its instance.       *)
Owned(byModel, e) ==
  e.key[1] # 0 /\ \E m \in EncModels : byModel[m].instance = e.key[1] /\ e.value = <<m, e.key[2]>>

CacheFits(fr) ==
  /\ Len(fr.lru) <= MaxCached /\ Distinct(fr.lru)
  /\ fr.bytes = SumBytes(fr.lru) /\ fr.bytes <= MaxCachedBytes
  /\ \A i \in 1 .. Len(fr.lru) : Owned(fr.byModel, fr.lru[i])

LoadedPairs(fr) == {x \in Fronts \X EncModels : fr[x[1]].byModel[x[2]] # NotLoaded}

Occupied(fr, oc) ==
  /\ oc.entries = SumFunctionOnSet([f \in Fronts |-> Len(fr[f].lru)], Fronts)
  /\ oc.bytes = SumFunctionOnSet([f \in Fronts |-> fr[f].bytes], Fronts)

Here(f) == {p \in Encoders : FrontOf[p] = f}

(* What the calls of frontend f have under way.                             *)
UnderWay(es, f) ==
  Cardinality({p \in Here(f) : es[p].pc \in {"encode", "insert"}})
    + SumFunctionOnSet([p \in Here(f) |-> es[p].evicted], Here(f))

Account(fr, n, way) == fr.misses = n + fr.oversized + Len(fr.lru) + fr.evictions + way

Accounted(fr, en, es) == \A f \in Fronts : Account(fr[f], en[f], UnderWay(es, f))

EncState(fr, es, oc, n, en) ==
  /\ EncTypes(fr, es, oc, n, en)
  /\ CallsFit(fr, es) /\ LocksFit(fr, es) /\ ModelsFit(fr, n)
  /\ \A f \in Fronts : CacheFits(fr[f])
  /\ n = Cardinality(LoadedPairs(fr))
  /\ Occupied(fr, oc)
  /\ Accounted(fr, en, es)

EncInvariant == EncState(front, enc, occupancy, made, ended)

-----------------------------------------------------------------------------
(* Nothing but the value at x has changed.                                  *)
Elsewhere(S, a, b, x) == \A y \in S : y # x => b[y] = a[y]

(* What a call counts for.                                                  *)
Weight(c) == (IF c.pc \in {"encode", "insert"} THEN 1 ELSE 0) + c.evicted

(* A step of call p changes what is under way in its frontend by its own    *)
(* part, and nothing in the others.                                         *)
WayMoves(es, qs, p) ==
  /\ \A f \in Fronts : UnderWay(es, f) \in Nat /\ UnderWay(qs, f) \in Nat
  /\ \A f \in Fronts : f # FrontOf[p] => UnderWay(qs, f) = UnderWay(es, f)
  /\ UnderWay(qs, FrontOf[p]) + Weight(es[p]) = UnderWay(es, FrontOf[p]) + Weight(qs[p])

(* What is under way is a number.                                           *)
LEMMA WayIsNat ==
  ASSUME NEW es \in [Encoders -> EncCall], NEW f
  PROVE  UnderWay(es, f) \in Nat
<1>1. PICK H, B, u : H = Here(f) /\ B = {p \in Here(f) : es[p].pc \in {"encode", "insert"}} /\ u = [p \in Here(f) |-> es[p].evicted]
  BY Zenon
<1>2. IsFiniteSet(H) /\ H \in SUBSET Encoders
  BY <1>1, EncodeAssumption, FS_Subset, Zenon DEF Here
<1>3. IsFiniteSet(B)
  BY <1>1, <1>2, FS_Subset, Zenon
<1>4. \A c \in EncCall : c.evicted \in Nat
  BY DEF EncCall
<1>5. \A p \in H : u[p] \in Nat
  BY <1>1, <1>2, <1>4, Zenon
<1>6. PICK x, y : x = Cardinality(B) /\ y = SumFunctionOnSet(u, H)
  BY Zenon
<1>7. x \in Nat /\ y \in Nat
  BY <1>2, <1>3, <1>5, <1>6, FS_CardinalityType, SumIsNat, Zenon
<1>8. x + y \in Nat
  BY <1>7
<1> QED
  BY <1>1, <1>6, <1>8, Zenon DEF UnderWay

(* A step of one call moves what is under way in its frontend only.         *)
LEMMA WayIs ==
  ASSUME NEW es \in [Encoders -> EncCall], NEW qs \in [Encoders -> EncCall], NEW p \in Encoders,
         Elsewhere(Encoders, es, qs, p)
  PROVE  WayMoves(es, qs, p)
<1> DEFINE Busy(ts, f) == {q \in Here(f) : ts[q].pc \in {"encode", "insert"}}
           Out(ts, f) == [q \in Here(f) |-> ts[q].evicted]
<1>1. \A f : IsFiniteSet(Here(f)) /\ Here(f) \in SUBSET Encoders
  BY EncodeAssumption, FS_Subset, Zenon DEF Here
<1>2. \A q \in Encoders : es[q].evicted \in Nat /\ qs[q].evicted \in Nat
  <2>1. \A c \in EncCall : c.evicted \in Nat
    BY DEF EncCall
  <2> QED
    BY <2>1, Zenon
<1>3. \A f : IsFiniteSet(Busy(es, f)) /\ IsFiniteSet(Busy(qs, f))
  BY <1>1, FS_Subset, Zenon
<1>4. ASSUME NEW f \in Fronts, NEW ts \in {es, qs} PROVE UnderWay(ts, f) \in Nat
  <2>1. ts \in [Encoders -> EncCall]
    BY <1>4, Zenon
  <2> QED
    BY <2>1, WayIsNat, Zenon
<1>5. ASSUME NEW f \in Fronts, f # FrontOf[p] PROVE UnderWay(qs, f) = UnderWay(es, f)
  <2>1. \A q \in Here(f) : qs[q] = es[q]
    BY <1>5, Zenon DEF Here, Elsewhere
  <2>2. Busy(qs, f) = Busy(es, f)
    BY <2>1, Zenon
  <2>3. Out(qs, f) = Out(es, f)
    BY <2>1, Zenon
  <2> QED
    BY <2>2, <2>3, Zenon DEF UnderWay
<1>6. UnderWay(qs, FrontOf[p]) + Weight(es[p]) = UnderWay(es, FrontOf[p]) + Weight(qs[p])
  <2>1. PICK f : f = FrontOf[p]
    BY Zenon
  <2>2. p \in Here(f)
    BY <2>1, Zenon DEF Here
  <2>3. PICK H, B, C : H = Here(f) /\ B = Busy(es, f) /\ C = Busy(qs, f)
    BY Zenon
  <2>4. \A q : q # p => (q \in B <=> q \in C)
    BY <1>1, <2>3, Zenon DEF Elsewhere
  <2>5. (p \in B <=> es[p].pc \in {"encode", "insert"}) /\ (p \in C <=> qs[p].pc \in {"encode", "insert"})
    BY <2>2, <2>3, Zenon
  <2>6. IsFiniteSet(B) /\ IsFiniteSet(C)
    BY <1>3, <2>3, Zenon
  <2>7. /\ Cardinality(B) \in Nat
        /\ (p \in B <=> p \in C) => Cardinality(C) = Cardinality(B)
        /\ p \notin B /\ p \in C => Cardinality(C) = Cardinality(B) + 1
        /\ p \in B /\ p \notin C => Cardinality(C) = Cardinality(B) - 1 /\ Cardinality(B) > 0
    BY <2>4, <2>6, CountMoves
  <2>8. PICK u, v : u = Out(es, f) /\ v = Out(qs, f)
    BY Zenon
  <2>9. /\ \A q \in H : u[q] \in Int /\ v[q] \in Int
        /\ \A q \in H \ {p} : v[q] = u[q]
        /\ u[p] = es[p].evicted /\ v[p] = qs[p].evicted /\ u[p] \in Nat /\ v[p] \in Nat
    <3>1. \A n \in Nat : n \in Int
      OBVIOUS
    <3> QED
      BY <1>1, <1>2, <2>2, <2>3, <2>8, <3>1, Zenon DEF Elsewhere
  <2>10. IsFiniteSet(H) /\ p \in H /\ IsFiniteSet(H \ {p})
    BY <1>1, <2>2, <2>3, FS_Subset
  <2>11. SumFunctionOnSet(u, H) = u[p] + SumFunctionOnSet(u, H \ {p})
    BY <2>9, <2>10, SumWithout, Zenon
  <2>12. SumFunctionOnSet(v, H) = v[p] + SumFunctionOnSet(v, H \ {p})
    BY <2>9, <2>10, SumWithout, Zenon
  <2>13. SumFunctionOnSet(v, H \ {p}) = SumFunctionOnSet(u, H \ {p}) /\ SumFunctionOnSet(u, H \ {p}) \in Int
    <3>1. \A q \in H \ {p} : u[q] \in Int /\ v[q] = u[q]
      BY <2>9, Zenon
    <3> QED
      BY <2>10, <3>1, SumOfSame, Zenon
  <2>14. PICK x, y, a, b, k : /\ x = SumFunctionOnSet(u, H) /\ y = SumFunctionOnSet(v, H)
                              /\ a = u[p] /\ b = v[p] /\ k = SumFunctionOnSet(u, H \ {p})
    BY Zenon
  <2>15. x = a + k /\ y = b + k /\ a \in Nat /\ b \in Nat /\ k \in Int
    BY <2>9, <2>11, <2>12, <2>13, <2>14, Zenon
  <2>16. PICK m, n : m = Cardinality(B) /\ n = Cardinality(C)
    BY Zenon
  <2>17. UnderWay(es, f) = m + x /\ UnderWay(qs, f) = n + y
    BY <2>3, <2>8, <2>14, <2>16, Zenon DEF UnderWay
  <2>18. Weight(es[p]) = (IF p \in B THEN 1 ELSE 0) + a /\ Weight(qs[p]) = (IF p \in C THEN 1 ELSE 0) + b
    BY <2>5, <2>9, <2>14, Zenon DEF Weight
  <2>19. (n + y) + ((IF p \in B THEN 1 ELSE 0) + a) = (m + x) + ((IF p \in C THEN 1 ELSE 0) + b)
    BY <2>7, <2>15, <2>16
  <2> QED
    BY <2>1, <2>17, <2>18, <2>19, Zenon
<1> QED
  BY <1>4, <1>5, <1>6, Zenon DEF WayMoves

(* A published delta keeps a total the sum of its parts.                    *)
LEMMA PublishedIs ==
  ASSUME NEW u, NEW v, NEW f \in Fronts, \A g \in Fronts : u[g] \in Nat /\ v[g] \in Nat,
         \A g \in Fronts : g # f => v[g] = u[g], NEW n, n = SumFunctionOnSet(u, Fronts)
  PROVE  Published(n, u[f], v[f]) \in Nat /\ Published(n, u[f], v[f]) = SumFunctionOnSet(v, Fronts)
<1>1. PICK S, T : S = Fronts /\ T = Fronts \ {f}
  BY Zenon
<1>2. IsFiniteSet(S) /\ IsFiniteSet(T) /\ f \in S /\ T = S \ {f}
  BY <1>1, EncodeAssumption, FS_Subset
<1>3. \A g \in S : u[g] \in Int /\ v[g] \in Int /\ u[g] \in Nat /\ v[g] \in Nat
  BY <1>1
<1>4. SumFunctionOnSet(u, S) = u[f] + SumFunctionOnSet(u, T)
  BY <1>2, <1>3, SumWithout, Zenon
<1>5. SumFunctionOnSet(v, S) = v[f] + SumFunctionOnSet(v, T)
  BY <1>2, <1>3, SumWithout, Zenon
<1>6. SumFunctionOnSet(v, T) = SumFunctionOnSet(u, T)
  <2>1. \A g \in T : u[g] \in Int /\ v[g] = u[g]
    BY <1>1, <1>3, Zenon
  <2> QED
    BY <1>2, <2>1, SumOfSame, Zenon
<1>7. SumFunctionOnSet(u, T) \in Nat
  <2>1. \A g \in T : u[g] \in Nat
    BY <1>1, <1>3, Zenon
  <2> QED
    BY <1>2, <2>1, SumIsNat, Zenon
<1>8. PICK a, b, k, m : a = u[f] /\ b = v[f] /\ k = SumFunctionOnSet(u, T) /\ m = SumFunctionOnSet(v, S)
  BY Zenon
<1>9. a \in Nat /\ b \in Nat /\ k \in Nat /\ n = a + k /\ m = b + k
  BY <1>1, <1>2, <1>3, <1>4, <1>5, <1>6, <1>7, <1>8, Zenon
<1>10. Published(n, a, b) \in Nat /\ Published(n, a, b) = m
  BY <1>9 DEF Published, Deltas
<1> QED
  BY <1>1, <1>8, <1>10, Zenon

(* The occupancy after a cache of one frontend has changed.                 *)
LEMMA OccupiedMoves ==
  ASSUME NEW fr \in [Fronts -> Frontend], NEW hr \in [Fronts -> Frontend], NEW f \in Fronts,
         Elsewhere(Fronts, fr, hr, f), NEW oc, Occupied(fr, oc), NEW od,
         od = [entries |-> Published(oc.entries, Len(fr[f].lru), Len(hr[f].lru)),
               bytes |-> Published(oc.bytes, fr[f].bytes, hr[f].bytes)]
  PROVE  od \in [entries : Nat, bytes : Nat] /\ Occupied(hr, od)
<1> DEFINE Lens(r) == [g \in Fronts |-> Len(r[g].lru)]
           Sizes(r) == [g \in Fronts |-> r[g].bytes]
<1>1. \A c \in Frontend : c.bytes \in Nat /\ c.lru \in Seq(Entry)
  BY DEF Frontend
<1>2. \A s \in Seq(Entry) : Len(s) \in Nat
  OBVIOUS
<1>3. \A g \in Fronts : Len(fr[g].lru) \in Nat /\ Len(hr[g].lru) \in Nat /\ fr[g].bytes \in Nat /\ hr[g].bytes \in Nat
  BY <1>1, <1>2, Zenon
<1>4. PICK a, b, c, d : a = Lens(fr) /\ b = Lens(hr) /\ c = Sizes(fr) /\ d = Sizes(hr)
  BY Zenon
<1>5. /\ \A g \in Fronts : a[g] \in Nat /\ b[g] \in Nat /\ c[g] \in Nat /\ d[g] \in Nat
      /\ \A g \in Fronts : g # f => b[g] = a[g] /\ d[g] = c[g]
      /\ a[f] = Len(fr[f].lru) /\ b[f] = Len(hr[f].lru) /\ c[f] = fr[f].bytes /\ d[f] = hr[f].bytes
  BY <1>3, <1>4, Zenon DEF Elsewhere
<1>6. oc.entries = SumFunctionOnSet(a, Fronts) /\ oc.bytes = SumFunctionOnSet(c, Fronts)
  BY <1>4, Zenon DEF Occupied
<1>7. Published(oc.entries, a[f], b[f]) \in Nat /\ Published(oc.entries, a[f], b[f]) = SumFunctionOnSet(b, Fronts)
  BY <1>5, <1>6, PublishedIs, Zenon
<1>8. Published(oc.bytes, c[f], d[f]) \in Nat /\ Published(oc.bytes, c[f], d[f]) = SumFunctionOnSet(d, Fronts)
  BY <1>5, <1>6, PublishedIs, Zenon
<1>9. PICK x, y : x = SumFunctionOnSet(b, Fronts) /\ y = SumFunctionOnSet(d, Fronts)
  BY Zenon
<1>10. od = [entries |-> x, bytes |-> y] /\ x \in Nat /\ y \in Nat
  BY <1>5, <1>7, <1>8, <1>9, Zenon
<1>11. od \in [entries : Nat, bytes : Nat] /\ od.entries = x /\ od.bytes = y
  BY <1>10
<1> QED
  BY <1>4, <1>9, <1>11, Zenon DEF Occupied

(* The occupancy is that of the caches alone.                               *)
LEMMA OccupiedStays ==
  ASSUME NEW fr \in [Fronts -> Frontend], NEW hr \in [Fronts -> Frontend],
         \A g \in Fronts : Len(hr[g].lru) = Len(fr[g].lru) /\ hr[g].bytes = fr[g].bytes, NEW oc, Occupied(fr, oc)
  PROVE  Occupied(hr, oc)
<1>1. [g \in Fronts |-> Len(hr[g].lru)] = [g \in Fronts |-> Len(fr[g].lru)]
  BY Zenon
<1>2. [g \in Fronts |-> hr[g].bytes] = [g \in Fronts |-> fr[g].bytes]
  BY Zenon
<1> QED
  BY <1>1, <1>2, Zenon DEF Occupied

-----------------------------------------------------------------------------
(* A call counts for a number.                                              *)
LEMMA WeightIsNat == \A c \in EncCall : Weight(c) \in Nat
<1>1. ASSUME NEW c \in EncCall PROVE c.evicted \in Nat
  BY DEF EncCall
<1>2. ASSUME NEW c \in EncCall PROVE Weight(c) \in Nat
  <2>1. PICK n : n = c.evicted
    BY Zenon
  <2>2. n \in Nat /\ Weight(c) = (IF c.pc \in {"encode", "insert"} THEN 1 ELSE 0) + n
    BY <1>1, <2>1, Zenon DEF Weight
  <2> QED
    BY <2>2
<1> QED
  BY <1>2, Zenon

(* What accounts for the misses of a frontend, but for the other calls.     *)
Balance(fr, n, c) == n + fr.oversized + Len(fr.lru) + fr.evictions + Weight(c)

Even(fr, n, c, hr, m, d) == hr.misses + Balance(fr, n, c) = fr.misses + Balance(hr, m, d)

(* A step of call p keeps the accounts when its own part balances.          *)
LEMMA AccountsMove ==
  ASSUME NEW es \in [Encoders -> EncCall], NEW qs \in [Encoders -> EncCall], NEW p \in Encoders,
         Elsewhere(Encoders, es, qs, p),
         NEW fr \in [Fronts -> Frontend], NEW hr \in [Fronts -> Frontend],
         NEW en \in [Fronts -> Nat], NEW em \in [Fronts -> Nat], NEW f \in Fronts, f = FrontOf[p],
         Elsewhere(Fronts, fr, hr, f), Elsewhere(Fronts, en, em, f),
         Accounted(fr, en, es), Even(fr[f], en[f], es[p], hr[f], em[f], qs[p])
  PROVE  Accounted(hr, em, qs)
<1>1. WayMoves(es, qs, p)
  BY WayIs, Zenon
<1>2. ASSUME NEW g \in Fronts, g # f PROVE Account(hr[g], em[g], UnderWay(qs, g))
  <2>1. UnderWay(qs, g) = UnderWay(es, g)
    BY <1>1, <1>2, Zenon DEF WayMoves
  <2> QED
    BY <1>2, <2>1, Zenon DEF Elsewhere, Accounted
<1>3. Account(hr[f], em[f], UnderWay(qs, f))
  <2>1. \A c \in Frontend : /\ c.misses \in Nat /\ c.oversized \in Nat /\ c.evictions \in Nat /\ c.lru \in Seq(Entry)
    BY DEF Frontend
  <2>2. \A s \in Seq(Entry) : Len(s) \in Nat
    OBVIOUS
  <2>3. \A c \in EncCall : Weight(c) \in Nat
    BY WeightIsNat
  <2>4. PICK a, b, x, y : a = fr[f] /\ b = hr[f] /\ x = en[f] /\ y = em[f]
    BY Zenon
  <2>5. PICK am, ao, al, ae, bm, bo, bl, be :
          /\ am = a.misses /\ ao = a.oversized /\ al = Len(a.lru) /\ ae = a.evictions
          /\ bm = b.misses /\ bo = b.oversized /\ bl = Len(b.lru) /\ be = b.evictions
    BY Zenon
  <2>6. PICK u, v, w, z : u = UnderWay(es, f) /\ v = UnderWay(qs, f) /\ w = Weight(es[p]) /\ z = Weight(qs[p])
    BY Zenon
  <2>7. /\ am \in Nat /\ ao \in Nat /\ al \in Nat /\ ae \in Nat /\ bm \in Nat /\ bo \in Nat /\ bl \in Nat /\ be \in Nat
        /\ x \in Nat /\ y \in Nat
    BY <2>1, <2>2, <2>4, <2>5, Zenon
  <2>8. u \in Nat /\ v \in Nat /\ w \in Nat /\ z \in Nat /\ v + w = u + z
    BY <1>1, <2>3, <2>6, Zenon DEF WayMoves
  <2>9. am = x + ao + al + ae + u
    BY <2>4, <2>5, <2>6, Zenon DEF Account, Accounted
  <2>10. bm + (x + ao + al + ae + w) = am + (y + bo + bl + be + z)
    BY <2>4, <2>5, <2>6, Zenon DEF Balance, Even
  <2>11. bm = y + bo + bl + be + v
    BY <2>7, <2>8, <2>9, <2>10
  <2> QED
    BY <2>4, <2>5, <2>6, <2>11, Zenon DEF Account
<1> QED
  BY <1>2, <1>3, Zenon DEF Accounted

-----------------------------------------------------------------------------
(* Steps that touch one cache and the calls of its frontend, not the models. *)
LEMMA CacheSteps ==
  ASSUME EncInvariant, NEW f \in Fronts, NEW fr \in [Fronts -> Frontend], NEW es \in [Encoders -> EncCall],
         NEW oc \in [entries : Nat, bytes : Nat], NEW en \in [Fronts -> Nat],
         Elsewhere(Fronts, front, fr, f),
         fr[f].byModel = front[f].byModel, fr[f].loadLock = front[f].loadLock,
         CacheFits(fr[f]), Occupied(fr, oc),
         \A q \in Encoders : \/ es[q] = enc[q]
                             \/ FrontOf[q] = f /\ CallFits(fr[f], es[q]) /\ es[q].pc # "load" /\ enc[q].pc # "load",
         Accounted(fr, en, es)
  PROVE  EncState(fr, es, oc, made, en)
<1>1. EncState(front, enc, occupancy, made, ended)
  BY Zenon DEF EncInvariant
<1>2. \A g \in Fronts : fr[g].byModel = front[g].byModel /\ fr[g].loadLock = front[g].loadLock
  BY Zenon DEF Elsewhere
<1>3. EncTypes(fr, es, oc, made, en)
  BY <1>1, Zenon DEF EncState, EncTypes
<1>4. \A q \in Encoders : FrontOf[q] \in Fronts
  BY EncodeAssumption, Zenon
<1>5. CallsFit(fr, es)
  <2>1. ASSUME NEW q \in Encoders, es[q] = enc[q] PROVE CallFits(fr[FrontOf[q]], es[q])
    <3>1. CallFits(front[FrontOf[q]], enc[q])
      BY <1>1, Zenon DEF EncState, CallsFit
    <3>2. fr[FrontOf[q]].byModel = front[FrontOf[q]].byModel
      BY <1>2, <1>4, Zenon
    <3> QED
      BY <2>1, <3>1, <3>2, Zenon DEF CallFits
  <2> QED
    BY <2>1, Zenon DEF CallsFit
<1>6. LocksFit(fr, es)
  <2>1. LocksFit(front, enc)
    BY <1>1, Zenon DEF EncState
  <2>2. \A q \in Encoders : es[q].pc = "load" <=> enc[q].pc = "load"
    BY Zenon
  <2>3. ASSUME NEW g \in Fronts PROVE LockFits(fr[g].loadLock, es, g)
    <3>1. LockFits(fr[g].loadLock, enc, g)
      BY <1>2, <2>1, Zenon DEF LocksFit
    <3> QED
      BY <2>2, <3>1, Zenon DEF LockFits
  <2> QED
    BY <2>3, Zenon DEF LocksFit
<1>7. ModelsFit(fr, made)
  <2>1. ModelsFit(front, made)
    BY <1>1, Zenon DEF EncState
  <2> QED
    BY <1>2, <2>1, Zenon DEF ModelsFit
<1>8. \A g \in Fronts : CacheFits(fr[g])
  BY <1>1, Zenon DEF EncState, Elsewhere
<1>9. LoadedPairs(fr) = LoadedPairs(front)
  <2>1. \A x \in Fronts \X EncModels : x[1] \in Fronts
    OBVIOUS
  <2>2. \A x \in Fronts \X EncModels : fr[x[1]].byModel = front[x[1]].byModel
    BY <1>2, <2>1, Zenon
  <2> QED
    BY <2>2, Zenon DEF LoadedPairs
<1>10. made = Cardinality(LoadedPairs(fr))
  BY <1>1, <1>9, Zenon DEF EncState
<1> QED
  BY <1>3, <1>5, <1>6, <1>7, <1>8, <1>10, Zenon DEF EncState

(* Steps of a call that touch the models of its frontend, not the cache.    *)
LEMMA LoadSteps ==
  ASSUME EncInvariant, NEW p \in Encoders, NEW f \in Fronts, f = FrontOf[p],
         NEW fr \in [Fronts -> Frontend], NEW es \in [Encoders -> EncCall], NEW n \in Nat,
         Elsewhere(Fronts, front, fr, f), Elsewhere(Encoders, enc, es, p),
         fr[f].lru = front[f].lru, fr[f].bytes = front[f].bytes, fr[f].misses = front[f].misses,
         fr[f].oversized = front[f].oversized, fr[f].evictions = front[f].evictions,
         \A m \in EncModels : front[f].byModel[m] # NotLoaded => fr[f].byModel[m] = front[f].byModel[m],
         \A q \in Encoders : q # p /\ FrontOf[q] = f => enc[q].pc # "load",
         Weight(es[p]) = Weight(enc[p]),
         CallFits(fr[f], es[p]), LocksFit(fr, es), ModelsFit(fr, n), n = Cardinality(LoadedPairs(fr))
  PROVE  EncState(fr, es, occupancy, n, ended)
<1>1. EncState(front, enc, occupancy, made, ended)
  BY Zenon DEF EncInvariant
<1>2. EncTypes(front, enc, occupancy, made, ended) /\ CallsFit(front, enc) /\ ModelsFit(front, made)
  BY <1>1, Zenon DEF EncState
<1>3. EncTypes(fr, es, occupancy, n, ended)
  BY <1>2, Zenon DEF EncTypes
<1>4. CallsFit(fr, es)
  <2>1. ASSUME NEW q \in Encoders, q # p PROVE CallFits(fr[FrontOf[q]], es[q])
    <3>1. CallFits(front[FrontOf[q]], enc[q]) /\ es[q] = enc[q] /\ FrontOf[q] \in Fronts
      BY <1>2, <2>1, EncodeAssumption, Zenon DEF CallsFit, Elsewhere
    <3>2. CASE FrontOf[q] # f
      BY <3>1, <3>2, Zenon DEF Elsewhere
    <3>3. CASE FrontOf[q] = f
      <4>1. enc[q].pc # "load"
        BY <2>1, <3>3, Zenon
      <4>2. "ready" # "idle" /\ "encode" # "idle" /\ "insert" # "idle" /\ "count" # "idle"
        BY Zenon
      <4> QED
        BY <3>1, <3>3, <4>1, <4>2, Zenon DEF CallFits
    <3> QED
      BY <3>2, <3>3, Zenon
  <2> QED
    BY <2>1, Zenon DEF CallsFit
<1>5. \A g \in Fronts : CacheFits(fr[g])
  <2>1. CacheFits(front[f])
    BY <1>1, Zenon DEF EncState
  <2>2. ASSUME NEW e, Owned(front[f].byModel, e) PROVE Owned(fr[f].byModel, e)
    <3>1. PICK m \in EncModels : front[f].byModel[m].instance = e.key[1] /\ e.value = <<m, e.key[2]>>
      BY <2>2, Zenon DEF Owned
    <3>2. e.key[1] # 0 /\ NotLoaded.instance = 0
      BY <2>2, Zenon DEF Owned, NotLoaded
    <3>3. front[f].byModel[m] # NotLoaded
      BY <3>1, <3>2, Zenon
    <3>4. fr[f].byModel[m] = front[f].byModel[m]
      BY <3>3, Zenon
    <3> QED
      BY <3>1, <3>2, <3>4, Zenon DEF Owned
  <2>3. CacheFits(fr[f])
    BY <2>1, <2>2, Zenon DEF CacheFits
  <2> QED
    BY <1>1, <2>3, Zenon DEF EncState, Elsewhere
<1>6. front \in [Fronts -> Frontend] /\ enc \in [Encoders -> EncCall] /\ ended \in [Fronts -> Nat]
  BY <1>2, Zenon DEF EncTypes
<1>7. Occupied(fr, occupancy)
  <2>1. Occupied(front, occupancy)
    BY <1>1, Zenon DEF EncState
  <2>2. \A g \in Fronts : Len(fr[g].lru) = Len(front[g].lru) /\ fr[g].bytes = front[g].bytes
    BY Zenon DEF Elsewhere
  <2> QED
    BY <1>6, <2>1, <2>2, OccupiedStays, Zenon
<1>8. Accounted(fr, ended, es)
  <2>1. Accounted(front, ended, enc)
    BY <1>1, Zenon DEF EncState
  <2>2. Balance(fr[f], ended[f], es[p]) = Balance(front[f], ended[f], enc[p])
    BY Zenon DEF Balance
  <2>3. Even(front[f], ended[f], enc[p], fr[f], ended[f], es[p])
    BY <2>2, Zenon DEF Even
  <2>4. Elsewhere(Fronts, ended, ended, f)
    BY Zenon DEF Elsewhere
  <2> QED
    BY <1>6, <2>1, <2>3, <2>4, AccountsMove, Zenon
<1> QED
  BY <1>3, <1>4, <1>5, <1>7, <1>8, Zenon DEF EncState

-----------------------------------------------------------------------------
(* The fields of a frontend and of a call.                                  *)
LEMMA FrontendHas ==
  \A c \in Frontend :
    /\ c.lru \in Seq(Entry) /\ Len(c.lru) \in Nat /\ c.bytes \in Nat
    /\ c.misses \in Nat /\ c.evictions \in Nat /\ c.oversized \in Nat /\ c.hits \in Nat
    /\ c.byModel \in [EncModels -> [instance : Nat, cached : BOOLEAN]] /\ c.loadLock \in SUBSET Encoders
<1>1. \A c \in Frontend :
        /\ c.lru \in Seq(Entry) /\ c.bytes \in Nat
        /\ c.misses \in Nat /\ c.evictions \in Nat /\ c.oversized \in Nat /\ c.hits \in Nat
        /\ c.byModel \in [EncModels -> [instance : Nat, cached : BOOLEAN]] /\ c.loadLock \in SUBSET Encoders
  BY Zenon DEF Frontend
<1>2. \A s \in Seq(Entry) : Len(s) \in Nat
  OBVIOUS
<1> QED
  BY <1>1, <1>2, Zenon

(* A call under way evicts nothing but while it counts its evictions.       *)
LEMMA WeightIs ==
  ASSUME NEW c \in EncCall, NEW fr, CallFits(fr, c)
  PROVE  /\ c.evicted \in Nat
         /\ c.pc \in {"idle", "wait", "load", "ready"} => Weight(c) = 0 /\ c.evicted = 0
         /\ c.pc \in {"encode", "insert"} => Weight(c) = 1 /\ c.evicted = 0
         /\ c.pc = "count" => Weight(c) = c.evicted
<1>1. c.evicted \in Nat
  BY Zenon DEF EncCall
<1>2. c.pc # "count" => c.evicted = 0
  BY Zenon DEF CallFits
<1>3. PICK n, pc : n = c.evicted /\ pc = c.pc
  BY Zenon
<1>4. Weight(c) = (IF pc \in {"encode", "insert"} THEN 1 ELSE 0) + n /\ n \in Nat /\ (pc # "count" => n = 0)
  BY <1>1, <1>2, <1>3, Zenon DEF Weight
<1>5. PICK w : w = Weight(c)
  BY Zenon
<1>6. w = (IF pc \in {"encode", "insert"} THEN 1 ELSE 0) + n
  BY <1>4, <1>5, Zenon
<1>7. /\ pc \in {"idle", "wait", "load", "ready"} => w = 0 /\ n = 0
      /\ pc \in {"encode", "insert"} => w = 1 /\ n = 0
      /\ pc = "count" => w = n
  BY <1>4, <1>6
<1> QED
  BY <1>1, <1>3, <1>5, <1>7, Zenon

(* The types of the state and what holds of a call.                         *)
LEMMA EncHas ==
  ASSUME EncInvariant
  PROVE  /\ front \in [Fronts -> Frontend] /\ enc \in [Encoders -> EncCall] /\ ended \in [Fronts -> Nat]
         /\ occupancy \in [entries : Nat, bytes : Nat] /\ made \in Nat
         /\ Accounted(front, ended, enc) /\ Occupied(front, occupancy)
         /\ \A f \in Fronts : CacheFits(front[f])
         /\ \A p \in Encoders : FrontOf[p] \in Fronts /\ CallFits(front[FrontOf[p]], enc[p])
BY EncodeAssumption, Zenon DEF EncInvariant, EncState, EncTypes, CallsFit

(* Steps of a call that change the counters of its frontend at most.        *)
LEMMA CounterSteps ==
  ASSUME EncInvariant, NEW p \in Encoders, NEW f \in Fronts, f = FrontOf[p],
         front' \in [Fronts -> Frontend], Elsewhere(Fronts, front, front', f),
         front'[f].byModel = front[f].byModel, front'[f].loadLock = front[f].loadLock,
         front'[f].lru = front[f].lru, front'[f].bytes = front[f].bytes,
         enc' \in [Encoders -> EncCall], Elsewhere(Encoders, enc, enc', p),
         CallFits(front[f], enc'[p]), enc'[p].pc # "load", enc[p].pc # "load",
         ended' \in [Fronts -> Nat], Elsewhere(Fronts, ended, ended', f),
         Even(front[f], ended[f], enc[p], front'[f], ended'[f], enc'[p]),
         occupancy' = occupancy, made' = made
  PROVE  EncInvariant'
<1>1. PICK fr, es, en : fr = front' /\ es = enc' /\ en = ended'
  BY Zenon
<1>2. /\ front \in [Fronts -> Frontend] /\ enc \in [Encoders -> EncCall] /\ ended \in [Fronts -> Nat]
      /\ Accounted(front, ended, enc) /\ Occupied(front, occupancy) /\ CacheFits(front[f])
      /\ occupancy \in [entries : Nat, bytes : Nat]
  BY EncHas, Zenon
<1>3. Accounted(fr, en, es)
  BY <1>1, <1>2, AccountsMove, Zenon
<1>4. Occupied(fr, occupancy)
  <2>1. \A g \in Fronts : Len(fr[g].lru) = Len(front[g].lru) /\ fr[g].bytes = front[g].bytes
    BY <1>1, Zenon DEF Elsewhere
  <2> QED
    BY <1>1, <1>2, <2>1, OccupiedStays, Zenon
<1>5. CacheFits(fr[f])
  BY <1>1, <1>2, Zenon DEF CacheFits
<1>6. CallFits(fr[f], es[p])
  BY <1>1, Zenon DEF CallFits
<1>7. \A q \in Encoders : \/ es[q] = enc[q]
                          \/ FrontOf[q] = f /\ CallFits(fr[f], es[q]) /\ es[q].pc # "load" /\ enc[q].pc # "load"
  BY <1>1, <1>6, Zenon DEF Elsewhere
<1>8. EncState(fr, es, occupancy, made, en)
  BY <1>1, <1>2, <1>3, <1>4, <1>5, <1>7, CacheSteps, Zenon
<1> QED
  BY <1>1, <1>8, Zenon DEF EncInvariant

(* Where a call goes without a new answer.                                  *)
LEMMA EncGoes ==
  ASSUME EncInvariant, NEW p \in Encoders, NEW pc \in EncPoints, EncGo(p, pc)
  PROVE  /\ enc' \in [Encoders -> EncCall] /\ Elsewhere(Encoders, enc, enc', p)
         /\ enc'[p].pc = pc /\ enc'[p].model = enc[p].model /\ enc'[p].text = enc[p].text
         /\ enc'[p].evicted = enc[p].evicted /\ enc'[p].answer = enc[p].answer
<1>1. enc \in [Encoders -> EncCall]
  BY EncHas, Zenon
<1>2. PICK d : d = [enc[p] EXCEPT !.pc = pc]
  BY Zenon
<1>3. d \in EncCall /\ d.pc = pc /\ d.model = enc[p].model /\ d.text = enc[p].text
        /\ d.evicted = enc[p].evicted /\ d.answer = enc[p].answer
  BY <1>1, <1>2, Zenon DEF EncCall
<1>4. enc' = [enc EXCEPT ![p] = d]
  BY <1>2, Zenon DEF EncGo
<1> QED
  BY <1>1, <1>3, <1>4, Zenon DEF Elsewhere

(* Where a call goes with its answer.                                       *)
LEMMA EncEnds ==
  ASSUME EncInvariant, NEW p \in Encoders, NEW answer \in (EncModels \X Texts) \cup {<<>>}, EncDone(p, answer)
  PROVE  /\ enc' \in [Encoders -> EncCall] /\ Elsewhere(Encoders, enc, enc', p)
         /\ enc'[p].pc = "idle" /\ enc'[p].model = enc[p].model /\ enc'[p].text = enc[p].text
         /\ enc'[p].evicted = enc[p].evicted /\ enc'[p].answer = answer
<1>1. enc \in [Encoders -> EncCall]
  BY EncHas, Zenon
<1>2. PICK d : d = [enc[p] EXCEPT !.pc = "idle", !.answer = answer]
  BY Zenon
<1>3. d \in EncCall /\ d.pc = "idle" /\ d.model = enc[p].model /\ d.text = enc[p].text
        /\ d.evicted = enc[p].evicted /\ d.answer = answer
  BY <1>1, <1>2, Zenon DEF EncCall, EncPoints
<1>4. enc' = [enc EXCEPT ![p] = d]
  BY <1>2, Zenon DEF EncDone
<1> QED
  BY <1>1, <1>3, <1>4, Zenon DEF Elsewhere

(* The frontends and their accounts when only the call changes.             *)
LEMMA CallSteps ==
  ASSUME EncInvariant, NEW p \in Encoders, UNCHANGED <<front, occupancy, made, ended>>,
         enc' \in [Encoders -> EncCall], Elsewhere(Encoders, enc, enc', p),
         CallFits(front[FrontOf[p]], enc'[p]), enc'[p].pc # "load", enc[p].pc # "load",
         Weight(enc'[p]) = Weight(enc[p])
  PROVE  EncInvariant'
<1>1. PICK f : f = FrontOf[p]
  BY Zenon
<1>2. f \in Fronts /\ front \in [Fronts -> Frontend] /\ ended \in [Fronts -> Nat]
  BY <1>1, EncHas, Zenon
<1>3. front' = front /\ occupancy' = occupancy /\ made' = made /\ ended' = ended
  BY Zenon
<1>4. Elsewhere(Fronts, front, front', f) /\ Elsewhere(Fronts, ended, ended', f)
  BY <1>3, Zenon DEF Elsewhere
<1>5. Even(front[f], ended[f], enc[p], front'[f], ended'[f], enc'[p])
  BY <1>3, Zenon DEF Even, Balance
<1> QED
  BY <1>1, <1>2, <1>3, <1>4, <1>5, CounterSteps, Zenon

(* A call begins.                                                           *)
LEMMA StepResolve ==
  ASSUME EncInvariant, NEW p \in Encoders, ResolveModel(p)
  PROVE  EncInvariant'
<1>1. PICK f, c : f = FrontOf[p] /\ c = enc[p]
  BY Zenon
<1>2. c \in EncCall /\ enc \in [Encoders -> EncCall] /\ f \in Fronts /\ CallFits(front[f], c)
  BY <1>1, EncHas, Zenon
<1>3. c.pc = "idle" /\ c.todo # <<>> /\ c.todo \in Seq(EncModels \X Texts)
  BY <1>1, <1>2, Zenon DEF ResolveModel, EncAt, EncCall
<1>4. PICK h, t : h = Head(c.todo) /\ t = Tail(c.todo)
  BY Zenon
<1>5. h \in EncModels \X Texts /\ t \in Seq(EncModels \X Texts)
  <2>1. PICK s : s = c.todo
    BY Zenon
  <2>2. s \in Seq(EncModels \X Texts) /\ s # <<>>
    BY <1>3, <2>1, Zenon
  <2>3. Head(s) \in EncModels \X Texts /\ Tail(s) \in Seq(EncModels \X Texts)
    BY <2>2
  <2> QED
    BY <1>4, <2>1, <2>3, Zenon
<1>6. h[1] \in EncModels /\ h[2] \in Texts
  BY <1>5
<1>7. PICK pc : pc = IF front[f].byModel[h[1]] # NotLoaded THEN "ready" ELSE "wait"
  BY Zenon
<1>8. pc \in EncPoints /\ pc # "load" /\ pc # "idle" /\ pc \in {"wait", "ready"}
        /\ (pc = "ready" => front[f].byModel[h[1]] # NotLoaded)
  BY <1>7, Zenon DEF EncPoints
<1>9. PICK d : d = [pc |-> pc, model |-> h[1], text |-> h[2], evicted |-> 0, answer |-> <<>>, todo |-> t]
  BY Zenon
<1>10. 0 \in Nat
  OBVIOUS
<1>11. d \in EncCall /\ d.pc = pc /\ d.model = h[1] /\ d.text = h[2] /\ d.evicted = 0 /\ d.answer = <<>>
  BY <1>5, <1>6, <1>8, <1>9, <1>10, Zenon DEF EncCall
<1>12. enc' = [enc EXCEPT ![p] = d] /\ UNCHANGED <<front, occupancy, made, ended>>
  BY <1>1, <1>4, <1>7, <1>9, Zenon DEF ResolveModel, Of
<1>13. enc' \in [Encoders -> EncCall] /\ Elsewhere(Encoders, enc, enc', p) /\ enc'[p] = d
  BY <1>2, <1>11, <1>12, Zenon DEF Elsewhere
<1>14. CallFits(front[f], d)
  BY <1>6, <1>8, <1>11, Zenon DEF CallFits
<1>15. Weight(d) = 0 /\ Weight(c) = 0
  BY <1>2, <1>3, <1>8, <1>11, <1>14, WeightIs, Zenon
<1> QED
  BY <1>1, <1>3, <1>8, <1>11, <1>12, <1>13, <1>14, <1>15, CallSteps, Zenon

(* An answer without a cache.                                               *)
LEMMA StepUncached ==
  ASSUME EncInvariant, NEW p \in Encoders, EncAt(p, "ready"), EncDone(p, Encoding(p)),
         UNCHANGED <<front, occupancy, made, ended>>
  PROVE  EncInvariant'
<1>1. PICK f, c : f = FrontOf[p] /\ c = enc[p]
  BY Zenon
<1>2. c \in EncCall /\ f \in Fronts /\ CallFits(front[f], c) /\ c.pc = "ready"
  BY <1>1, EncHas, Zenon DEF EncAt
<1>3. c.model \in EncModels /\ c.text \in Texts
  BY <1>2, Zenon DEF CallFits
<1>4. PICK a : a = Encoding(p)
  BY Zenon
<1>5. a = <<c.model, c.text>> /\ a \in EncModels \X Texts
  BY <1>1, <1>3, <1>4, Zenon DEF Encoding
<1>6. /\ enc' \in [Encoders -> EncCall] /\ Elsewhere(Encoders, enc, enc', p)
      /\ enc'[p].pc = "idle" /\ enc'[p].model = c.model /\ enc'[p].text = c.text
      /\ enc'[p].evicted = c.evicted /\ enc'[p].answer = a
  BY <1>1, <1>4, <1>5, EncEnds, Zenon
<1>7. Weight(c) = 0 /\ c.evicted = 0
  BY <1>2, WeightIs, Zenon
<1>8. CallFits(front[f], enc'[p])
  BY <1>5, <1>6, <1>7, Zenon DEF CallFits
<1>9. enc'[p] \in EncCall
  BY <1>6, Zenon
<1>10. Weight(enc'[p]) = 0
  BY <1>6, <1>8, <1>9, WeightIs, Zenon
<1> QED
  BY <1>1, <1>2, <1>6, <1>7, <1>8, <1>10, CallSteps, Zenon

(* A call waits no longer for the lock: its model is loaded.                *)
LEMMA StepFindsLoaded ==
  ASSUME EncInvariant, NEW p \in Encoders, EncAt(p, "wait"), EncGo(p, "ready"), ~MustLoad(p),
         UNCHANGED <<front, occupancy, made, ended>>
  PROVE  EncInvariant'
<1>1. PICK f, c : f = FrontOf[p] /\ c = enc[p]
  BY Zenon
<1>2. c \in EncCall /\ f \in Fronts /\ CallFits(front[f], c) /\ c.pc = "wait"
  BY <1>1, EncHas, Zenon DEF EncAt
<1>3. c.model \in EncModels /\ c.text \in Texts /\ front[f].byModel[c.model] # NotLoaded
  BY <1>1, <1>2, Zenon DEF CallFits, MustLoad, LoadedFor, Of
<1>4. /\ enc' \in [Encoders -> EncCall] /\ Elsewhere(Encoders, enc, enc', p)
      /\ enc'[p].pc = "ready" /\ enc'[p].model = c.model /\ enc'[p].text = c.text
      /\ enc'[p].evicted = c.evicted /\ enc'[p].answer = c.answer
  <2>1. "ready" \in EncPoints
    BY Zenon DEF EncPoints
  <2> QED
    BY <1>1, <2>1, EncGoes, Zenon
<1>5. Weight(c) = 0 /\ c.evicted = 0
  BY <1>2, WeightIs, Zenon
<1>6. CallFits(front[f], enc'[p])
  BY <1>2, <1>3, <1>4, <1>5, Zenon DEF CallFits
<1>7. enc'[p] \in EncCall
  BY <1>4, Zenon
<1>8. Weight(enc'[p]) = 0
  BY <1>4, <1>6, <1>7, WeightIs, Zenon
<1> QED
  BY <1>1, <1>2, <1>4, <1>5, <1>6, <1>8, CallSteps, Zenon

(* A frontend whose counters change: k misses, o oversized, e evictions.    *)
Counts(a, b, k, o, e) ==
  /\ b \in Frontend /\ b.byModel = a.byModel /\ b.loadLock = a.loadLock /\ b.lru = a.lru /\ b.bytes = a.bytes
  /\ b.misses = a.misses + k /\ b.oversized = a.oversized + o /\ b.evictions = a.evictions + e

(* The accounts balance when the counters change by what the call and the   *)
(* ended misses do.                                                         *)
LEMMA EvenCounts ==
  ASSUME NEW a \in Frontend, NEW b, NEW k \in Nat, NEW o \in Nat, NEW e \in Nat, Counts(a, b, k, o, e),
         NEW n \in Nat, NEW m \in Nat, NEW c \in EncCall, NEW d \in EncCall,
         k + n + Weight(c) = m + o + e + Weight(d)
  PROVE  Even(a, n, c, b, m, d)
<1>1. PICK w, z : w = Weight(c) /\ z = Weight(d)
  BY Zenon
<1>2. w \in Nat /\ z \in Nat /\ k + n + w = m + o + e + z
  BY <1>1, WeightIsNat, Zenon
<1>3. PICK am, ao, al, ae : am = a.misses /\ ao = a.oversized /\ al = Len(a.lru) /\ ae = a.evictions
  BY Zenon
<1>4. am \in Nat /\ ao \in Nat /\ al \in Nat /\ ae \in Nat
  BY <1>3, FrontendHas, Zenon
<1>5. b.misses = am + k /\ b.oversized = ao + o /\ b.evictions = ae + e /\ Len(b.lru) = al
  BY <1>3, Zenon DEF Counts
<1>6. (am + k) + (n + ao + al + ae + w) = am + (m + (ao + o) + al + (ae + e) + z)
  BY <1>2, <1>4
<1> QED
  BY <1>1, <1>3, <1>5, <1>6, Zenon DEF Even, Balance

(* A step of call p that changes its frontend's counters and ended misses.  *)
CountedStep(p, f, b, k, o, e, m) ==
  /\ f \in Fronts /\ f = FrontOf[p] /\ Counts(front[f], b, k, o, e) /\ front' = [front EXCEPT ![f] = b]
  /\ enc' \in [Encoders -> EncCall] /\ Elsewhere(Encoders, enc, enc', p)
  /\ CallFits(front[f], enc'[p]) /\ enc'[p].pc # "load" /\ enc[p].pc # "load"
  /\ ended' = [ended EXCEPT ![f] = m] /\ occupancy' = occupancy /\ made' = made
  /\ k + ended[f] + Weight(enc[p]) = m + o + e + Weight(enc'[p])

(* Steps of a call on the counters.                                         *)
LEMMA CountedSteps ==
  ASSUME EncInvariant, NEW p \in Encoders, NEW f, NEW b, NEW k \in Nat, NEW o \in Nat, NEW e \in Nat, NEW m \in Nat,
         CountedStep(p, f, b, k, o, e, m)
  PROVE  EncInvariant'
<1> USE DEF CountedStep
<1>1. front \in [Fronts -> Frontend] /\ enc \in [Encoders -> EncCall] /\ ended \in [Fronts -> Nat]
  BY EncHas, Zenon
<1>2. b \in Frontend
  BY Zenon DEF Counts
<1>3. front' \in [Fronts -> Frontend] /\ Elsewhere(Fronts, front, front', f) /\ front'[f] = b
  BY <1>1, <1>2, Zenon DEF Elsewhere
<1>4. ended' \in [Fronts -> Nat] /\ Elsewhere(Fronts, ended, ended', f) /\ ended'[f] = m
  BY <1>1, Zenon DEF Elsewhere
<1>5. PICK a, c, d, n : a = front[f] /\ c = enc[p] /\ d = enc'[p] /\ n = ended[f]
  BY Zenon
<1>6. a \in Frontend /\ c \in EncCall /\ d \in EncCall /\ n \in Nat
  BY <1>1, <1>5, Zenon
<1>7. Even(a, n, c, b, m, d)
  BY <1>5, <1>6, EvenCounts, Zenon
<1>8. Even(front[f], ended[f], enc[p], front'[f], ended'[f], enc'[p])
  BY <1>3, <1>4, <1>5, <1>7, Zenon
<1>9. /\ front'[f].byModel = front[f].byModel /\ front'[f].loadLock = front[f].loadLock
      /\ front'[f].lru = front[f].lru /\ front'[f].bytes = front[f].bytes
  BY <1>3, Zenon DEF Counts
<1> QED
  BY <1>3, <1>4, <1>8, <1>9, CounterSteps, Zenon

(* A value kept by an update.                                               *)
LEMMA KeptUpdate ==
  ASSUME NEW S, NEW T, NEW g \in [S -> T], NEW x \in S
  PROVE  g = [g EXCEPT ![x] = g[x]]
BY Zenon

(* A miss: the call will encode.                                            *)
LEMMA StepMiss ==
  ASSUME EncInvariant, NEW p \in Encoders, EncAt(p, "ready"), EncGo(p, "encode"),
         front' = [front EXCEPT ![FrontOf[p]].misses = @ + 1], UNCHANGED <<occupancy, made, ended>>
  PROVE  EncInvariant'
<1>1. PICK f, c : f = FrontOf[p] /\ c = enc[p]
  BY Zenon
<1>2. /\ c \in EncCall /\ f \in Fronts /\ CallFits(front[f], c) /\ c.pc = "ready"
      /\ front[f] \in Frontend /\ ended \in [Fronts -> Nat]
  BY <1>1, EncHas, Zenon DEF EncAt
<1>3. c.model \in EncModels /\ c.text \in Texts /\ front[f].byModel[c.model] # NotLoaded
  BY <1>2, Zenon DEF CallFits
<1>4. /\ enc' \in [Encoders -> EncCall] /\ Elsewhere(Encoders, enc, enc', p)
      /\ enc'[p].pc = "encode" /\ enc'[p].model = c.model /\ enc'[p].text = c.text
      /\ enc'[p].evicted = c.evicted /\ enc'[p].answer = c.answer
  <2>1. "encode" \in EncPoints
    BY Zenon DEF EncPoints
  <2> QED
    BY <1>1, <2>1, EncGoes, Zenon
<1>5. Weight(c) = 0 /\ c.evicted = 0
  BY <1>2, WeightIs, Zenon
<1>6. CallFits(front[f], enc'[p]) /\ enc'[p] \in EncCall
  BY <1>2, <1>3, <1>4, <1>5, Zenon DEF CallFits
<1>7. Weight(enc'[p]) = 1
  BY <1>4, <1>6, WeightIs, Zenon
<1>8. PICK a, b : a = front[f] /\ b = [a EXCEPT !.misses = a.misses + 1]
  BY Zenon
<1>9. a \in Frontend /\ a.misses \in Nat /\ a.misses + 1 \in Nat /\ a.oversized \in Nat /\ a.evictions \in Nat
  <2>1. a \in Frontend /\ a.misses \in Nat /\ a.oversized \in Nat /\ a.evictions \in Nat
    BY <1>2, <1>8, FrontendHas, Zenon
  <2> QED
    BY <2>1
<1>10. Counts(a, b, 1, 0, 0)
  <2>1. a.oversized = a.oversized + 0 /\ a.evictions = a.evictions + 0
    BY <1>9
  <2>2. /\ b \in Frontend /\ b.byModel = a.byModel /\ b.loadLock = a.loadLock /\ b.lru = a.lru /\ b.bytes = a.bytes
        /\ b.misses = a.misses + 1 /\ b.oversized = a.oversized /\ b.evictions = a.evictions
    BY <1>8, <1>9, Zenon DEF Frontend
  <2> QED
    BY <2>1, <2>2, Zenon DEF Counts
<1>11. front' = [front EXCEPT ![f] = b]
  BY <1>1, <1>8, Zenon
<1>12. ended[f] \in Nat /\ ended' = [ended EXCEPT ![f] = ended[f]]
  BY <1>2, KeptUpdate, Zenon
<1>13. 1 + ended[f] + Weight(enc[p]) = ended[f] + 0 + 0 + Weight(enc'[p])
  <2>1. PICK n : n = ended[f]
    BY Zenon
  <2>2. n \in Nat /\ 1 + n + 0 = n + 0 + 0 + 1
    BY <1>12, <2>1
  <2> QED
    BY <1>1, <1>5, <1>7, <2>1, <2>2, Zenon
<1>14. 0 \in Nat /\ 1 \in Nat
  OBVIOUS
<1> QED
  <2>1. enc'[p].pc # "load" /\ enc[p].pc # "load"
    BY <1>1, <1>2, <1>4, Zenon
  <2>2. CountedStep(p, f, b, 1, 0, 0, ended[f])
    BY <1>1, <1>2, <1>4, <1>6, <1>8, <1>10, <1>11, <1>12, <1>13, <2>1, Zenon DEF CountedStep
  <2> QED
    BY <1>12, <1>14, <2>2, CountedSteps, Zenon

(* An encoding that fails, is too large, or will be stored.                 *)
LEMMA StepEncode ==
  ASSUME EncInvariant, NEW p \in Encoders, Encode(p)
  PROVE  EncInvariant'
<1>1. PICK f, c, a, n : f = FrontOf[p] /\ c = enc[p] /\ a = front[f] /\ n = ended[f]
  BY Zenon
<1>2. /\ c \in EncCall /\ f \in Fronts /\ CallFits(a, c) /\ c.pc = "encode"
      /\ a \in Frontend /\ ended \in [Fronts -> Nat] /\ n \in Nat /\ front \in [Fronts -> Frontend]
  BY <1>1, EncHas, Zenon DEF EncAt, Encode
<1>3. c.model \in EncModels /\ c.text \in Texts /\ a.byModel[c.model] # NotLoaded
  BY <1>2, Zenon DEF CallFits
<1>4. Weight(c) = 1 /\ c.evicted = 0
  BY <1>2, WeightIs, Zenon
<1>5. /\ a.misses \in Nat /\ a.oversized \in Nat /\ a.evictions \in Nat
  BY <1>2, FrontendHas, Zenon
<1>6. 0 \in Nat /\ 1 \in Nat /\ n + 1 \in Nat
  BY <1>2
<1>7. occupancy' = occupancy /\ made' = made /\ c.pc # "load"
  BY <1>2, Zenon DEF Encode
<1>8. ASSUME NEW answer \in {<<>>, Encoding(p)}, EncDone(p, answer)
      PROVE  /\ enc' \in [Encoders -> EncCall] /\ Elsewhere(Encoders, enc, enc', p)
             /\ CallFits(a, enc'[p]) /\ enc'[p].pc # "load" /\ Weight(enc'[p]) = 0
  <2>1. Encoding(p) = <<c.model, c.text>> /\ Encoding(p) \in EncModels \X Texts
    BY <1>1, <1>3, Zenon DEF Encoding
  <2>2. answer \in (EncModels \X Texts) \cup {<<>>}
    BY <1>8, <2>1, Zenon
  <2>3. /\ enc' \in [Encoders -> EncCall] /\ Elsewhere(Encoders, enc, enc', p)
        /\ enc'[p].pc = "idle" /\ enc'[p].model = c.model /\ enc'[p].text = c.text
        /\ enc'[p].evicted = c.evicted /\ enc'[p].answer = answer
    BY <1>1, <1>8, <2>2, EncEnds, Zenon
  <2>4. CallFits(a, enc'[p]) /\ enc'[p] \in EncCall
    BY <1>4, <1>8, <2>1, <2>3, Zenon DEF CallFits
  <2>5. Weight(enc'[p]) = 0
    BY <2>3, <2>4, WeightIs, Zenon
  <2> QED
    BY <2>3, <2>4, <2>5, Zenon
<1>9. Counts(a, a, 0, 0, 0)
  <2>1. a.misses = a.misses + 0 /\ a.oversized = a.oversized + 0 /\ a.evictions = a.evictions + 0
    BY <1>5
  <2> QED
    BY <1>2, <2>1, Zenon DEF Counts
<1>10. CASE EncDone(p, <<>>) /\ ended' = [ended EXCEPT ![f] = @ + 1] /\ UNCHANGED front
  <2>1. front' = [front EXCEPT ![f] = a] /\ ended' = [ended EXCEPT ![f] = n + 1]
    BY <1>1, <1>2, <1>10, KeptUpdate, Zenon
  <2>2. 0 + n + 1 = (n + 1) + 0 + 0 + 0
    BY <1>2
  <2>3. CountedStep(p, f, a, 0, 0, 0, n + 1)
    BY <1>1, <1>2, <1>4, <1>7, <1>8, <1>9, <1>10, <2>1, <2>2, Zenon DEF CountedStep
  <2> QED
    BY <1>6, <2>3, CountedSteps, Zenon
<1>11. CASE front' = [front EXCEPT ![f].oversized = @ + 1] /\ EncDone(p, Encoding(p)) /\ UNCHANGED ended
  <2>1. PICK b : b = [a EXCEPT !.oversized = a.oversized + 1]
    BY Zenon
  <2>2. a.oversized + 1 \in Nat /\ a.misses = a.misses + 0 /\ a.evictions = a.evictions + 0
    BY <1>5
  <2>3. Counts(a, b, 0, 1, 0)
    <3>1. /\ b \in Frontend /\ b.byModel = a.byModel /\ b.loadLock = a.loadLock /\ b.lru = a.lru /\ b.bytes = a.bytes
          /\ b.misses = a.misses /\ b.oversized = a.oversized + 1 /\ b.evictions = a.evictions
      BY <1>2, <2>1, <2>2, Zenon DEF Frontend
    <3> QED
      BY <2>2, <3>1, Zenon DEF Counts
  <2>4. front' = [front EXCEPT ![f] = b] /\ ended' = [ended EXCEPT ![f] = n]
    BY <1>1, <1>2, <1>11, <2>1, KeptUpdate, Zenon
  <2>5. 0 + n + 1 = n + 1 + 0 + 0
    BY <1>2
  <2>6. CountedStep(p, f, b, 0, 1, 0, n)
    BY <1>1, <1>2, <1>4, <1>7, <1>8, <1>11, <2>3, <2>4, <2>5, Zenon DEF CountedStep
  <2> QED
    BY <1>2, <1>6, <2>6, CountedSteps, Zenon
<1>12. CASE TextBytes[enc[p].text] <= MaxEntryBytes /\ EncGo(p, "insert") /\ UNCHANGED <<front, ended>>
  <2>1. /\ enc' \in [Encoders -> EncCall] /\ Elsewhere(Encoders, enc, enc', p)
        /\ enc'[p].pc = "insert" /\ enc'[p].model = c.model /\ enc'[p].text = c.text
        /\ enc'[p].evicted = c.evicted /\ enc'[p].answer = c.answer
    <3>1. "insert" \in EncPoints
      BY Zenon DEF EncPoints
    <3> QED
      BY <1>1, <1>12, <3>1, EncGoes, Zenon
  <2>2. CallFits(a, enc'[p]) /\ enc'[p] \in EncCall
    BY <1>1, <1>2, <1>3, <1>4, <1>12, <2>1, Zenon DEF CallFits
  <2>3. Weight(enc'[p]) = 1
    BY <2>1, <2>2, WeightIs, Zenon
  <2>4. enc'[p].pc # "load" /\ enc[p].pc # "load" /\ Weight(enc'[p]) = Weight(enc[p]) /\ CallFits(front[FrontOf[p]], enc'[p])
    BY <1>1, <1>4, <1>7, <2>1, <2>2, <2>3, Zenon
  <2>5. UNCHANGED <<front, occupancy, made, ended>>
    BY <1>7, <1>12, Zenon
  <2> QED
    BY <2>1, <2>4, <2>5, CallSteps, Zenon
<1> QED
  BY <1>1, <1>10, <1>11, <1>12, Zenon DEF Encode

(* The evictions of a call are counted.                                     *)
LEMMA StepCount ==
  ASSUME EncInvariant, NEW p \in Encoders, CountEvictions(p)
  PROVE  EncInvariant'
<1>1. PICK f, c, a, n, v : f = FrontOf[p] /\ c = enc[p] /\ a = front[f] /\ n = ended[f] /\ v = c.evicted
  BY Zenon
<1>2. /\ c \in EncCall /\ f \in Fronts /\ CallFits(a, c) /\ c.pc = "count" /\ enc \in [Encoders -> EncCall]
      /\ a \in Frontend /\ ended \in [Fronts -> Nat] /\ n \in Nat /\ front \in [Fronts -> Frontend]
  BY <1>1, EncHas, Zenon DEF EncAt, CountEvictions
<1>3. c.model \in EncModels /\ c.text \in Texts
  BY <1>2, Zenon DEF CallFits
<1>4. Weight(c) = v /\ v \in Nat
  BY <1>1, <1>2, WeightIs, Zenon
<1>5. a.misses \in Nat /\ a.oversized \in Nat /\ a.evictions \in Nat
  BY <1>2, FrontendHas, Zenon
<1>6. 0 \in Nat /\ a.evictions + v \in Nat /\ a.misses = a.misses + 0 /\ a.oversized = a.oversized + 0
  BY <1>4, <1>5
<1>7. PICK w, d : w = <<c.model, c.text>> /\ d = [c EXCEPT !.pc = "idle", !.answer = w, !.evicted = 0]
  BY Zenon
<1>8. w \in EncModels \X Texts
  BY <1>3, <1>7, Zenon
<1>9. d \in EncCall /\ d.pc = "idle" /\ d.model = c.model /\ d.text = c.text /\ d.evicted = 0 /\ d.answer = w
  BY <1>2, <1>6, <1>7, <1>8, Zenon DEF EncCall, EncPoints
<1>10. enc' = [enc EXCEPT ![p] = d]
  BY <1>1, <1>7, Zenon DEF CountEvictions, Encoding
<1>11. enc' \in [Encoders -> EncCall] /\ Elsewhere(Encoders, enc, enc', p) /\ enc'[p] = d
  BY <1>2, <1>9, <1>10, Zenon DEF Elsewhere
<1>12. CallFits(a, d) /\ d.pc # "load" /\ c.pc # "load"
  BY <1>2, <1>7, <1>9, Zenon DEF CallFits
<1>13. Weight(d) = 0
  BY <1>9, <1>12, WeightIs, Zenon
<1>14. PICK b : b = [a EXCEPT !.evictions = a.evictions + v]
  BY Zenon
<1>15. Counts(a, b, 0, 0, v)
  <2>1. /\ b \in Frontend /\ b.byModel = a.byModel /\ b.loadLock = a.loadLock /\ b.lru = a.lru /\ b.bytes = a.bytes
        /\ b.misses = a.misses /\ b.oversized = a.oversized /\ b.evictions = a.evictions + v
    BY <1>2, <1>6, <1>14, Zenon DEF Frontend
  <2> QED
    BY <1>6, <2>1, Zenon DEF Counts
<1>16. front' = [front EXCEPT ![f] = b] /\ occupancy' = occupancy /\ made' = made
  BY <1>1, <1>14, Zenon DEF CountEvictions
<1>17. ended' = [ended EXCEPT ![f] = n]
  BY <1>1, <1>2, KeptUpdate, Zenon DEF CountEvictions
<1>18. 0 + n + v = n + 0 + v + 0
  BY <1>2, <1>4
<1>19. CountedStep(p, f, b, 0, 0, v, n)
  BY <1>1, <1>2, <1>4, <1>11, <1>12, <1>13, <1>15, <1>16, <1>17, <1>18, Zenon DEF CountedStep
<1> QED
  BY <1>2, <1>4, <1>6, <1>19, CountedSteps, Zenon

(* A step of call p that changes what its frontend's cache holds.           *)
ContentStep(p, f, b, m) ==
  /\ f \in Fronts /\ f = FrontOf[p] /\ b \in Frontend
  /\ b.byModel = front[f].byModel /\ b.loadLock = front[f].loadLock /\ CacheFits(b)
  /\ front' = [front EXCEPT ![f] = b] /\ ended' = [ended EXCEPT ![f] = m] /\ made' = made
  /\ occupancy' \in [entries : Nat, bytes : Nat] /\ Occupied(front', occupancy')
  /\ enc' \in [Encoders -> EncCall] /\ Elsewhere(Encoders, enc, enc', p)
  /\ CallFits(front[f], enc'[p]) /\ enc'[p].pc # "load" /\ enc[p].pc # "load"
  /\ Even(front[f], ended[f], enc[p], b, m, enc'[p])

(* Steps of a call on the contents of a cache.                              *)
LEMMA ContentSteps ==
  ASSUME EncInvariant, NEW p \in Encoders, NEW f, NEW b, NEW m \in Nat, ContentStep(p, f, b, m)
  PROVE  EncInvariant'
<1> USE DEF ContentStep
<1>1. PICK fr, es, en, oc : fr = front' /\ es = enc' /\ en = ended' /\ oc = occupancy'
  BY Zenon
<1>2. /\ front \in [Fronts -> Frontend] /\ enc \in [Encoders -> EncCall] /\ ended \in [Fronts -> Nat]
      /\ Accounted(front, ended, enc)
  BY EncHas, Zenon
<1>3. fr \in [Fronts -> Frontend] /\ Elsewhere(Fronts, front, fr, f) /\ fr[f] = b
  BY <1>1, <1>2, Zenon DEF Elsewhere
<1>4. en \in [Fronts -> Nat] /\ Elsewhere(Fronts, ended, en, f) /\ en[f] = m
  BY <1>1, <1>2, Zenon DEF Elsewhere
<1>5. Even(front[f], ended[f], enc[p], fr[f], en[f], es[p]) /\ Elsewhere(Encoders, enc, es, p) /\ es \in [Encoders -> EncCall]
  BY <1>1, <1>3, <1>4, Zenon
<1>6. Accounted(fr, en, es)
  BY <1>2, <1>3, <1>4, <1>5, AccountsMove, Zenon
<1>7. CallFits(fr[f], es[p])
  BY <1>1, <1>3, Zenon DEF CallFits
<1>8. \A q \in Encoders : \/ es[q] = enc[q]
                          \/ FrontOf[q] = f /\ CallFits(fr[f], es[q]) /\ es[q].pc # "load" /\ enc[q].pc # "load"
  BY <1>1, <1>7, Zenon DEF Elsewhere
<1>9. CacheFits(fr[f]) /\ Occupied(fr, oc) /\ oc \in [entries : Nat, bytes : Nat]
  BY <1>1, <1>3, Zenon
<1>10. fr[f].byModel = front[f].byModel /\ fr[f].loadLock = front[f].loadLock
  BY <1>3, Zenon
<1>11. EncState(fr, es, oc, made, en)
  BY <1>3, <1>4, <1>5, <1>6, <1>8, <1>9, <1>10, CacheSteps, Zenon
<1> QED
  BY <1>1, <1>11, Zenon DEF EncInvariant

(* The accounts balance when the contents change by what the call and the   *)
(* ended misses do.                                                         *)
LEMMA EvenContents ==
  ASSUME NEW a \in Frontend, NEW b \in Frontend,
         b.misses = a.misses, b.oversized = a.oversized, b.evictions = a.evictions,
         NEW n \in Nat, NEW m \in Nat, NEW c \in EncCall, NEW d \in EncCall,
         n + Len(a.lru) + Weight(c) = m + Len(b.lru) + Weight(d)
  PROVE  Even(a, n, c, b, m, d)
<1>1. PICK w, z, k, l : w = Weight(c) /\ z = Weight(d) /\ k = Len(a.lru) /\ l = Len(b.lru)
  BY Zenon
<1>2. w \in Nat /\ z \in Nat /\ k \in Nat /\ l \in Nat /\ n + k + w = m + l + z
  BY <1>1, WeightIsNat, FrontendHas, Zenon
<1>3. PICK am, ao, ae : am = a.misses /\ ao = a.oversized /\ ae = a.evictions
  BY Zenon
<1>4. am \in Nat /\ ao \in Nat /\ ae \in Nat
  BY <1>3, FrontendHas, Zenon
<1>5. am + (n + ao + k + ae + w) = am + (m + ao + l + ae + z)
  BY <1>2, <1>4
<1> QED
  BY <1>1, <1>3, <1>5, Zenon DEF Even, Balance

(* The key and the value of model m and text x.                             *)
Keys(byModel, m, x, e) == e.key = <<byModel[m].instance, x>>

Encodes(e, m, x) == e.value = <<m, x>>

(* The instance of a loaded model is its own, so an entry under a call's    *)
(* key is the call's encoding.                                              *)
LEMMA FoundIsOwn ==
  ASSUME NEW byModel, NEW n, ModelFits(byModel, n), NEW m \in EncModels, byModel[m] # NotLoaded,
         NEW e, Owned(byModel, e), NEW x, Keys(byModel, m, x, e)
  PROVE  Encodes(e, m, x)
<1>1. e.key[1] = byModel[m].instance /\ e.key[2] = x
  BY DEF Keys
<1>2. PICK k \in EncModels : byModel[k].instance = e.key[1] /\ e.value = <<k, e.key[2]>>
  BY Zenon DEF Owned
<1>3. byModel[m].instance # 0
  BY Zenon DEF ModelFits
<1>4. byModel[k].instance = byModel[m].instance
  BY <1>1, <1>2, Zenon
<1>5. k = m
  BY <1>3, <1>4, Zenon DEF ModelFits
<1> QED
  BY <1>1, <1>2, <1>5, Zenon DEF Encodes

(* The second branch of LookUp: a hit.                                      *)
HitStep(p, s, k) ==
  /\ EncAt(p, "ready") /\ s = Of(p).lru /\ k = KeyOf(p) /\ HasKey(s, k)
  /\ front' = [front EXCEPT ![FrontOf[p]].lru = <<EntryOf(s, k)>> \o WithoutKey(s, k), ![FrontOf[p]].hits = @ + 1]
  /\ EncDone(p, EntryOf(s, k).value) /\ UNCHANGED <<occupancy, made, ended>>

(* A hit reorders the cache and answers with the call's encoding.           *)
LEMMA StepHit ==
  ASSUME EncInvariant, NEW p \in Encoders, NEW s, NEW k, HitStep(p, s, k)
  PROVE  EncInvariant'
<1>0. /\ EncAt(p, "ready") /\ s = Of(p).lru /\ k = KeyOf(p) /\ HasKey(s, k)
      /\ EncDone(p, EntryOf(s, k).value) /\ occupancy' = occupancy /\ made' = made /\ ended' = ended
  BY Zenon DEF HitStep
<1>1. PICK f, c, a, n : f = FrontOf[p] /\ c = enc[p] /\ a = front[f] /\ n = ended[f]
  BY Zenon
<1>2. /\ c \in EncCall /\ f \in Fronts /\ CallFits(a, c) /\ c.pc = "ready" /\ CacheFits(a) /\ s = a.lru
      /\ a \in Frontend /\ ended \in [Fronts -> Nat] /\ n \in Nat /\ front \in [Fronts -> Frontend]
      /\ Occupied(front, occupancy) /\ occupancy \in [entries : Nat, bytes : Nat]
  BY <1>0, <1>1, EncHas, Zenon DEF EncAt, Of
<1>3. c.model \in EncModels /\ c.text \in Texts /\ a.byModel[c.model] # NotLoaded
  BY <1>2, Zenon DEF CallFits
<1>4. s \in Seq(Entry) /\ Len(s) <= MaxCached /\ Distinct(s) /\ a.bytes = SumBytes(s) /\ a.bytes <= MaxCachedBytes
      /\ a.hits \in Nat /\ Len(s) \in Nat
  BY <1>2, FrontendHas, Zenon DEF CacheFits
<1>5. PICK e, t : e = EntryOf(s, k) /\ t = WithoutKey(s, k)
  BY Zenon
<1>6. IsFound(s, k, e) /\ IsRest(s, k, <<e>>, t)
  BY <1>0, <1>4, <1>5, RestOfSame, Zenon
<1>7. e \in Entry /\ e.key = k /\ e.bytes \in Nat /\ \E j \in 1 .. Len(s) : e = s[j]
  BY <1>6, EntryHasBytes, Zenon DEF IsFound
<1>8. PICK o, r : o = <<e>> /\ r = <<e>> \o t
  BY Zenon
<1>9. o \in Seq(Entry) /\ Len(o) = 1 /\ SumBytes(o) = e.bytes
  BY <1>7, <1>8, BytesOfOne, Zenon
<1>10. Renewed(s, e, o, r)
  BY <1>4, <1>6, <1>7, <1>8, <1>9, ConsOfRest, Zenon
<1>11. r \in Seq(Entry) /\ Len(r) = Len(s) /\ SumBytes(r) = SumBytes(s)
  <2>1. r \in Seq(Entry) /\ Len(r) + 1 = Len(s) + 1 /\ SumBytes(r) = SumBytes(s) - e.bytes + e.bytes
    BY <1>9, <1>10, Zenon DEF Renewed
  <2>2. SumBytes(s) \in Nat /\ Len(r) \in Nat
    <3>1. \A u \in Seq(Entry) : Len(u) \in Nat
      OBVIOUS
    <3> QED
      BY <1>4, <2>1, <3>1, BytesOfFew, Zenon
  <2>3. PICK x, y, i, j : x = SumBytes(s) /\ y = e.bytes /\ i = Len(r) /\ j = Len(s)
    BY Zenon
  <2>4. x - y + y = x /\ i = j
    BY <1>4, <1>7, <2>1, <2>2, <2>3
  <2> QED
    BY <2>1, <2>3, <2>4, Zenon
<1>12. PICK b : b = [a EXCEPT !.lru = r, !.hits = a.hits + 1]
  BY Zenon
<1>13. a.hits + 1 \in Nat
  BY <1>4
<1>14. /\ b \in Frontend /\ b.byModel = a.byModel /\ b.loadLock = a.loadLock /\ b.lru = r /\ b.bytes = a.bytes
       /\ b.misses = a.misses /\ b.oversized = a.oversized /\ b.evictions = a.evictions
  BY <1>2, <1>11, <1>12, <1>13, Zenon DEF Frontend
<1>15. \A i \in 1 .. Len(r) : \E j \in 1 .. Len(s) : r[i] = s[j]
  BY <1>7, <1>10, Zenon DEF Renewed
<1>16. CacheFits(b)
  <2>1. \A i \in 1 .. Len(r) : Owned(a.byModel, r[i])
    BY <1>2, <1>15, Zenon DEF CacheFits
  <2>2. Distinct(r) /\ Len(r) <= MaxCached
    BY <1>10, Zenon DEF Renewed
  <2> QED
    BY <1>4, <1>11, <1>14, <2>1, <2>2, Zenon DEF CacheFits
<1>17. front' = [front EXCEPT ![f] = b]
  BY <1>1, <1>5, <1>8, <1>12, Zenon DEF HitStep
<1>18. front' \in [Fronts -> Frontend] /\ Elsewhere(Fronts, front, front', f) /\ front'[f] = b
  BY <1>2, <1>14, <1>17, Zenon DEF Elsewhere
<1>19. Occupied(front', occupancy)
  <2>1. PICK fr, oc : fr = front' /\ oc = occupancy
    BY Zenon
  <2>2. \A g \in Fronts : Len(fr[g].lru) = Len(front[g].lru) /\ fr[g].bytes = front[g].bytes
    BY <1>1, <1>2, <1>11, <1>14, <1>18, <2>1, Zenon DEF Elsewhere
  <2>3. Occupied(fr, oc)
    BY <1>2, <1>18, <2>1, <2>2, OccupiedStays, Zenon
  <2> QED
    BY <2>1, <2>3, Zenon
<1>20. e.value = <<c.model, c.text>>
  <2>1. Owned(a.byModel, e)
    BY <1>2, <1>7, Zenon DEF CacheFits
  <2>2. Keys(a.byModel, c.model, c.text, e)
    BY <1>0, <1>1, <1>7, Zenon DEF Keys, KeyOf, LoadedFor, Of
  <2>3. ModelFits(a.byModel, made)
    BY <1>1, <1>2, Zenon DEF EncInvariant, EncState, ModelsFit
  <2>4. Encodes(e, c.model, c.text)
    BY <1>3, <2>1, <2>2, <2>3, FoundIsOwn, Zenon
  <2> QED
    BY <2>4, Zenon DEF Encodes
<1>21. e.value \in (EncModels \X Texts) \cup {<<>>}
  <2>1. <<c.model, c.text>> \in EncModels \X Texts
    BY <1>3, Zenon
  <2> QED
    BY <1>20, <2>1, Zenon
<1>22. /\ enc' \in [Encoders -> EncCall] /\ Elsewhere(Encoders, enc, enc', p)
       /\ enc'[p].pc = "idle" /\ enc'[p].model = c.model /\ enc'[p].text = c.text
       /\ enc'[p].evicted = c.evicted /\ enc'[p].answer = e.value
  BY <1>0, <1>1, <1>5, <1>21, EncEnds, Zenon
<1>23. PICK d : d = enc'[p]
  BY Zenon
<1>24. Weight(c) = 0 /\ c.evicted = 0
  BY <1>2, WeightIs, Zenon
<1>25. CallFits(a, d) /\ d \in EncCall /\ d.pc # "load" /\ c.pc # "load"
  BY <1>2, <1>20, <1>22, <1>23, <1>24, Zenon DEF CallFits
<1>26. Weight(d) = 0
  BY <1>22, <1>23, <1>25, WeightIs, Zenon
<1>27. Even(a, n, c, b, n, d)
  <2>1. n + Len(a.lru) + Weight(c) = n + Len(b.lru) + Weight(d)
    BY <1>2, <1>11, <1>14, <1>24, <1>26, Zenon
  <2> QED
    BY <1>2, <1>14, <1>25, <2>1, EvenContents, Zenon
<1>28. ended' = [ended EXCEPT ![f] = n]
  BY <1>0, <1>1, <1>2, KeptUpdate, Zenon
<1>29. Occupied(front', occupancy') /\ occupancy' \in [entries : Nat, bytes : Nat] /\ made' = made
  BY <1>0, <1>2, <1>19, Zenon
<1>30. ContentStep(p, f, b, n)
  BY <1>1, <1>2, <1>14, <1>16, <1>17, <1>22, <1>23, <1>25, <1>27, <1>28, <1>29, Zenon DEF ContentStep
<1> QED
  BY <1>2, <1>30, ContentSteps, Zenon

(* An insert pushes the call's encoding and trims to the budget.            *)
LEMMA StepInsert ==
  ASSUME EncInvariant, NEW p \in Encoders, Insert(p)
  PROVE  EncInvariant'
<1>1. PICK f, c, a, n, s : f = FrontOf[p] /\ c = enc[p] /\ a = front[f] /\ n = ended[f] /\ s = a.lru
  BY Zenon
<1>2. /\ c \in EncCall /\ f \in Fronts /\ CallFits(a, c) /\ c.pc = "insert" /\ CacheFits(a)
      /\ a \in Frontend /\ ended \in [Fronts -> Nat] /\ n \in Nat /\ front \in [Fronts -> Frontend]
      /\ Occupied(front, occupancy) /\ enc \in [Encoders -> EncCall]
  BY <1>1, EncHas, Zenon DEF EncAt, Insert
<1>3. c.model \in EncModels /\ c.text \in Texts /\ a.byModel[c.model] # NotLoaded
  BY <1>2, Zenon DEF CallFits
<1>4. s \in Seq(Entry) /\ Len(s) <= MaxCached /\ Distinct(s) /\ a.bytes = SumBytes(s) /\ Len(s) \in Nat
      /\ \A i \in 1 .. Len(s) : Owned(a.byModel, s[i])
  BY <1>1, <1>2, FrontendHas, Zenon DEF CacheFits
<1>5. PICK i, x : i = a.byModel[c.model].instance /\ x = TextBytes[c.text]
  BY Zenon
<1>6. i \in Nat /\ x \in Nat /\ i # 0
  <2>1. a.byModel[c.model] \in [instance : Nat, cached : BOOLEAN]
    BY <1>2, <1>3, FrontendHas, Zenon
  <2>2. ModelFits(a.byModel, made)
    BY <1>1, <1>2, Zenon DEF EncInvariant, EncState, ModelsFit
  <2>3. x \in Nat
    BY <1>3, <1>5, EncodeAssumption, Zenon DEF Texts
  <2> QED
    BY <1>3, <1>5, <2>1, <2>2, <2>3, Zenon DEF ModelFits
<1>7. PICK e : e = [key |-> <<i, c.text>>, value |-> <<c.model, c.text>>, bytes |-> x]
  BY Zenon
<1>8. e \in Entry /\ Owned(a.byModel, e)
  BY <1>3, <1>5, <1>6, <1>7, Zenon DEF Entry, Owned
<1>9. PICK q, r : q = Push(a, e) /\ r = Trim(q)
  BY Zenon
<1>10. /\ front' = [front EXCEPT ![f].lru = r.lru, ![f].bytes = r.bytes] /\ PublishDelta(f)
       /\ ended' = [ended EXCEPT ![f] = n + q.replaced] /\ made' = made
       /\ enc' = [enc EXCEPT ![p].pc = "count", ![p].evicted = r.evicted]
  <2>1. e = [key |-> KeyOf(p), value |-> Encoding(p), bytes |-> TextBytes[enc[p].text]]
    BY <1>1, <1>5, <1>7, Zenon DEF KeyOf, Encoding, LoadedFor, Of
  <2> QED
    BY <1>1, <1>9, <2>1, Zenon DEF Insert
<1>11. IsPushed(s, e, q)
  BY <1>1, <1>4, <1>8, <1>9, PushIs, Zenon
<1>12. IsTrimmed(s, e, q.replaced, r)
  BY <1>4, <1>8, <1>9, <1>11, TrimIs, Zenon
<1>13. PICK b : b = [a EXCEPT !.lru = r.lru, !.bytes = r.bytes]
  BY Zenon
<1>14. r.lru \in Seq(Entry) /\ r.bytes \in Nat /\ r.evicted \in Nat /\ q.replaced \in Nat /\ Len(r.lru) \in Nat
  <2>1. r.lru \in Seq(Entry) /\ r.evicted \in Nat /\ q.replaced \in Nat /\ r.bytes = SumBytes(r.lru)
    BY <1>11, <1>12, Zenon DEF IsTrimmed, IsPushed
  <2>2. \A u \in Seq(Entry) : Len(u) \in Nat
    OBVIOUS
  <2> QED
    BY <2>1, <2>2, BytesOfFew, Zenon
<1>15. /\ b \in Frontend /\ b.byModel = a.byModel /\ b.loadLock = a.loadLock /\ b.lru = r.lru /\ b.bytes = r.bytes
       /\ b.misses = a.misses /\ b.oversized = a.oversized /\ b.evictions = a.evictions
  BY <1>2, <1>13, <1>14, Zenon DEF Frontend
<1>16. CacheFits(b)
  <2>1. \A j \in 1 .. Len(r.lru) : Owned(a.byModel, r.lru[j])
    BY <1>4, <1>8, <1>12, Zenon DEF IsTrimmed
  <2> QED
    BY <1>12, <1>15, <2>1, Zenon DEF CacheFits, IsTrimmed
<1>17. front' = [front EXCEPT ![f] = b]
  BY <1>1, <1>10, <1>13, Zenon
<1>18. front' \in [Fronts -> Frontend] /\ Elsewhere(Fronts, front, front', f) /\ front'[f] = b
  BY <1>2, <1>15, <1>17, Zenon DEF Elsewhere
<1>19. occupancy' \in [entries : Nat, bytes : Nat] /\ Occupied(front', occupancy')
  <2>1. PICK fr, od : fr = front' /\ od = occupancy'
    BY Zenon
  <2>2. od = [entries |-> Published(occupancy.entries, Len(front[f].lru), Len(fr[f].lru)),
              bytes |-> Published(occupancy.bytes, front[f].bytes, fr[f].bytes)]
    BY <1>10, <2>1, Zenon DEF PublishDelta
  <2>3. od \in [entries : Nat, bytes : Nat] /\ Occupied(fr, od)
    BY <1>2, <1>18, <2>1, <2>2, OccupiedMoves, Zenon
  <2> QED
    BY <2>1, <2>3, Zenon
<1>20. PICK d : d = [c EXCEPT !.pc = "count", !.evicted = r.evicted]
  BY Zenon
<1>21. d \in EncCall /\ d.pc = "count" /\ d.model = c.model /\ d.text = c.text /\ d.evicted = r.evicted /\ d.answer = c.answer
  BY <1>2, <1>14, <1>20, Zenon DEF EncCall, EncPoints
<1>22. enc' = [enc EXCEPT ![p] = d]
  BY <1>1, <1>10, <1>20, Zenon
<1>23. enc' \in [Encoders -> EncCall] /\ Elsewhere(Encoders, enc, enc', p) /\ enc'[p] = d
  BY <1>2, <1>21, <1>22, Zenon DEF Elsewhere
<1>24. CallFits(a, d) /\ d.pc # "load" /\ c.pc # "load"
  BY <1>2, <1>3, <1>21, Zenon DEF CallFits
<1>25. Weight(c) = 1 /\ Weight(d) = r.evicted
  BY <1>2, <1>21, <1>24, WeightIs, Zenon
<1>26. n + q.replaced \in Nat
  BY <1>2, <1>14
<1>27. Even(a, n, c, b, n + q.replaced, d)
  <2>1. PICK k, l, v, t : k = Len(s) /\ l = Len(r.lru) /\ v = r.evicted /\ t = q.replaced
    BY Zenon
  <2>2. l + v + t = k + 1
    BY <1>12, <2>1, Zenon DEF IsTrimmed
  <2>3. n \in Nat /\ k \in Nat /\ l \in Nat /\ v \in Nat /\ t \in Nat
    BY <1>2, <1>4, <1>14, <2>1, Zenon
  <2>4. n + k + 1 = (n + t) + l + v
    BY <2>2, <2>3
  <2>5. n + Len(a.lru) + Weight(c) = (n + q.replaced) + Len(b.lru) + Weight(d)
    BY <1>1, <1>15, <1>25, <2>1, <2>4, Zenon
  <2> QED
    BY <1>2, <1>15, <1>21, <1>26, <2>5, EvenContents, Zenon
<1>28. ContentStep(p, f, b, n + q.replaced)
  BY <1>1, <1>2, <1>10, <1>15, <1>16, <1>17, <1>19, <1>23, <1>24, <1>27, Zenon DEF ContentStep
<1> QED
  BY <1>26, <1>28, ContentSteps, Zenon

(* A frontend as the load steps leave it: only its lock and its models      *)
(* change.                                                                  *)
Relocked(a, b) ==
  /\ b \in Frontend /\ b.lru = a.lru /\ b.bytes = a.bytes
  /\ b.misses = a.misses /\ b.oversized = a.oversized /\ b.evictions = a.evictions

(* A step of call p on the lock of its frontend.                            *)
LoadStep(p, f, b, n) ==
  /\ f \in Fronts /\ f = FrontOf[p] /\ Relocked(front[f], b) /\ n \in Nat
  /\ \A m \in EncModels : front[f].byModel[m] # NotLoaded => b.byModel[m] = front[f].byModel[m]
  /\ ModelFits(b.byModel, n) /\ LockFits(b.loadLock, enc', f)
  /\ front' = [front EXCEPT ![f] = b] /\ made' = n /\ occupancy' = occupancy /\ ended' = ended
  /\ enc' \in [Encoders -> EncCall] /\ Elsewhere(Encoders, enc, enc', p)
  /\ CallFits(b, enc'[p]) /\ Weight(enc'[p]) = Weight(enc[p])
  /\ \A q \in Encoders : q # p /\ FrontOf[q] = f => enc[q].pc # "load"
  /\ n >= made /\ n = Cardinality(LoadedPairs(front'))

(* Models keep fitting as more instances are made.                          *)
LEMMA ModelsStayFit ==
  ASSUME NEW byModel \in [EncModels -> [instance : Nat, cached : BOOLEAN]], NEW k \in Nat, NEW n \in Nat, n >= k,
         ModelFits(byModel, k)
  PROVE  ModelFits(byModel, n)
<1>1. \A m \in EncModels : byModel[m].instance \in Nat
  OBVIOUS
<1>2. ASSUME NEW x \in Nat, x <= k PROVE x <= n
  BY <1>2
<1> QED
  BY <1>1, <1>2, Zenon DEF ModelFits

(* Steps of a call on the lock of its frontend.                             *)
LEMMA LockSteps ==
  ASSUME EncInvariant, NEW p \in Encoders, NEW f, NEW b, NEW n, LoadStep(p, f, b, n)
  PROVE  EncInvariant'
<1> USE DEF LoadStep
<1>1. PICK fr, es : fr = front' /\ es = enc'
  BY Zenon
<1>2. front \in [Fronts -> Frontend] /\ enc \in [Encoders -> EncCall] /\ made \in Nat
  BY EncHas, Zenon
<1>3. b \in Frontend
  BY Zenon DEF Relocked
<1>4. fr \in [Fronts -> Frontend] /\ Elsewhere(Fronts, front, fr, f) /\ fr[f] = b
  BY <1>1, <1>2, <1>3, Zenon DEF Elsewhere
<1>5. LocksFit(fr, es)
  <2>1. ASSUME NEW g \in Fronts, g # f PROVE LockFits(fr[g].loadLock, es, g)
    <3>1. LockFits(front[g].loadLock, enc, g) /\ fr[g] = front[g]
      BY <1>4, <2>1, Zenon DEF EncInvariant, EncState, LocksFit, Elsewhere
    <3>2. \A q \in Encoders : FrontOf[q] = g => es[q] = enc[q]
      BY <1>1, <2>1, Zenon DEF Elsewhere
    <3> QED
      BY <3>1, <3>2, Zenon DEF LockFits
  <2>2. LockFits(fr[f].loadLock, es, f)
    BY <1>1, <1>4, Zenon
  <2> QED
    BY <2>1, <2>2, Zenon DEF LocksFit
<1>6. ModelsFit(fr, n)
  <2>1. ASSUME NEW g \in Fronts, g # f PROVE ModelFits(fr[g].byModel, n)
    <3>1. ModelFits(front[g].byModel, made) /\ fr[g] = front[g]
      BY <1>4, <2>1, Zenon DEF EncInvariant, EncState, ModelsFit, Elsewhere
    <3>2. front[g].byModel \in [EncModels -> [instance : Nat, cached : BOOLEAN]]
      BY <1>2, FrontendHas, Zenon
    <3>3. ModelFits(front[g].byModel, n)
      BY <1>2, <3>1, <3>2, ModelsStayFit, Zenon
    <3> QED
      BY <3>1, <3>3, Zenon
  <2> QED
    BY <1>4, <2>1, Zenon DEF ModelsFit
<1>7. /\ fr[f].lru = front[f].lru /\ fr[f].bytes = front[f].bytes /\ fr[f].misses = front[f].misses
      /\ fr[f].oversized = front[f].oversized /\ fr[f].evictions = front[f].evictions
  BY <1>4, Zenon DEF Relocked
<1>8. /\ \A m \in EncModels : front[f].byModel[m] # NotLoaded => fr[f].byModel[m] = front[f].byModel[m]
      /\ CallFits(fr[f], es[p]) /\ Weight(es[p]) = Weight(enc[p]) /\ Elsewhere(Encoders, enc, es, p)
      /\ es \in [Encoders -> EncCall] /\ n = Cardinality(LoadedPairs(fr))
      /\ \A q \in Encoders : q # p /\ FrontOf[q] = f => enc[q].pc # "load"
  BY <1>1, <1>4, Zenon
<1>9. EncState(fr, es, occupancy, n, ended)
  BY <1>4, <1>5, <1>6, <1>7, <1>8, LoadSteps, Zenon
<1> QED
  BY <1>1, <1>9, Zenon DEF EncInvariant

(* The loaded models of all frontends are those of one and of the others.   *)
LEMMA PairsStay ==
  ASSUME NEW fr, NEW hr, NEW f \in Fronts, Elsewhere(Fronts, fr, hr, f), hr[f].byModel = fr[f].byModel
  PROVE  LoadedPairs(hr) = LoadedPairs(fr)
<1>1. \A g \in Fronts : hr[g].byModel = fr[g].byModel
  BY Zenon DEF Elsewhere
<1>2. \A x \in Fronts \X EncModels : x[1] \in Fronts
  OBVIOUS
<1> QED
  BY <1>1, <1>2, Zenon DEF LoadedPairs

(* One more model is loaded.                                                *)
LEMMA PairsGrow ==
  ASSUME NEW fr, NEW hr, NEW f \in Fronts, NEW m \in EncModels, Elsewhere(Fronts, fr, hr, f),
         Elsewhere(EncModels, fr[f].byModel, hr[f].byModel, m),
         fr[f].byModel[m] = NotLoaded, hr[f].byModel[m] # NotLoaded,
         NEW n \in Nat, n = Cardinality(LoadedPairs(fr))
  PROVE  n + 1 = Cardinality(LoadedPairs(hr))
<1>1. PICK S, T, x : S = LoadedPairs(fr) /\ T = LoadedPairs(hr) /\ x = <<f, m>>
  BY Zenon
<1>2. IsFiniteSet(S)
  <2>1. IsFiniteSet(Fronts \X EncModels)
    BY EncodeAssumption, FS_Product, Zenon
  <2>2. S \in SUBSET (Fronts \X EncModels)
    BY <1>1, Zenon DEF LoadedPairs
  <2> QED
    BY <2>1, <2>2, FS_Subset, Zenon
<1>3. ASSUME NEW y, y # x PROVE y \in S <=> y \in T
  <2>1. CASE y \notin Fronts \X EncModels
    BY <1>1, <2>1, Zenon DEF LoadedPairs
  <2>2. CASE y \in Fronts \X EncModels
    <3>1. PICK g \in Fronts, k \in EncModels : y = <<g, k>> /\ y[1] = g /\ y[2] = k
      BY <2>2
    <3>2. g # f \/ k # m
      BY <1>1, <1>3, <3>1, Zenon
    <3>3. hr[g].byModel[k] = fr[g].byModel[k]
      BY <3>2, Zenon DEF Elsewhere
    <3>4. y \in S <=> fr[g].byModel[k] # NotLoaded
      BY <1>1, <2>2, <3>1, Zenon DEF LoadedPairs
    <3>5. y \in T <=> hr[g].byModel[k] # NotLoaded
      BY <1>1, <2>2, <3>1, Zenon DEF LoadedPairs
    <3> QED
      BY <3>3, <3>4, <3>5, Zenon
  <2> QED
    BY <2>1, <2>2, Zenon
<1>4. x \in Fronts \X EncModels /\ x[1] = f /\ x[2] = m
  BY <1>1
<1>5. x \notin S /\ x \in T
  BY <1>1, <1>4, Zenon DEF LoadedPairs
<1>6. Cardinality(T) = Cardinality(S) + 1
  BY <1>2, <1>3, <1>5, CountMoves
<1> QED
  BY <1>1, <1>6, Zenon

(* The lock of a frontend and its calls.                                    *)
LEMMA LockHas ==
  ASSUME EncInvariant, NEW f \in Fronts
  PROVE  /\ LockFits(front[f].loadLock, enc, f) /\ ModelFits(front[f].byModel, made)
         /\ made \in Nat /\ made = Cardinality(LoadedPairs(front))
BY Zenon DEF EncInvariant, EncState, LocksFit, ModelsFit, EncTypes

(* A call takes the lock to load its model.                                 *)
LEMMA StepLocks ==
  ASSUME EncInvariant, NEW p \in Encoders, EncAt(p, "wait"), Of(p).loadLock = {}, MustLoad(p),
         front' = [front EXCEPT ![FrontOf[p]].loadLock = {p}], EncGo(p, "load"), UNCHANGED <<occupancy, made, ended>>
  PROVE  EncInvariant'
<1>1. PICK f, c, a, n : f = FrontOf[p] /\ c = enc[p] /\ a = front[f] /\ n = made
  BY Zenon
<1>2. /\ c \in EncCall /\ f \in Fronts /\ CallFits(a, c) /\ c.pc = "wait" /\ a \in Frontend
      /\ front \in [Fronts -> Frontend] /\ a.loadLock = {} /\ a.byModel[c.model] = NotLoaded
  BY <1>1, EncHas, Zenon DEF EncAt, Of, MustLoad, LoadedFor
<1>3. LockFits(a.loadLock, enc, f) /\ ModelFits(a.byModel, n) /\ n \in Nat /\ n = Cardinality(LoadedPairs(front))
  BY <1>1, <1>2, LockHas, Zenon
<1>4. \A q \in Encoders : FrontOf[q] = f => enc[q].pc # "load"
  BY <1>2, <1>3, Zenon DEF LockFits
<1>5. /\ enc' \in [Encoders -> EncCall] /\ Elsewhere(Encoders, enc, enc', p)
      /\ enc'[p].pc = "load" /\ enc'[p].model = c.model /\ enc'[p].text = c.text
      /\ enc'[p].evicted = c.evicted /\ enc'[p].answer = c.answer
  <2>1. "load" \in EncPoints
    BY Zenon DEF EncPoints
  <2> QED
    BY <1>1, <2>1, EncGoes, Zenon
<1>6. PICK b : b = [a EXCEPT !.loadLock = {p}]
  BY Zenon
<1>7. b \in Frontend /\ Relocked(a, b) /\ b.byModel = a.byModel /\ b.loadLock = {p}
  BY <1>2, <1>6, Zenon DEF Frontend, Relocked
<1>8. front' = [front EXCEPT ![f] = b]
  BY <1>1, <1>6, Zenon
<1>9. Weight(c) = 0 /\ c.evicted = 0
  BY <1>2, WeightIs, Zenon
<1>10. CallFits(b, enc'[p]) /\ enc'[p] \in EncCall
  BY <1>2, <1>5, <1>7, <1>9, Zenon DEF CallFits
<1>11. Weight(enc'[p]) = Weight(enc[p])
  <2>1. Weight(enc'[p]) = 0
    BY <1>5, <1>10, WeightIs, Zenon
  <2> QED
    BY <1>1, <1>9, <2>1, Zenon
<1>12. LockFits(b.loadLock, enc', f)
  BY <1>1, <1>4, <1>5, <1>7, Zenon DEF LockFits, Elsewhere
<1>13. n = Cardinality(LoadedPairs(front'))
  <2>1. PICK fr : fr = front'
    BY Zenon
  <2>2. Elsewhere(Fronts, front, fr, f) /\ fr[f].byModel = front[f].byModel
    BY <1>1, <1>2, <1>7, <1>8, <2>1, Zenon DEF Elsewhere
  <2>3. LoadedPairs(fr) = LoadedPairs(front)
    BY <1>2, <2>2, PairsStay, Zenon
  <2> QED
    BY <1>3, <2>1, <2>3, Zenon
<1>14. n >= made
  BY <1>1, <1>3
<1>15. /\ made' = n /\ occupancy' = occupancy /\ ended' = ended /\ ModelFits(b.byModel, n)
       /\ \A m \in EncModels : front[f].byModel[m] # NotLoaded => b.byModel[m] = front[f].byModel[m]
       /\ Relocked(front[f], b)
  BY <1>1, <1>3, <1>7, Zenon
<1>16. LoadStep(p, f, b, n)
  BY <1>1, <1>2, <1>3, <1>4, <1>5, <1>8, <1>10, <1>11, <1>12, <1>13, <1>14, <1>15, Zenon DEF LoadStep
<1> QED
  BY <1>16, LockSteps, Zenon

(* What holds while a call loads: it alone has the lock.                    *)
LEMMA LoadsAlone ==
  ASSUME EncInvariant, NEW p \in Encoders, EncAt(p, "load"), NEW f, f = FrontOf[p]
  PROVE  /\ f \in Fronts /\ \A q \in Encoders : q # p /\ FrontOf[q] = f => enc[q].pc # "load"
<1>1. f \in Fronts
  BY EncHas, Zenon
<1>2. LockFits(front[f].loadLock, enc, f)
  BY <1>1, LockHas, Zenon
<1>3. p \in front[f].loadLock
  BY <1>2, Zenon DEF LockFits, EncAt
<1> QED
  BY <1>1, <1>2, <1>3, Zenon DEF LockFits

(* A load fails and gives the lock back.                                    *)
LEMMA StepLoadFails ==
  ASSUME EncInvariant, NEW p \in Encoders, EncAt(p, "load"),
         front' = [front EXCEPT ![FrontOf[p]].loadLock = {}], EncGo(p, "idle"), UNCHANGED <<occupancy, made, ended>>
  PROVE  EncInvariant'
<1>1. PICK f, c, a, n : f = FrontOf[p] /\ c = enc[p] /\ a = front[f] /\ n = made
  BY Zenon
<1>2. /\ c \in EncCall /\ f \in Fronts /\ CallFits(a, c) /\ c.pc = "load" /\ a \in Frontend
      /\ front \in [Fronts -> Frontend]
  BY <1>1, EncHas, Zenon DEF EncAt
<1>3. ModelFits(a.byModel, n) /\ n \in Nat /\ n = Cardinality(LoadedPairs(front))
  BY <1>1, <1>2, LockHas, Zenon
<1>4. \A q \in Encoders : q # p /\ FrontOf[q] = f => enc[q].pc # "load"
  BY <1>1, LoadsAlone, Zenon
<1>5. /\ enc' \in [Encoders -> EncCall] /\ Elsewhere(Encoders, enc, enc', p)
      /\ enc'[p].pc = "idle" /\ enc'[p].model = c.model /\ enc'[p].text = c.text
      /\ enc'[p].evicted = c.evicted /\ enc'[p].answer = c.answer
  <2>1. "idle" \in EncPoints
    BY Zenon DEF EncPoints
  <2> QED
    BY <1>1, <2>1, EncGoes, Zenon
<1>6. PICK b : b = [a EXCEPT !.loadLock = {}]
  BY Zenon
<1>7. b \in Frontend /\ Relocked(a, b) /\ b.byModel = a.byModel /\ b.loadLock = {}
  BY <1>2, <1>6, Zenon DEF Frontend, Relocked
<1>8. front' = [front EXCEPT ![f] = b]
  BY <1>1, <1>6, Zenon
<1>9. Weight(c) = 0 /\ c.evicted = 0
  BY <1>2, WeightIs, Zenon
<1>10. CallFits(b, enc'[p]) /\ enc'[p] \in EncCall
  BY <1>2, <1>5, <1>7, <1>9, Zenon DEF CallFits
<1>11. Weight(enc'[p]) = Weight(enc[p])
  <2>1. Weight(enc'[p]) = 0
    BY <1>5, <1>10, WeightIs, Zenon
  <2> QED
    BY <1>1, <1>9, <2>1, Zenon
<1>12. LockFits(b.loadLock, enc', f)
  BY <1>1, <1>4, <1>5, <1>7, Zenon DEF LockFits, Elsewhere
<1>13. n = Cardinality(LoadedPairs(front'))
  <2>1. PICK fr : fr = front'
    BY Zenon
  <2>2. Elsewhere(Fronts, front, fr, f) /\ fr[f].byModel = front[f].byModel
    BY <1>1, <1>2, <1>7, <1>8, <2>1, Zenon DEF Elsewhere
  <2>3. LoadedPairs(fr) = LoadedPairs(front)
    BY <1>2, <2>2, PairsStay, Zenon
  <2> QED
    BY <1>3, <2>1, <2>3, Zenon
<1>14. n >= made
  BY <1>1, <1>3
<1>15. /\ made' = n /\ occupancy' = occupancy /\ ended' = ended /\ ModelFits(b.byModel, n)
       /\ \A m \in EncModels : front[f].byModel[m] # NotLoaded => b.byModel[m] = front[f].byModel[m]
       /\ Relocked(front[f], b)
  BY <1>1, <1>3, <1>7, Zenon
<1>16. LoadStep(p, f, b, n)
  BY <1>1, <1>2, <1>3, <1>4, <1>5, <1>8, <1>10, <1>11, <1>12, <1>13, <1>14, <1>15, Zenon DEF LoadStep
<1> QED
  BY <1>16, LockSteps, Zenon

(* A new instance is no other model's.                                      *)
LEMMA ModelsGrow ==
  ASSUME NEW byModel \in [EncModels -> [instance : Nat, cached : BOOLEAN]], NEW n \in Nat, ModelFits(byModel, n),
         NEW m \in EncModels, NEW k \in BOOLEAN, NEW bm, bm = [byModel EXCEPT ![m] = [instance |-> n + 1, cached |-> k]]
  PROVE  /\ bm \in [EncModels -> [instance : Nat, cached : BOOLEAN]]
         /\ ModelFits(bm, n + 1) /\ bm[m] # NotLoaded /\ Elsewhere(EncModels, byModel, bm, m)
<1>1. PICK x, j : j = n + 1 /\ x = [instance |-> j, cached |-> k]
  BY Zenon
<1>2. j \in Nat /\ j # 0 /\ j <= j /\ \A i \in Nat : i <= n => i <= j /\ i # j
  BY <1>1
<1>3. x \in [instance : Nat, cached : BOOLEAN] /\ x.instance = j
  BY <1>1, <1>2, Zenon
<1>4. /\ bm \in [EncModels -> [instance : Nat, cached : BOOLEAN]] /\ bm[m] = x
      /\ \A l \in EncModels : l # m => bm[l] = byModel[l]
  BY <1>1, <1>3, Zenon
<1>5. \A l \in EncModels : byModel[l].instance \in Nat /\ byModel[l].instance <= n
  <2>1. \A y \in [instance : Nat, cached : BOOLEAN] : y.instance \in Nat
    OBVIOUS
  <2> QED
    BY <2>1, Zenon DEF ModelFits
<1>6. \A l \in EncModels : l # m => bm[l].instance <= j /\ bm[l].instance # j
  BY <1>2, <1>4, <1>5, Zenon
<1>7. x # NotLoaded
  <2>1. NotLoaded.instance = 0
    BY Zenon DEF NotLoaded
  <2> QED
    BY <1>2, <1>3, <2>1, Zenon
<1>8. ASSUME NEW l \in EncModels PROVE /\ bm[l].instance <= j
                                       /\ bm[l].instance = 0 => bm[l] = NotLoaded
    BY <1>2, <1>3, <1>4, <1>6, Zenon DEF ModelFits
<1>9. ASSUME NEW l \in EncModels, NEW i \in EncModels, bm[i].instance = bm[l].instance, bm[l].instance # 0 PROVE i = l
  <2>1. CASE i = m
    BY <1>3, <1>4, <1>6, <1>9, <2>1, Zenon
  <2>2. CASE l = m
    BY <1>3, <1>4, <1>6, <1>9, <2>2, Zenon
  <2>3. CASE i # m /\ l # m
    BY <1>4, <1>9, <2>3, Zenon DEF ModelFits
  <2> QED
    BY <2>1, <2>2, <2>3, Zenon
<1>10. ModelFits(bm, j)
  BY <1>8, <1>9, Zenon DEF ModelFits
<1> QED
  BY <1>1, <1>4, <1>7, <1>10, Zenon DEF Elsewhere

(* A load ends with a new instance of the model.                            *)
LEMMA StepLoads ==
  ASSUME EncInvariant, NEW p \in Encoders, EncAt(p, "load"), NEW k \in BOOLEAN,
         front' = [front EXCEPT ![FrontOf[p]].byModel[enc[p].model] = [instance |-> made + 1, cached |-> k],
                                ![FrontOf[p]].loadLock = {}],
         made' = made + 1, EncGo(p, "ready"), UNCHANGED <<occupancy, ended>>
  PROVE  EncInvariant'
<1>1. PICK f, c, a, n : f = FrontOf[p] /\ c = enc[p] /\ a = front[f] /\ n = made
  BY Zenon
<1>2. /\ c \in EncCall /\ f \in Fronts /\ CallFits(a, c) /\ c.pc = "load" /\ a \in Frontend
      /\ front \in [Fronts -> Frontend] /\ a.byModel \in [EncModels -> [instance : Nat, cached : BOOLEAN]]
  BY <1>1, EncHas, FrontendHas, Zenon DEF EncAt
<1>3. ModelFits(a.byModel, n) /\ n \in Nat /\ n = Cardinality(LoadedPairs(front))
  BY <1>1, <1>2, LockHas, Zenon
<1>4. \A q \in Encoders : q # p /\ FrontOf[q] = f => enc[q].pc # "load"
  BY <1>1, LoadsAlone, Zenon
<1>5. PICK m : m = c.model
  BY Zenon
<1>6. m \in EncModels /\ c.text \in Texts /\ a.byModel[m] = NotLoaded
  BY <1>2, <1>5, Zenon DEF CallFits
<1>7. /\ enc' \in [Encoders -> EncCall] /\ Elsewhere(Encoders, enc, enc', p)
      /\ enc'[p].pc = "ready" /\ enc'[p].model = m /\ enc'[p].text = c.text
      /\ enc'[p].evicted = c.evicted /\ enc'[p].answer = c.answer
  <2>1. "ready" \in EncPoints
    BY Zenon DEF EncPoints
  <2> QED
    BY <1>1, <1>5, <2>1, EncGoes, Zenon
<1>8. PICK bm : bm = [a.byModel EXCEPT ![m] = [instance |-> n + 1, cached |-> k]]
  BY Zenon
<1>9. /\ bm \in [EncModels -> [instance : Nat, cached : BOOLEAN]]
      /\ ModelFits(bm, n + 1) /\ bm[m] # NotLoaded /\ Elsewhere(EncModels, a.byModel, bm, m)
  BY <1>2, <1>3, <1>6, <1>8, ModelsGrow, Zenon
<1>10. PICK b : b = [a EXCEPT !.byModel = bm, !.loadLock = {}]
  BY Zenon
<1>11. b \in Frontend /\ Relocked(a, b) /\ b.byModel = bm /\ b.loadLock = {}
  BY <1>2, <1>9, <1>10, Zenon DEF Frontend, Relocked
<1>12. front' = [front EXCEPT ![f] = b]
  <2>1. front' = [front EXCEPT ![f].byModel[m] = [instance |-> n + 1, cached |-> k], ![f].loadLock = {}]
    BY <1>1, <1>5, Zenon
  <2> QED
    BY <1>1, <1>8, <1>10, <2>1, Zenon
<1>13. Weight(c) = 0 /\ c.evicted = 0
  BY <1>2, WeightIs, Zenon
<1>14. CallFits(b, enc'[p]) /\ enc'[p] \in EncCall
  BY <1>2, <1>5, <1>6, <1>7, <1>9, <1>11, <1>13, Zenon DEF CallFits
<1>15. Weight(enc'[p]) = Weight(enc[p])
  <2>1. Weight(enc'[p]) = 0
    BY <1>7, <1>14, WeightIs, Zenon
  <2> QED
    BY <1>1, <1>13, <2>1, Zenon
<1>16. LockFits(b.loadLock, enc', f)
  BY <1>1, <1>4, <1>7, <1>11, Zenon DEF LockFits, Elsewhere
<1>17. n + 1 = Cardinality(LoadedPairs(front'))
  <2>1. PICK fr : fr = front'
    BY Zenon
  <2>2. Elsewhere(Fronts, front, fr, f) /\ fr[f] = b
    BY <1>2, <1>11, <1>12, <2>1, Zenon DEF Elsewhere
  <2>3. Elsewhere(EncModels, front[f].byModel, fr[f].byModel, m) /\ front[f].byModel[m] = NotLoaded /\ fr[f].byModel[m] # NotLoaded
    BY <1>1, <1>6, <1>9, <1>11, <2>2, Zenon
  <2>4. n + 1 = Cardinality(LoadedPairs(fr))
    BY <1>2, <1>3, <1>6, <2>2, <2>3, PairsGrow, Zenon
  <2> QED
    BY <2>1, <2>4, Zenon
<1>18. n + 1 >= made /\ n + 1 \in Nat
  BY <1>1, <1>3
<1>19. \A l \in EncModels : front[f].byModel[l] # NotLoaded => b.byModel[l] = front[f].byModel[l]
  BY <1>1, <1>6, <1>9, <1>11, Zenon DEF Elsewhere
<1>20. made' = n + 1 /\ occupancy' = occupancy /\ ended' = ended /\ ModelFits(b.byModel, n + 1) /\ Relocked(front[f], b)
  BY <1>1, <1>9, <1>11, Zenon
<1>21. LoadStep(p, f, b, n + 1)
  BY <1>1, <1>2, <1>4, <1>7, <1>12, <1>14, <1>15, <1>16, <1>17, <1>18, <1>19, <1>20, Zenon DEF LoadStep
<1> QED
  BY <1>21, LockSteps, Zenon

(* A cache is emptied: by a clear or because its frontend is dropped.       *)
LEMMA StepEmpties ==
  ASSUME EncInvariant, NEW f \in Fronts, NEW b \in Frontend,
         b.lru = <<>>, b.bytes = 0, b.byModel = front[f].byModel, b.loadLock = front[f].loadLock,
         b.misses = front[f].misses, b.oversized = front[f].oversized, b.evictions = front[f].evictions,
         front' = [front EXCEPT ![f] = b], PublishDelta(f),
         ended' = [ended EXCEPT ![f] = @ + Len(front[f].lru)], UNCHANGED <<enc, made>>
  PROVE  EncInvariant'
<1>1. PICK fr, en, oc, a, n : fr = front' /\ en = ended' /\ oc = occupancy' /\ a = front[f] /\ n = ended[f]
  BY Zenon
<1>2. /\ front \in [Fronts -> Frontend] /\ enc \in [Encoders -> EncCall] /\ ended \in [Fronts -> Nat]
      /\ Accounted(front, ended, enc) /\ Occupied(front, occupancy) /\ a \in Frontend /\ n \in Nat
  BY <1>1, EncHas, Zenon
<1>3. fr \in [Fronts -> Frontend] /\ Elsewhere(Fronts, front, fr, f) /\ fr[f] = b
  BY <1>1, <1>2, Zenon DEF Elsewhere
<1>4. PICK am, ao, ae, al, w : /\ am = a.misses /\ ao = a.oversized /\ ae = a.evictions /\ al = Len(a.lru)
                               /\ w = UnderWay(enc, f)
  BY Zenon
<1>5. am \in Nat /\ ao \in Nat /\ ae \in Nat /\ al \in Nat /\ w \in Nat
  BY <1>2, <1>4, FrontendHas, WayIsNat, Zenon
<1>6. n + al \in Nat
  BY <1>2, <1>5
<1>7. en \in [Fronts -> Nat] /\ Elsewhere(Fronts, ended, en, f) /\ en[f] = n + al
  BY <1>1, <1>2, <1>4, <1>6, Zenon DEF Elsewhere
<1>8. Len(b.lru) = 0 /\ SumBytes(b.lru) = 0 /\ b.lru \in Seq(Entry)
  <2>1. PICK s : s = b.lru
    BY Zenon
  <2>2. s \in Seq(Entry) /\ Len(s) = 0
    BY <2>1
  <2>3. SumBytes(s) = 0
    BY <2>2, BytesOfFew, Zenon
  <2> QED
    BY <2>1, <2>2, <2>3, Zenon
<1>9. CacheFits(b)
  <2>1. \A i \in 1 .. 0 : FALSE
    OBVIOUS
  <2>2. 0 <= MaxCached /\ 0 <= MaxCachedBytes
    BY EncodeAssumption
  <2> QED
    BY <1>8, <2>1, <2>2, Zenon DEF CacheFits, Distinct
<1>10. oc \in [entries : Nat, bytes : Nat] /\ Occupied(fr, oc)
  <2>1. oc = [entries |-> Published(occupancy.entries, Len(front[f].lru), Len(fr[f].lru)),
              bytes |-> Published(occupancy.bytes, front[f].bytes, fr[f].bytes)]
    BY <1>1, Zenon DEF PublishDelta
  <2> QED
    BY <1>2, <1>3, <2>1, OccupiedMoves, Zenon
<1>11. Accounted(fr, en, enc)
  <2>1. ASSUME NEW g \in Fronts, g # f PROVE Account(fr[g], en[g], UnderWay(enc, g))
    BY <1>2, <1>3, <1>7, <2>1, Zenon DEF Accounted, Elsewhere
  <2>2. Account(fr[f], en[f], UnderWay(enc, f))
    <3>1. Account(a, n, w)
      BY <1>1, <1>2, <1>4, Zenon DEF Accounted
    <3>2. am = n + ao + al + ae + w
      BY <1>4, <3>1, Zenon DEF Account
    <3>3. am = (n + al) + ao + 0 + ae + w
      BY <1>2, <1>5, <3>2
    <3>4. Account(b, n + al, w)
      BY <1>1, <1>4, <1>8, <3>3, Zenon DEF Account
    <3> QED
      BY <1>3, <1>4, <1>7, <3>4, Zenon
  <2> QED
    BY <2>1, <2>2, Zenon DEF Accounted
<1>12. fr[f].byModel = front[f].byModel /\ fr[f].loadLock = front[f].loadLock /\ CacheFits(fr[f])
  BY <1>3, <1>9, Zenon
<1>13. EncState(fr, enc, oc, made, en)
  BY <1>2, <1>3, <1>7, <1>10, <1>11, <1>12, CacheSteps, Zenon
<1> QED
  BY <1>1, <1>13, Zenon DEF EncInvariant

(* clear.                                                                   *)
LEMMA StepClear ==
  ASSUME EncInvariant, NEW f \in Fronts, ClearCache(f)
  PROVE  EncInvariant'
<1>1. PICK a, b : a = front[f] /\ b = [a EXCEPT !.lru = <<>>, !.bytes = 0]
  BY Zenon
<1>2. a \in Frontend /\ <<>> \in Seq(Entry) /\ 0 \in Nat
  <2>1. a \in Frontend
    BY <1>1, EncHas, Zenon
  <2>2. <<>> \in Seq(Entry) /\ 0 \in Nat
    OBVIOUS
  <2> QED
    BY <2>1, <2>2, Zenon
<1>3. /\ b \in Frontend /\ b.lru = <<>> /\ b.bytes = 0 /\ b.byModel = a.byModel /\ b.loadLock = a.loadLock
      /\ b.misses = a.misses /\ b.oversized = a.oversized /\ b.evictions = a.evictions
  BY <1>1, <1>2, Zenon DEF Frontend
<1>4. /\ front' = [front EXCEPT ![f] = b] /\ PublishDelta(f)
      /\ ended' = [ended EXCEPT ![f] = @ + Len(front[f].lru)] /\ UNCHANGED <<enc, made>>
  BY <1>1, Zenon DEF ClearCache
<1> QED
  BY <1>1, <1>3, <1>4, StepEmpties, Zenon

(* drop.                                                                    *)
LEMMA StepDrop ==
  ASSUME EncInvariant, NEW f \in Fronts, DropCache(f)
  PROVE  EncInvariant'
<1>1. PICK a, b : a = front[f] /\ b = [a EXCEPT !.lru = <<>>, !.bytes = 0, !.live = FALSE]
  BY Zenon
<1>2. a \in Frontend /\ <<>> \in Seq(Entry) /\ 0 \in Nat
  <2>1. a \in Frontend
    BY <1>1, EncHas, Zenon
  <2>2. <<>> \in Seq(Entry) /\ 0 \in Nat
    OBVIOUS
  <2> QED
    BY <2>1, <2>2, Zenon
<1>3. /\ b \in Frontend /\ b.lru = <<>> /\ b.bytes = 0 /\ b.byModel = a.byModel /\ b.loadLock = a.loadLock
      /\ b.misses = a.misses /\ b.oversized = a.oversized /\ b.evictions = a.evictions
  BY <1>1, <1>2, Zenon DEF Frontend
<1>4. /\ front' = [front EXCEPT ![f] = b] /\ PublishDelta(f)
      /\ ended' = [ended EXCEPT ![f] = @ + Len(front[f].lru)] /\ UNCHANGED <<enc, made>>
  BY <1>1, Zenon DEF DropCache
<1> QED
  BY <1>1, <1>3, <1>4, StepEmpties, Zenon

(* A sum of zeros is zero.                                                  *)
LEMMA NothingSums ==
  ASSUME NEW S, IsFiniteSet(S), NEW u, \A x \in S : u[x] = 0
  PROVE  SumFunctionOnSet(u, S) = 0
<1> DEFINE A == {T \in SUBSET S : SumFunctionOnSet(u, T) = 0}
<1>1. {} \in A
  BY SumOfNone
<1>2. ASSUME NEW T \in SUBSET S, T \in A, NEW x \in S \ T PROVE T \cup {x} \in A
  <2>1. IsFiniteSet(T \cup {x}) /\ x \in T \cup {x} /\ (T \cup {x}) \ {x} = T /\ T \cup {x} \in SUBSET S
    BY FS_Subset
  <2>2. \A y \in T \cup {x} : u[y] \in Int
    BY <2>1
  <2>3. SumFunctionOnSet(u, T \cup {x}) = u[x] + SumFunctionOnSet(u, (T \cup {x}) \ {x})
    BY <2>1, <2>2, SumWithout, Zenon
  <2>4. SumFunctionOnSet(u, T) = 0 /\ u[x] = 0
    BY <1>2, Zenon
  <2>5. SumFunctionOnSet(u, T \cup {x}) = 0
    BY <2>1, <2>3, <2>4
  <2> QED
    BY <2>1, <2>5, Zenon
<1>3. S \in A
  <2> HIDE DEF A
  <2> QED
    BY <1>1, <1>2, FiniteSetInduction, Zenon
<1> QED
  BY <1>3

(* An empty frontend.                                                       *)
LEMMA EmptyFrontIs ==
  /\ EmptyFront \in Frontend /\ EmptyFront.lru = <<>> /\ EmptyFront.bytes = 0 /\ EmptyFront.loadLock = {}
  /\ EmptyFront.misses = 0 /\ EmptyFront.oversized = 0 /\ EmptyFront.evictions = 0
  /\ \A m \in EncModels : EmptyFront.byModel[m] = NotLoaded
<1>1. <<>> \in Seq(Entry) /\ 0 \in Nat
  OBVIOUS
<1>2. NotLoaded \in [instance : Nat, cached : BOOLEAN]
  BY <1>1, Zenon DEF NotLoaded
<1> QED
  BY <1>1, <1>2, Zenon DEF EmptyFront, Frontend

(* The process starts with empty frontends and idle calls.                  *)
LEMMA EncStarts == EncInit => EncInvariant
<1> SUFFICES ASSUME EncInit PROVE EncInvariant
  OBVIOUS
<1>1. PICK plan \in EncPlans :
        enc = [p \in Encoders |-> [pc |-> "idle", model |-> "", text |-> "", evicted |-> 0,
                                   answer |-> <<>>, todo |-> plan[p]]]
  BY Zenon DEF EncInit
<1>2. plan \in [Encoders -> Seq(EncModels \X Texts)]
  BY <1>1, EncodeAssumption, Zenon DEF Texts
<1>3. 0 \in Nat
  OBVIOUS
<1>4. \A p \in Encoders : enc[p] \in EncCall /\ enc[p].pc = "idle" /\ enc[p].evicted = 0 /\ enc[p].answer = <<>>
  BY <1>1, <1>2, <1>3, Zenon DEF EncCall, EncPoints
<1>5. enc \in [Encoders -> EncCall]
  BY <1>1, <1>4, Zenon
<1>6. \A f \in Fronts : front[f] = EmptyFront /\ ended[f] = 0
  BY Zenon DEF EncInit
<1>7. front \in [Fronts -> Frontend] /\ ended \in [Fronts -> Nat] /\ made = 0 /\ made \in Nat
  BY <1>3, EmptyFrontIs, Zenon DEF EncInit
<1>8. occupancy.entries = 0 /\ occupancy.bytes = 0 /\ occupancy \in [entries : Nat, bytes : Nat]
  BY <1>3, Zenon DEF EncInit
<1>9. EncTypes(front, enc, occupancy, made, ended)
  BY <1>5, <1>7, <1>8, Zenon DEF EncTypes
<1>10. CallsFit(front, enc)
  BY <1>4, Zenon DEF CallsFit, CallFits
<1>11. LocksFit(front, enc)
  BY <1>4, <1>6, EmptyFrontIs, Zenon DEF LocksFit, LockFits
<1>12. ModelsFit(front, made)
  <2>1. NotLoaded.instance = 0 /\ 0 <= 0
    BY DEF NotLoaded
  <2> QED
    BY <1>6, <1>7, <2>1, EmptyFrontIs, Zenon DEF ModelsFit, ModelFits
<1>13. PICK s : s = EmptyFront.lru
  BY Zenon
<1>14. s \in Seq(Entry) /\ Len(s) = 0
  <2>1. s = <<>>
    BY <1>13, EmptyFrontIs, Zenon
  <2> QED
    BY <2>1
<1>15. SumBytes(s) = 0
  BY <1>14, BytesOfFew, Zenon
<1>16. CacheFits(EmptyFront)
  <2>1. \A i \in 1 .. 0 : FALSE
    OBVIOUS
  <2>2. 0 <= MaxCached /\ 0 <= MaxCachedBytes
    BY EncodeAssumption
  <2> QED
    BY <1>13, <1>14, <1>15, <2>1, <2>2, EmptyFrontIs, Zenon DEF CacheFits, Distinct
<1>17. made = Cardinality(LoadedPairs(front))
  <2>1. ASSUME NEW x \in Fronts \X EncModels PROVE front[x[1]].byModel[x[2]] = NotLoaded
    <3>1. x[1] \in Fronts /\ x[2] \in EncModels
      BY <2>1
    <3> QED
      BY <1>6, <3>1, EmptyFrontIs, Zenon
  <2>2. LoadedPairs(front) = {}
    BY <2>1, Zenon DEF LoadedPairs
  <2> QED
    BY <1>7, <2>2, FS_EmptySet, Zenon
<1>18. Occupied(front, occupancy)
  <2>1. PICK u, v : u = [f \in Fronts |-> Len(front[f].lru)] /\ v = [f \in Fronts |-> front[f].bytes]
    BY Zenon
  <2>2. \A f \in Fronts : u[f] = 0 /\ v[f] = 0
    BY <1>6, <1>13, <1>14, <2>1, EmptyFrontIs, Zenon
  <2>3. SumFunctionOnSet(u, Fronts) = 0 /\ SumFunctionOnSet(v, Fronts) = 0
    BY <2>2, EncodeAssumption, NothingSums, Zenon
  <2> QED
    BY <1>8, <2>1, <2>3, Zenon DEF Occupied
<1>19. Accounted(front, ended, enc)
  <2>1. ASSUME NEW f \in Fronts PROVE UnderWay(enc, f) = 0
    <3>1. PICK H, B, u : H = Here(f) /\ B = {p \in Here(f) : enc[p].pc \in {"encode", "insert"}} /\ u = [p \in Here(f) |-> enc[p].evicted]
      BY Zenon
    <3>2. IsFiniteSet(H) /\ H \in SUBSET Encoders
      BY <3>1, EncodeAssumption, FS_Subset, Zenon DEF Here
    <3>3. B = {}
      BY <1>4, <3>1, <3>2, Zenon
    <3>4. \A p \in H : u[p] = 0
      BY <1>4, <3>1, <3>2, Zenon
    <3>5. Cardinality(B) = 0
      BY <3>3, FS_EmptySet, Zenon
    <3>6. SumFunctionOnSet(u, H) = 0
      BY <3>2, <3>4, NothingSums, Zenon
    <3>7. 0 + 0 = 0
      OBVIOUS
    <3> QED
      BY <3>1, <3>5, <3>6, <3>7, Zenon DEF UnderWay
  <2>2. 0 = 0 + 0 + 0 + 0 + 0
    OBVIOUS
  <2> QED
    BY <1>6, <1>13, <1>14, <2>1, <2>2, EmptyFrontIs, Zenon DEF Accounted, Account
<1> QED
  BY <1>6, <1>9, <1>10, <1>11, <1>12, <1>16, <1>17, <1>18, <1>19, Zenon DEF EncInvariant, EncState

(* Every step keeps the invariant.                                          *)
LEMMA EncSteps == EncInvariant /\ [EncNext]_encVars => EncInvariant'
<1> SUFFICES ASSUME EncInvariant, [EncNext]_encVars PROVE EncInvariant'
  OBVIOUS
<1>1. CASE UNCHANGED encVars
  BY <1>1, Zenon DEF encVars, EncInvariant
<1>2. ASSUME NEW p \in Encoders, ResolveModel(p) PROVE EncInvariant'
  BY <1>2, StepResolve, Zenon
<1>3. ASSUME NEW p \in Encoders, LockForLoad(p) PROVE EncInvariant'
  <2>1. CASE MustLoad(p)
    BY <1>3, <2>1, StepLocks, Zenon DEF LockForLoad
  <2>2. CASE ~MustLoad(p)
    BY <1>3, <2>2, StepFindsLoaded, Zenon DEF LockForLoad
  <2> QED
    BY <2>1, <2>2, Zenon
<1>4. ASSUME NEW p \in Encoders, LoadModel(p) PROVE EncInvariant'
  <2>1. CASE front' = [front EXCEPT ![FrontOf[p]].loadLock = {}] /\ UNCHANGED made /\ EncGo(p, "idle")
    BY <1>4, <2>1, StepLoadFails, Zenon DEF LoadModel
  <2>2. CASE made' = made + 1 /\ EncGo(p, "ready")
               /\ \E c \in BOOLEAN :
                    front' = [front EXCEPT ![FrontOf[p]].byModel[enc[p].model] = [instance |-> made + 1, cached |-> c],
                                           ![FrontOf[p]].loadLock = {}]
    BY <1>4, <2>2, StepLoads, Zenon DEF LoadModel
  <2> QED
    BY <1>4, <2>1, <2>2, Zenon DEF LoadModel
<1>5. ASSUME NEW p \in Encoders, LookUp(p) PROVE EncInvariant'
  <2>1. PICK s, k : s = Of(p).lru /\ k = KeyOf(p)
    BY Zenon
  <2>2. EncAt(p, "ready") /\ UNCHANGED <<occupancy, made, ended>>
    BY <1>5, Zenon DEF LookUp
  <2>3. CASE EncDone(p, Encoding(p)) /\ UNCHANGED front
    BY <2>2, <2>3, StepUncached, Zenon
  <2>4. CASE /\ HasKey(s, k) /\ EncDone(p, EntryOf(s, k).value)
             /\ front' = [front EXCEPT ![FrontOf[p]].lru = <<EntryOf(s, k)>> \o WithoutKey(s, k), ![FrontOf[p]].hits = @ + 1]
    BY <2>1, <2>2, <2>4, StepHit, Zenon DEF HitStep
  <2>5. CASE front' = [front EXCEPT ![FrontOf[p]].misses = @ + 1] /\ EncGo(p, "encode")
    BY <2>2, <2>5, StepMiss, Zenon
  <2> QED
    BY <1>5, <2>1, <2>3, <2>4, <2>5, Zenon DEF LookUp, Of
<1>6. ASSUME NEW p \in Encoders, Encode(p) PROVE EncInvariant'
  BY <1>6, StepEncode, Zenon
<1>7. ASSUME NEW p \in Encoders, Insert(p) PROVE EncInvariant'
  BY <1>7, StepInsert, Zenon
<1>8. ASSUME NEW p \in Encoders, CountEvictions(p) PROVE EncInvariant'
  BY <1>8, StepCount, Zenon
<1>9. ASSUME NEW f \in Fronts, ClearCache(f) PROVE EncInvariant'
  BY <1>9, StepClear, Zenon
<1>10. ASSUME NEW f \in Fronts, DropCache(f) PROVE EncInvariant'
  BY <1>10, StepDrop, Zenon
<1> QED
  BY <1>1, <1>2, <1>3, <1>4, <1>5, <1>6, <1>7, <1>8, <1>9, <1>10, Zenon DEF EncNext

(* The invariant says what the run checks.                                  *)
LEMMA EncInvariantSays == EncInvariant => EncodeCacheIsExact
<1> SUFFICES ASSUME EncInvariant PROVE EncodeCacheIsExact
  OBVIOUS
<1>1. EncodingsAreExact
  BY EncHas, Zenon DEF EncodingsAreExact, CallFits, Encoding
<1>2. CacheWithinBudget
  BY EncHas, Zenon DEF CacheWithinBudget, CacheFits, Distinct
<1>3. OccupancyIsExact
  BY EncHas, Zenon DEF OccupancyIsExact, Occupied
<1>4. MissesAreAccountedFor
  <2>1. ASSUME NEW f \in Fronts
        PROVE  front[f].misses = Cardinality({p \in Here(f) : enc[p].pc \in {"encode", "insert"}}) + ended[f]
                                   + front[f].oversized + Len(front[f].lru) + front[f].evictions
                                   + SumFunctionOnSet([p \in Here(f) |-> enc[p].evicted], Here(f))
    <3>1. PICK x, y, a, n : /\ x = Cardinality({p \in Here(f) : enc[p].pc \in {"encode", "insert"}})
                            /\ y = SumFunctionOnSet([p \in Here(f) |-> enc[p].evicted], Here(f))
                            /\ a = front[f] /\ n = ended[f]
      BY Zenon
    <3>2. Account(a, n, x + y)
      BY <3>1, EncHas, Zenon DEF Accounted, UnderWay
    <3>3. x \in Nat /\ y \in Nat
      <4>1. PICK H, B, u : H = Here(f) /\ B = {p \in Here(f) : enc[p].pc \in {"encode", "insert"}} /\ u = [p \in Here(f) |-> enc[p].evicted]
        BY Zenon
      <4>2. IsFiniteSet(H) /\ H \in SUBSET Encoders
        BY <4>1, EncodeAssumption, FS_Subset, Zenon DEF Here
      <4>3. IsFiniteSet(B)
        BY <4>1, <4>2, FS_Subset, Zenon
      <4>4. \A c \in EncCall : c.evicted \in Nat
        BY DEF EncCall
      <4>5. \A p \in H : u[p] \in Nat
        BY <4>1, <4>2, <4>4, EncHas, Zenon
      <4>6. x = Cardinality(B) /\ y = SumFunctionOnSet(u, H)
        BY <3>1, <4>1, Zenon
      <4> QED
        BY <4>2, <4>3, <4>5, <4>6, FS_CardinalityType, SumIsNat, Zenon
    <3>4. PICK am, ao, al, ae : am = a.misses /\ ao = a.oversized /\ al = Len(a.lru) /\ ae = a.evictions
      BY Zenon
    <3>5. am \in Nat /\ ao \in Nat /\ al \in Nat /\ ae \in Nat /\ n \in Nat
      BY <3>1, <3>4, EncHas, FrontendHas, Zenon
    <3>6. am = n + ao + al + ae + (x + y)
      BY <3>2, <3>4, Zenon DEF Account
    <3>7. am = x + n + ao + al + ae + y
      BY <3>3, <3>5, <3>6
    <3> QED
      BY <3>1, <3>4, <3>7, Zenon
  <2> QED
    BY <2>1, Zenon DEF MissesAreAccountedFor, Here
<1>5. ModelsLoadOnce
  <2>1. made = Cardinality({x \in Fronts \X EncModels : front[x[1]].byModel[x[2]] # NotLoaded})
    BY Zenon DEF EncInvariant, EncState, LoadedPairs
  <2>2. ASSUME NEW p \in Encoders PROVE EncAt(p, "load") <=> p \in Of(p).loadLock
    <3>1. LockFits(front[FrontOf[p]].loadLock, enc, FrontOf[p])
      BY EncHas, LockHas, Zenon
    <3> QED
      BY <3>1, Zenon DEF LockFits, EncAt, Of
  <2> QED
    BY <2>1, <2>2, Zenon DEF ModelsLoadOnce
<1> QED
  BY <1>1, <1>2, <1>3, <1>4, <1>5, Zenon DEF EncodeCacheIsExact

(* The entry an insert stores is still there when it is done.               *)
LEMMA InsertsStay ==
  ASSUME EncInvariant, NEW p \in Encoders, Insert(p)
  PROVE  HasKey(front'[FrontOf[p]].lru, KeyOf(p))
<1>1. PICK f, c, a, s : f = FrontOf[p] /\ c = enc[p] /\ a = front[f] /\ s = a.lru
  BY Zenon
<1>2. /\ c \in EncCall /\ f \in Fronts /\ CallFits(a, c) /\ c.pc = "insert" /\ CacheFits(a)
      /\ a \in Frontend /\ front \in [Fronts -> Frontend]
  BY <1>1, EncHas, Zenon DEF EncAt, Insert
<1>3. c.model \in EncModels /\ c.text \in Texts /\ TextBytes[c.text] <= MaxEntryBytes
  BY <1>2, Zenon DEF CallFits
<1>4. s \in Seq(Entry) /\ Len(s) <= MaxCached /\ Distinct(s) /\ a.bytes = SumBytes(s)
  BY <1>1, <1>2, FrontendHas, Zenon DEF CacheFits
<1>5. PICK i, x : i = a.byModel[c.model].instance /\ x = TextBytes[c.text]
  BY Zenon
<1>6. i \in Nat /\ x \in Nat
  <2>1. a.byModel[c.model] \in [instance : Nat, cached : BOOLEAN]
    BY <1>2, <1>3, FrontendHas, Zenon
  <2>2. x \in Nat
    BY <1>3, <1>5, EncodeAssumption, Zenon DEF Texts
  <2> QED
    BY <1>5, <2>1, <2>2, Zenon
<1>7. x <= MaxCachedBytes
  BY <1>3, <1>5, <1>6, EncodeAssumption
<1>8. PICK e : e = [key |-> <<i, c.text>>, value |-> <<c.model, c.text>>, bytes |-> x]
  BY Zenon
<1>9. e \in Entry /\ e.bytes <= MaxCachedBytes
  BY <1>3, <1>6, <1>7, <1>8, Zenon DEF Entry
<1>10. PICK q, r : q = Push(a, e) /\ r = Trim(q)
  BY Zenon
<1>11. e = [key |-> KeyOf(p), value |-> Encoding(p), bytes |-> TextBytes[enc[p].text]] /\ e.key = KeyOf(p)
  BY <1>1, <1>5, <1>8, Zenon DEF KeyOf, Encoding, LoadedFor, Of
<1>12. front' = [front EXCEPT ![f].lru = r.lru, ![f].bytes = r.bytes]
  BY <1>1, <1>10, <1>11, Zenon DEF Insert
<1>13. IsPushed(s, e, q)
  BY <1>1, <1>4, <1>9, <1>10, PushIs, Zenon
<1>14. IsTrimmed(s, e, q.replaced, r)
  BY <1>4, <1>9, <1>10, <1>13, TrimIs, Zenon
<1>15. 1 <= Len(r.lru) /\ r.lru[1] = e /\ r.lru \in Seq(Entry)
  BY <1>9, <1>14, Zenon DEF IsTrimmed
<1>16. PICK b : b = [a EXCEPT !.lru = r.lru, !.bytes = r.bytes]
  BY Zenon
<1>17. front' = [front EXCEPT ![f] = b] /\ b.lru = r.lru
  <2>1. front' = [front EXCEPT ![f] = b]
    BY <1>1, <1>12, <1>16, Zenon
  <2> QED
    BY <1>2, <1>16, <2>1, Zenon DEF Frontend
<1>18. front'[f].lru = r.lru
  BY <1>2, <1>17, Zenon
<1>19. 1 \in 1 .. Len(r.lru)
  <2>1. PICK l : l = r.lru
    BY Zenon
  <2>2. l \in Seq(Entry) /\ 1 <= Len(l)
    BY <1>15, <2>1, Zenon
  <2>3. 1 \in 1 .. Len(l)
    BY <2>2
  <2> QED
    BY <2>1, <2>3, Zenon
<1> QED
  BY <1>1, <1>11, <1>15, <1>18, <1>19, Zenon DEF HasKey

(* The encoding cache of tokenizer/cache.rs: whatever the number of         *)
(* frontends, calls, models and texts and whatever the budgets, the cache   *)
(* answers exactly, stays within its budget and accounts for every entry,   *)
(* miss and load.                                                           *)
THEOREM EncodeCacheStaysExact == EncSpec => []EncodeCacheIsExact
<1>1. EncInit => EncInvariant
  BY EncStarts
<1>2. EncInvariant /\ [EncNext]_encVars => EncInvariant'
  BY EncSteps
<1>3. EncInvariant => EncodeCacheIsExact
  BY EncInvariantSays
<1> QED
  BY <1>1, <1>2, <1>3, PTL DEF EncSpec

(* insert, as its comment says: each entry fits max_bytes, so the newest    *)
(* entry survives, whatever else the cache held.                            *)
THEOREM InsertsSurvive == EncSpec => [][NewestSurvives]_encVars
<1>1. EncInit => EncInvariant
  BY EncStarts
<1>2. EncInvariant /\ [EncNext]_encVars => EncInvariant'
  BY EncSteps
<1>3. EncInvariant => [NewestSurvives]_encVars
  BY InsertsStay, Zenon DEF NewestSurvives
<1> QED
  BY <1>1, <1>2, <1>3, PTL DEF EncSpec
=============================================================================
