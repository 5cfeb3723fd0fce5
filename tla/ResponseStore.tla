---------------------------- MODULE ResponseStore ---------------------------
(***************************************************************************)
(* The in-memory response storage, data_connector/response_memory_store.rs:*)
(* the stored responses and, under the same lock, an index of their ids by *)
(* user.  Writes are one lock section; reading the chain of a response is  *)
(* two, so that writes may come between.                                   *)
(***************************************************************************)
EXTENDS Integers, Sequences, Functions, TLC

CONSTANTS
  Storable,       \* the responses callers store: [id, prev, user, created]
  MaxStores,      \* bound: calls of store_response
  MaxDepth,       \* max_depth of get_response_chain
  Nobody, NoPrev  \* no user, no previous response

ASSUME MaxDepthAssumption == MaxDepth \in Nat \ {0}

VARIABLES
  responses,   \* id -> stored response
  userIndex,   \* user -> sequence of ids
  reader,      \* a call of get_response_chain: [pc, ids, chain]
  stores,      \* bounded: how many responses were stored
  moved,       \* for the properties: an id was stored again for another user
  touched      \* for the properties: the collected ids that were written meanwhile

storeVars == <<responses, userIndex, reader, stores, moved, touched>>

ResponseIds == {r.id : r \in Storable}
ResponseUsers == {r.user : r \in Storable} \ {Nobody}

NoReader == [pc |-> "idle", ids |-> <<>>, chain |-> <<>>]

StoreInit ==
  /\ responses = <<>> /\ userIndex = <<>>
  /\ reader = NoReader
  /\ stores = 0 /\ moved = FALSE /\ touched = {}

Put(f, k, v) == [x \in DOMAIN f \cup {k} |-> IF x = k THEN v ELSE f[x]]
Without(f, K) == Restrict(f, DOMAIN f \ K)

Writes(ids) == touched' = IF reader.pc = "collected" THEN touched \cup (ids \cap Range(reader.ids)) ELSE touched

-----------------------------------------------------------------------------
IndexOf(u) == IF u \in DOMAIN userIndex THEN userIndex[u] ELSE <<>>

Indexed(r) ==
  IF r.user = Nobody THEN userIndex
  ELSE Put(userIndex, r.user, Append(IndexOf(r.user), r.id))

StoreResponse(r) ==
  /\ stores < MaxStores /\ stores' = stores + 1
  /\ userIndex' = Indexed(r)
  /\ responses' = Put(responses, r.id, r)
  /\ moved' = (moved \/ (r.id \in DOMAIN responses /\ responses[r.id].user # r.user))
  /\ Writes({r.id})
  /\ UNCHANGED reader

(* Vec::retain of the ids other than id.                                    *)
RetainOthers(ids, id) ==
  LET upTo[i \in 0 .. Len(ids)] ==
        IF i = 0 THEN <<>> ELSE IF ids[i] = id THEN upTo[i - 1] ELSE Append(upTo[i - 1], ids[i])
  IN upTo[Len(ids)]

UnindexedLeavesUser(id) ==   \* mutant: a user whose last response went stays indexed
  LET u == responses[id].user
      kept == RetainOthers(IndexOf(u), id)
  IN IF u \notin DOMAIN userIndex THEN userIndex ELSE Put(userIndex, u, kept)

Unindexed(id) ==
  LET u == responses[id].user
      kept == RetainOthers(IndexOf(u), id)
  IN IF u \notin DOMAIN userIndex THEN userIndex
     ELSE IF kept = <<>> THEN Without(userIndex, {u})
     ELSE Put(userIndex, u, kept)

DeleteResponse(id) ==
  /\ id \in DOMAIN responses
  /\ responses' = Without(responses, {id})
  /\ userIndex' = Unindexed(id)
  /\ Writes({id})
  /\ UNCHANGED <<reader, stores, moved>>

DeleteUserResponses(u) ==
  /\ u \in DOMAIN userIndex
  /\ responses' = Without(responses, Range(userIndex[u]))
  /\ userIndex' = Without(userIndex, {u})
  /\ Writes(Range(userIndex[u]))
  /\ UNCHANGED <<reader, stores, moved>>

-----------------------------------------------------------------------------
(* The ids from id back to the first of its conversation, at most depth of  *)
(* them; the depth also ends a chain that leads back to itself.             *)
Ancestors[depth \in Nat] ==
  [id \in ResponseIds \cup {NoPrev} |->
     IF depth = 0 \/ id \notin DOMAIN responses THEN <<>>
     ELSE <<id>> \o Ancestors[depth - 1][responses[id].prev]]

AsFound(ids) == ids   \* mutant: newest first

Chronological(ids) == [i \in 1 .. Len(ids) |-> ids[Len(ids) + 1 - i]]

(* The first section of get_response_chain.                                 *)
CollectChain(id) ==
  /\ reader.pc = "idle"
  /\ reader' = [pc |-> "collected", ids |-> Chronological(Ancestors[MaxDepth][id]), chain |-> <<>>]
  /\ touched' = {}
  /\ UNCHANGED <<responses, userIndex, stores, moved>>

(* The second one: what is still stored of the collected ids.               *)
FetchChain ==
  /\ reader.pc = "collected"
  /\ LET found == SelectSeq(reader.ids, LAMBDA id : id \in DOMAIN responses)
     IN reader' = [reader EXCEPT !.pc = "fetched", !.chain = [i \in DOMAIN found |-> responses[found[i]]]]
  /\ UNCHANGED <<responses, userIndex, stores, moved, touched>>

ChainReturned ==
  /\ reader.pc = "fetched"
  /\ reader' = NoReader /\ touched' = {}
  /\ UNCHANGED <<responses, userIndex, stores, moved>>

StoreNext ==
  \/ \E r \in Storable : StoreResponse(r)
  \/ \E id \in ResponseIds : DeleteResponse(id) \/ CollectChain(id)
  \/ \E u \in ResponseUsers : DeleteUserResponses(u)
  \/ FetchChain \/ ChainReturned

StoreSpec == StoreInit /\ [][StoreNext]_storeVars

-----------------------------------------------------------------------------

NewestFirst(a, b) == a.created > b.created

(* list_user_responses: ids that are no longer stored are passed over.      *)
ListUserResponses(u, limit) ==
  LET stored == SelectSeq(IndexOf(u), LAMBDA id : id \in DOMAIN responses)
      sorted == SortSeq([i \in DOMAIN stored |-> responses[stored[i]]], NewestFirst)
  IN SubSeq(sorted, 1, IF limit < Len(sorted) THEN limit ELSE Len(sorted))

(* Every stored response of a user is in the user's index, whatever was     *)
(* stored again, deleted or moved to another user: one that is not could    *)
(* neither be listed nor deleted with its user.                             *)
OwnedIsIndexed ==
  \A id \in DOMAIN responses :
    responses[id].user # Nobody => id \in Range(IndexOf(responses[id].user))

(* As long as no id is stored again for another user, the index names only  *)
(* a user's own stored responses, and only users that have one: deleting    *)
(* responses or users leaves nothing behind.                                *)
IndexIsTheUsers ==
  ~moved => \A u \in DOMAIN userIndex :
    /\ userIndex[u] # <<>>
    /\ \A id \in Range(userIndex[u]) : id \in DOMAIN responses /\ responses[id].user = u

(* Whatever is written between the two sections of get_response_chain, a   *)
(* collected response that was not written itself is in the chain, and a   *)
(* response follows another than the one it answers only where one of the  *)
(* two was written: a deletion leaves a gap at its own place, and a chain  *)
(* that nobody wrote to is the conversation, oldest first.  No more than   *)
(* the limit are read, also where responses refer to each other in a circle. *)
ChainsAreConversations ==
  reader.pc = "fetched" =>
    /\ Len(reader.chain) <= MaxDepth
    /\ Range(reader.ids) \ touched \subseteq {r.id : r \in Range(reader.chain)}
    /\ \A i \in 2 .. Len(reader.chain) :
         \/ reader.chain[i].prev = reader.chain[i - 1].id
         \/ {reader.chain[i].id, reader.chain[i].prev} \cap touched # {}

(* Every stored response of a user is listed, however often ids were       *)
(* stored, moved and deleted, unless the limit is reached by responses     *)
(* that are no older.                                                      *)
LimitKeepsTheNewest ==
  \A u \in ResponseUsers, limit \in 1 .. 2 :
    LET listed == ListUserResponses(u, limit) IN
    \A r \in Range(responses) :
      r.user = u /\ r \notin Range(listed) =>
        Len(listed) = limit /\ \A other \in Range(listed) : other.created >= r.created

(* The store and its index agree.                                         *)
StoreIsIndexed == OwnedIsIndexed /\ IndexIsTheUsers

(* What get_response_chain and list_user_responses return is what they    *)
(* promise, with the writes between the two sections of a chain read.     *)
ReadsAreFaithful == ChainsAreConversations /\ LimitKeepsTheNewest
=============================================================================
