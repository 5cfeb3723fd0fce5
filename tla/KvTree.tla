------------------------------- MODULE KvTree -------------------------------
(***************************************************************************)
(* One GroupShard of kv_index/indexer.rs: the compressed radix tree of     *)
(* resident KV blocks, its anchors, reverse map and counts, at the         *)
(* granularity of the locks.  Subscriber tasks store, remove and clear     *)
(* while requests walk the tree.                                           *)
(*                                                                         *)
(* tree.nodes[1] is the root.  tree.anchors[s] is the node of engine hash  *)
(* s, 0 when unknown.  tree.locked holds the nodes whose write lock is     *)
(* held across steps.  A split re-anchors under the locks of both halves,  *)
(* so a thread that resolved the old anchor waits and then retries: the    *)
(* split is one step.                                                      *)
(***************************************************************************)
EXTENDS Naturals, Sequences, FiniteSets, SequencesExt

CONSTANTS
  Threads,    \* subscriber tasks and requests
  Seqs,       \* engine sequence hashes
  PathOf,     \* Seqs -> the local hashes from the root to the block
  Locals,     \* local block hashes
  Keys,       \* (owner, tier): [domain, source, tier]
  Scripts     \* the calls each thread makes: [Threads -> Seq(call)]

VARIABLES
  tree,       \* [nodes, anchors, reverse, counts, locked]
  threads     \* per thread: the calls left and the locals of the current one

treeVars == <<tree, threads>>

ASSUME PathsAreNonEmpty == \A s \in Seqs : PathOf[s] \in Seq(Locals) \ {<<>>}

Root == 1

NoSeq == "none"      \* no parent: the root

NoKey == [domain |-> "none", source |-> "none", tier |-> "none"]

NoChildren == [l \in Locals |-> 0]

Ended(s) == PathOf[s][Len(PathOf[s])]     \* the local hash of block s

NewShard ==
  [nodes |-> <<[edge |-> <<>>, claims |-> <<>>, children |-> NoChildren]>>,
   anchors |-> [s \in Seqs |-> 0],
   reverse |-> [k \in Keys |-> {}],
   counts |-> [k \in Keys |-> 0],
   locked |-> {}]

Idle == [pc |-> "call", bi |-> 0, cursor |-> NoSeq, node |-> 0, parent |-> 0,
         at |-> 0, upto |-> 0, keys |-> {}, key |-> NoKey, seqs |-> {}, seq |-> NoSeq,
         removed |-> FALSE, found |-> <<>>, seen |-> <<>>]

TreeInit ==
  /\ tree = NewShard
  /\ \E script \in Scripts :
       threads = [t \in Threads |-> [calls |-> script[t], at |-> Idle]]

Call(t) == Head(threads[t].calls)

(* The next local state of t, and the end of its current call.              *)
Goto(t, l) == threads' = [threads EXCEPT ![t].at = l]

Return(t) ==
  threads' = [threads EXCEPT ![t] = [calls |-> Tail(@.calls), at |-> Idle]]

At(t, pc) == threads[t].calls # <<>> /\ threads[t].at.pc = pc

(* The position of block s in the edge of a node; {} when a split moved it. *)
Positions(nd, s) == {i \in DOMAIN nd.edge : s \in nd.edge[i].aliases}

PositionOf(nd, s) == CHOOSE i \in Positions(nd, s) : TRUE

(* edge_common_prefix                                                       *)
CommonPrefix(edge, blocks) ==
  LET same(n) == n <= Len(edge) /\ n <= Len(blocks)
                 /\ \A i \in 1 .. n : edge[i].local = Ended(blocks[i])
  IN CHOOSE n \in 0 .. Len(edge) : same(n) /\ ~same(n + 1)

(* TreeNode::with_edge                                                      *)
WithEdge(blocks) ==
  [edge |-> [i \in DOMAIN blocks |->
               [aliases |-> {blocks[i]}, local |-> Ended(blocks[i])]],
   claims |-> [i \in DOMAIN blocks |-> {}],
   children |-> NoChildren]

(* split_locked: the first pos blocks stay on n, the remainder becomes its  *)
(* only child, with the claims and children below it and its anchors.       *)
Upper(nd, pos, new) ==
  [edge |-> SubSeq(nd.edge, 1, pos), claims |-> SubSeq(nd.claims, 1, pos),
   children |-> [NoChildren EXCEPT ![nd.edge[pos + 1].local] = new]]

Lower(nd, pos) ==
  [edge |-> SubSeq(nd.edge, pos + 1, Len(nd.edge)),
   claims |-> SubSeq(nd.claims, pos + 1, Len(nd.claims)), children |-> nd.children]

Reanchored(anchors, edge, new) ==
  [s \in Seqs |-> IF \E i \in DOMAIN edge : s \in edge[i].aliases THEN new ELSE anchors[s]]

Split(T, n, pos) ==
  LET low == Lower(T.nodes[n], pos)
      new == Len(T.nodes) + 1
  IN [T EXCEPT !.nodes = Append([@ EXCEPT ![n] = Upper(T.nodes[n], pos, new)], low),
               !.anchors = Reanchored(@, low.edge, new)]

SplitAfter(T, n, pos) == IF pos < Len(T.nodes[n].edge) THEN Split(T, n, pos) ELSE T

CountOnce(T, s, k) == IF s \in T.reverse[k] THEN T.counts[k] ELSE T.counts[k] + 1

(* record_locked for one block.                                             *)
Record(T, n, i, s, k) ==
  [T EXCEPT !.nodes[n].edge[i].aliases = @ \cup {s},
            !.anchors[s] = n,
            !.reverse[k] = @ \cup {s},
            !.counts[k] = CountOnce(T, s, k),
            !.nodes[n].claims[i] = @ \cup {k}]

-----------------------------------------------------------------------------
(* store                                                                    *)

(* A call with an unknown parent is skipped.                                *)
StoreStart(t) ==
  /\ At(t, "call") /\ Call(t).op = "store"
  /\ IF Call(t).parent # NoSeq /\ tree.anchors[Call(t).parent] = 0
       THEN Return(t)
       ELSE Goto(t, [Idle EXCEPT !.pc = "resolve", !.cursor = Call(t).parent])
  /\ UNCHANGED tree

(* Clone the cursor's anchor; no lock is held afterwards.                   *)
Resolve(t) ==
  /\ At(t, "resolve")
  /\ LET l == threads[t].at
     IN Goto(t, [l EXCEPT !.pc = "parent",
                          !.node = IF l.cursor = NoSeq THEN Root ELSE tree.anchors[l.cursor]])
  /\ UNCHANGED tree

Remaining(t) == LET b == Call(t).blocks IN SubSeq(b, threads[t].at.bi + 1, Len(b))

(* Under the parent's lock: split after an interior parent, look the child  *)
(* up, and keep the lock until a missing child is published.                *)
LockParent(t) ==
  /\ At(t, "parent")
  /\ LET l == threads[t].at
         nd == tree.nodes[l.node]
         first == Ended(Remaining(t)[1])
     IN /\ l.node \notin tree.locked
        /\ IF l.cursor # NoSeq /\ Positions(nd, l.cursor) = {}
             THEN /\ Goto(t, [l EXCEPT !.pc = "resolve", !.node = 0])
                  /\ UNCHANGED tree
             ELSE LET T == IF l.cursor = NoSeq THEN tree
                           ELSE SplitAfter(tree, l.node, PositionOf(nd, l.cursor))
                      child == T.nodes[l.node].children[first]
                      new == Len(T.nodes) + 1
                  IN IF child # 0
                       THEN /\ Goto(t, [l EXCEPT !.pc = "child", !.node = child])
                            /\ tree' = T
                       ELSE /\ Goto(t, [l EXCEPT !.pc = "record", !.node = new,
                                                 !.parent = l.node, !.at = l.bi,
                                                 !.upto = Len(Call(t).blocks)])
                            /\ tree' = [T EXCEPT !.nodes = Append(@, WithEdge(Remaining(t))),
                                                 !.locked = @ \cup {l.node, new}]

(* Under the child's lock: match its edge and split at the divergence.      *)
LockChild(t) ==
  /\ At(t, "child")
  /\ LET l == threads[t].at
         matched == CommonPrefix(tree.nodes[l.node].edge, Remaining(t))
     IN /\ l.node \notin tree.locked
        /\ tree' = [SplitAfter(tree, l.node, matched) EXCEPT !.locked = @ \cup {l.node}]
        /\ Goto(t, [l EXCEPT !.pc = "record", !.parent = 0, !.at = l.bi,
                             !.upto = l.bi + matched])

UnlockNode(T, l) == [T EXCEPT !.locked = @ \ {l.node}]   \* mutant: the parent stays locked

Unlock(T, l) == [T EXCEPT !.locked = @ \ {l.node, l.parent}]

(* One block of record_locked; the last one publishes a new node in its     *)
(* parent, unlocks, and descends or returns.                                *)
RecordBlock(t) ==
  /\ At(t, "record")
  /\ LET l == threads[t].at
         blocks == Call(t).blocks
         T == Record(tree, l.node, l.at + 1 - l.bi, blocks[l.at + 1], Call(t).key)
     IN IF l.at + 1 < l.upto
          THEN /\ tree' = T
               /\ Goto(t, [l EXCEPT !.at = @ + 1])
          ELSE /\ tree' =
                    IF l.parent = 0
                      THEN Unlock(T, l)
                      ELSE [Unlock(T, l) EXCEPT
                              !.nodes[l.parent].children[Ended(blocks[l.bi + 1])] = l.node]
               /\ IF l.upto = Len(blocks)
                    THEN Return(t)
                    ELSE Goto(t, [Idle EXCEPT !.pc = "resolve", !.bi = l.upto,
                                              !.cursor = blocks[l.upto]])

-----------------------------------------------------------------------------
(* remove, clear and clear_source                                           *)

RemoveStart(t) ==
  /\ At(t, "call") /\ Call(t).op = "remove"
  /\ Goto(t, [Idle EXCEPT !.pc = "remove", !.key = Call(t).key, !.seqs = Call(t).seqs])
  /\ UNCHANGED tree

(* The keys a clear selects: clear(Worker) by source within the domain,     *)
(* clear_source by target, pool copies included.                            *)
Selected(call) ==
  {k \in Keys : /\ tree.reverse[k] # {}
                /\ k.source = call.source
                /\ call.op = "clear" => k.domain = "Worker"}

ClearStart(t) ==
  /\ At(t, "call") /\ Call(t).op \in {"clear", "clear_source"}
  /\ IF Selected(Call(t)) = {}
       THEN Return(t)
       ELSE Goto(t, [Idle EXCEPT !.pc = "clearkey", !.keys = Selected(Call(t))])
  /\ UNCHANGED tree

(* The snapshot of one key's hashes, in any order of the key list.          *)
ClearKey(t) ==
  /\ At(t, "clearkey")
  /\ \E k \in threads[t].at.keys :
       LET rest == threads[t].at.keys \ {k}
       IN IF tree.reverse[k] # {}
            THEN Goto(t, [threads[t].at EXCEPT !.pc = "remove", !.keys = rest, !.key = k,
                                               !.seqs = tree.reverse[k]])
            ELSE IF rest = {} THEN Return(t)
                 ELSE Goto(t, [threads[t].at EXCEPT !.keys = rest])
  /\ UNCHANGED tree

(* The observation leaves the reverse map before its claim is looked at.    *)
RemoveReverse(t) ==
  /\ At(t, "remove")
  /\ \E s \in threads[t].at.seqs :
       LET k == threads[t].at.key
       IN /\ tree' = [tree EXCEPT !.reverse[k] = @ \ {s}]
          /\ Goto(t, [threads[t].at EXCEPT !.pc = "claim", !.seqs = @ \ {s}, !.seq = s,
                                           !.removed = s \in tree.reverse[k]])

(* After one hash: the next one, the next key, or the end of the call.      *)
NextRemoval(t) ==
  LET l == threads[t].at
  IN IF l.seqs # {} THEN Goto(t, [l EXCEPT !.pc = "remove", !.node = 0, !.seq = NoSeq])
     ELSE IF l.keys # {} THEN Goto(t, [l EXCEPT !.pc = "clearkey", !.node = 0, !.seq = NoSeq])
     ELSE Return(t)

ResolveClaim(t) ==
  /\ At(t, "claim")
  /\ IF tree.anchors[threads[t].at.seq] = 0
       THEN NextRemoval(t)
       ELSE Goto(t, [threads[t].at EXCEPT !.pc = "lockclaim",
                                          !.node = tree.anchors[threads[t].at.seq]])
  /\ UNCHANGED tree

(* remove_claim: the claim goes with its last active alias.                 *)
DropClaim(T, n, i, k) ==
  IF T.nodes[n].edge[i].aliases \cap T.reverse[k] # {} THEN T
  ELSE [T EXCEPT !.nodes[n].claims[i] = @ \ {k}]

LockClaim(t) ==
  /\ At(t, "lockclaim")
  /\ LET l == threads[t].at
         nd == tree.nodes[l.node]
     IN /\ l.node \notin tree.locked
        /\ IF Positions(nd, l.seq) = {}
             THEN /\ Goto(t, [l EXCEPT !.pc = "claim", !.node = 0])
                  /\ UNCHANGED tree
             ELSE /\ tree' = [DropClaim(tree, l.node, PositionOf(nd, l.seq), l.key)
                                EXCEPT !.counts[l.key] =
                                  IF l.removed /\ @ > 0 THEN @ - 1 ELSE @]
                  /\ NextRemoval(t)

-----------------------------------------------------------------------------
(* find_matches                                                             *)

ChildFor(nd, hashes, qi) == IF qi < Len(hashes) THEN nd.children[hashes[qi + 1]] ELSE 0

QueryStart(t) ==
  /\ At(t, "call") /\ Call(t).op = "query"
  /\ Root \notin tree.locked
  /\ LET next == ChildFor(tree.nodes[Root], Call(t).hashes, 0)
     IN IF next = 0 THEN Return(t)
        ELSE Goto(t, [Idle EXCEPT !.pc = "walk", !.node = next])
  /\ UNCHANGED tree

Advanced(edge, hashes, qi) ==
  LET same(n) == n <= Len(edge) /\ qi + n <= Len(hashes)
                 /\ \A i \in 1 .. n : edge[i].local = hashes[qi + i]
  IN CHOOSE n \in 0 .. Len(edge) : same(n) /\ ~same(n + 1)

StopsAtMiss(n, edge, next) == n = 0 \/ next = 0   \* mutant: a partial match descends

(* Children sit after the full edge: a partial match ends the walk.         *)
Stops(n, edge, next) == n = 0 \/ n < Len(edge) \/ next = 0

(* One node under its read lock: copy the matched claims and resolve the    *)
(* next child.                                                              *)
(* seen keeps, for the properties only, the hashes of the matched blocks.   *)
QueryNode(t) ==
  /\ At(t, "walk")
  /\ LET l == threads[t].at
         nd == tree.nodes[l.node]
         qi == Len(l.found)
         n == Advanced(nd.edge, Call(t).hashes, qi)
         moved == [l EXCEPT !.found = @ \o SubSeq(nd.claims, 1, n),
                            !.seen = @ \o [i \in 1 .. n |-> nd.edge[i].aliases]]
         next == ChildFor(nd, Call(t).hashes, qi + n)
     IN /\ l.node \notin tree.locked
        /\ IF Stops(n, nd.edge, next)
             THEN Goto(t, [moved EXCEPT !.pc = "answer", !.node = 0])
             ELSE Goto(t, [moved EXCEPT !.node = next])
  /\ UNCHANGED tree

(* Extend the open segment, or open one after a gap.                        *)
SegmentStep(segs, d) ==
  IF segs # <<>> /\ Last(segs)[2] = d
    THEN [segs EXCEPT ![Len(segs)] = <<@[1], d + 1>>]
    ELSE Append(segs, <<d, d + 1>>)

(* The intervals [start, end) a target holds at a tier: each depth counts   *)
(* once, whichever of the target's owners claims it.                        *)
Holders(found, d, source, tier) ==
  {k \in found[d + 1] : k.source = source /\ k.tier = tier}

Segments(found, source, tier) ==
  FoldLeft(SegmentStep, <<>>,
           SelectSeq([i \in DOMAIN found |-> i - 1],
                     LAMBDA d : Holders(found, d, source, tier) # {}))

QueryAnswer(t) ==
  /\ At(t, "answer")
  /\ Return(t)
  /\ UNCHANGED tree

TreeStep(t) ==
  \/ StoreStart(t) \/ Resolve(t) \/ LockParent(t) \/ LockChild(t) \/ RecordBlock(t)
  \/ RemoveStart(t) \/ ClearStart(t) \/ ClearKey(t) \/ RemoveReverse(t)
  \/ ResolveClaim(t) \/ LockClaim(t)
  \/ QueryStart(t) \/ QueryNode(t) \/ QueryAnswer(t)

TreeNext == \E t \in Threads : TreeStep(t)

-----------------------------------------------------------------------------
(* Properties                                                               *)

Targets == {<<k.source, k.tier>> : k \in Keys}

TreeTypeOK ==
  LET ids == 1 .. Len(tree.nodes)
  IN /\ \A n \in ids :
          LET nd == tree.nodes[n]
          IN /\ Len(nd.edge) = Len(nd.claims)
             /\ n # Root => nd.edge # <<>>
             /\ \A i \in DOMAIN nd.edge : /\ nd.edge[i].aliases \in SUBSET Seqs
                                         /\ nd.edge[i].local \in Locals
                                         /\ nd.claims[i] \in SUBSET Keys
             /\ nd.children \in [Locals -> {0} \cup ids]
     /\ tree.anchors \in [Seqs -> {0} \cup ids]
     /\ tree.reverse \in [Keys -> SUBSET Seqs]
     /\ tree.counts \in [Keys -> Nat]
     /\ tree.locked \in SUBSET ids

(* Follow local hashes from the root, one block at a time.                  *)
WalkStep(w, h) ==
  LET nd == tree.nodes[w.node]
      child == nd.children[h]
  IN IF w.node = 0 THEN w
     ELSE IF w.at < Len(nd.edge)
       THEN IF nd.edge[w.at + 1].local = h THEN [w EXCEPT !.at = @ + 1]
            ELSE [node |-> 0, at |-> 0]
     ELSE IF child # 0 /\ tree.nodes[child].edge[1].local = h THEN [node |-> child, at |-> 1]
     ELSE [node |-> 0, at |-> 0]

Where(hashes) == FoldLeft(WalkStep, [node |-> Root, at |-> 0], hashes)

(* A node that a store is still building; its parent does not show it yet.  *)
Unpublished(n) ==
  \E t \in Threads : At(t, "record") /\ threads[t].at.parent # 0 /\ threads[t].at.node = n

(* An engine hash is anchored at the block its full path leads to from the  *)
(* root, however concurrent stores split and publish the nodes in between:  *)
(* otherwise a later BlockRemoved or child store would act on another block *)
(* and a published branch would be lost.                                    *)
AnchorsNameTheirPath ==
  \A s \in Seqs :
    LET n == tree.anchors[s]
    IN n # 0 => /\ Positions(tree.nodes[n], s) # {}
                /\ \/ Unpublished(n)
                   \/ Where(PathOf[s]) = [node |-> n, at |-> PositionOf(tree.nodes[n], s)]

(* The removals that have left the reverse map and not reached their node.  *)
Pending(k) ==
  {threads[t].at.seq : t \in {u \in Threads : /\ threads[u].at.pc \in {"claim", "lockclaim"}
                                             /\ threads[u].at.key = k}}

(* A block is credited to an owner exactly while the owner has an active    *)
(* observation of one of its hashes, up to the removals under way, whatever *)
(* stores, removals and clears of the same owner interleave (remove_claim's *)
(* comment: an abandoned cleanup leaves a claim Clear cannot enumerate).    *)
ClaimsAreObservations ==
  \A n \in 1 .. Len(tree.nodes), k \in Keys :
    \A i \in DOMAIN tree.nodes[n].edge :
      LET aliases == tree.nodes[n].edge[i].aliases
          claimed == k \in tree.nodes[n].claims[i]
      IN /\ claimed => aliases \cap (tree.reverse[k] \cup Pending(k)) # {}
         /\ (\E s \in aliases \cap tree.reverse[k] : tree.anchors[s] = n) => claimed

(* counts is the number of distinct active observations of an owner once    *)
(* none of its removals is under way (the doc comment of counts).           *)
CountsAreObservations ==
  \A k \in Keys : Pending(k) = {} => tree.counts[k] = Cardinality(tree.reverse[k])

(* What a query copies for depth d is the claim set of the block its first  *)
(* d + 1 hashes lead to, even when the nodes it walks are split under it    *)
(* (find_matches: "re-reading this node's children after advancing by its   *)
(* old length misaligns depth").                                            *)
QueriesStayAligned ==
  \A t \in Threads : \A i \in DOMAIN threads[t].at.seen :
    \A s \in threads[t].at.seen[i] : PathOf[s] = SubSeq(Call(t).hashes, 1, i)

(* The answer of find_matches: for every target and tier the intervals      *)
(* cover exactly the depths one of the target's owners claims, each         *)
(* maximal, in order.                                                       *)
AnswersCoverTheClaims ==
  \A t \in Threads : At(t, "answer") =>
    \A target \in Targets :
      LET found == threads[t].at.found
          segs == Segments(found, target[1], target[2])
          held == {d \in 0 .. Len(found) - 1 : Holders(found, d, target[1], target[2]) # {}}
      IN /\ held = UNION {segs[i][1] .. segs[i][2] - 1 : i \in DOMAIN segs}
         /\ \A i \in 1 .. Len(segs) - 1 : segs[i][2] < segs[i + 1][1]

(* Every store, removal, clear and query ends: re-resolving a moved anchor  *)
(* is repeated finitely often, and no two calls wait for each other's       *)
(* locks.                                                                   *)
TreeCallsEnd == <>(\A t \in Threads : threads[t].calls = <<>>)

(* GroupShard: through concurrent stores, splits, removals and clears     *)
(* every anchor, claim, count and answer is the one the observations call *)
(* for.                                                                   *)
TreeIsExact ==
  /\ TreeTypeOK
  /\ AnchorsNameTheirPath
  /\ ClaimsAreObservations
  /\ CountsAreObservations
  /\ QueriesStayAligned
  /\ AnswersCoverTheClaims
=============================================================================
