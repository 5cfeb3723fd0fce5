----------------------------- MODULE RadixTree ------------------------------
(***************************************************************************)
(* The radix tree of the cache-aware policy, tree.rs.  A node is written   *)
(* as its full path: a split puts a new, shorter path above a node and     *)
(* leaves the node's own path as it was.  Its children are the shortest    *)
(* longer paths, its text is what its path adds to its parent's.           *)
(*                                                                         *)
(* insert takes one step per child slot: it holds the slot's entry for the *)
(* whole arm.  insert_capped holds the tenant's lock, so there is at most  *)
(* one capped insert of a tenant.  A match holds nothing: it reads a slot, *)
(* then the node's text, and at its end a tenant, which it may touch later.*)
(* An eviction takes a tenant off one node, tests whether the node is      *)
(* empty and unlinks it in three steps; a removal is one step.             *)
(***************************************************************************)
EXTENDS Naturals, Sequences, SequencesExt, FiniteSets, FiniteSetsExt, TLC

CONSTANTS
  Tenants,        \* worker URLs
  Texts,          \* request texts
  NoTenant,       \* the "empty" tenant and an unset last_tenant
  MaxTreeSize,    \* max_tree_size
  MaxEpoch,       \* bound on EPOCH_COUNTER
  MaxMatches,     \* bound on matches
  Overlap         \* whether eviction and removal run during inserts

VARIABLES
  tree,      \* path -> [at |-> tenant_last_access_time, last |-> last_tenant]
  chars,     \* tenant_char_count
  insert,    \* the capped insert of a tenant: [text, at, left, lost], or none
  evict,     \* the eviction pass: the heap, the node to unlink; quiet: undisturbed
  look,      \* the nth match: [nth, text, at, got, child, tenant, lost, astray, pc]
  revived,   \* for the properties: the tenants a late touch has put back on a node
  stamp      \* EPOCH_COUNTER

radixVars == <<tree, chars, insert, evict, look, revived, stamp>>

NoInsert == [text |-> <<>>, at |-> <<>>, left |-> <<>>, lost |-> FALSE, on |-> FALSE]
NoEviction == [heap |-> {}, unlink |-> {}, on |-> FALSE, quiet |-> FALSE]
NoLook == [nth |-> 0, text |-> <<>>, at |-> <<>>, got |-> 0, child |-> <<>>, tenant |-> NoTenant,
           lost |-> FALSE, astray |-> FALSE, pc |-> "idle"]

RadixInit ==
  /\ tree = (<<>> :> [at |-> <<>>, last |-> NoTenant])
  /\ chars = <<>>
  /\ insert = [t \in Tenants |-> NoInsert]
  /\ evict = NoEviction
  /\ look = NoLook /\ revived = {}
  /\ stamp = 1

-----------------------------------------------------------------------------
(* shared_prefix_count, and the text that is shared                         *)
SharedCount(a, b) ==
  CHOOSE n \in 0 .. Len(a) :
    /\ n <= Len(b) /\ \A i \in 1 .. n : a[i] = b[i]
    /\ n = Len(a) \/ n = Len(b) \/ a[n + 1] # b[n + 1]

Shared(a, b) == SubSeq(a, 1, SharedCount(a, b))

HasTenant(T, p, t) == t \in DOMAIN T[p].at

Below(T, p) == {q \in DOMAIN T : IsStrictPrefix(p, q)}

(* children, and children.get(c)                                            *)
Children(T, p) == {q \in Below(T, p) : ~\E r \in Below(T, p) : IsStrictPrefix(r, q)}

Slot(T, p, c) == {q \in Children(T, p) : q[Len(p) + 1] = c}

ParentOf(T, p) ==
  CHOOSE r \in DOMAIN T : IsStrictPrefix(r, p) /\ p \in Children(T, r)

Touch(T, p, t, when) == [T EXCEPT ![p].at = (t :> when) @@ @]

Ensure(T, p, t) == IF HasTenant(T, p, t) THEN T ELSE Touch(T, p, t, 0)

Drop(f, x) == [y \in DOMAIN f \ {x} |-> f[y]]

(* prefix_match_tenant_state on a tree that stands still: only nodes of the *)
(* tenant are entered, a partial match ends the walk.                       *)
RECURSIVE TenantWalk(_, _, _, _)
TenantWalk(T, p, text, t) ==
  LET next == IF Len(text) = Len(p) THEN {} ELSE Slot(T, p, text[Len(p) + 1])
      q == CHOOSE x \in next : TRUE
      shared == Shared(q, text)
  IN IF next = {} \/ ~HasTenant(T, q, t) THEN Len(p)
     ELSE IF shared = q THEN TenantWalk(T, q, text, t)
     ELSE Len(shared)

(* The tenant of a match: the cached one if it is still there, else any.    *)
TenantsOf(T, p) ==
  IF T[p].last \in DOMAIN T[p].at THEN {T[p].last}
  ELSE IF T[p].at = <<>> THEN {NoTenant} ELSE DOMAIN T[p].at

-----------------------------------------------------------------------------
(* Insertion *)

(* Bound: nothing is added once a late touch has put a tenant back.         *)
NoPass == (Overlap \/ ~evict.on) /\ revived = {}
NoInserts == \A t \in Tenants : ~insert[t].on

Counted(t) == IF t \in DOMAIN chars THEN chars[t] ELSE 0

(* add_worker, add_worker_by_url, init_workers: insert("", url)             *)
AddTenant(t) ==
  /\ stamp < MaxEpoch /\ NoPass
  /\ tree' = Touch(tree, <<>>, t, stamp)
  /\ chars' = (t :> Counted(t)) @@ chars
  /\ stamp' = stamp + 1
  /\ UNCHANGED <<insert, evict, look, revived>>

AtBudget(t) == Counted(t) >= MaxTreeSize

(* insert_capped: the check, then insert up to its loop.                    *)
InsertCapped(t, text) ==
  /\ ~insert[t].on /\ stamp < MaxEpoch /\ NoPass
  /\ ~AtBudget(t)
  /\ tree' = Ensure(tree, <<>>, t)
  /\ chars' = (t :> Counted(t)) @@ chars
  /\ insert' = [insert EXCEPT ![t] = [text |-> text, at |-> <<>>, left |-> text, lost |-> FALSE, on |-> TRUE]]
  /\ evict' = [evict EXCEPT !.quiet = FALSE]
  /\ UNCHANGED <<look, revived, stamp>>

SplitNode(T, q) == T[q]

CountsWholeNode(p, q) == Len(q) - Len(p) + 1   \* mutant: one character too many

NodeChars(p, q) == Len(q) - Len(p)

(* An empty slot: the rest of the text becomes a leaf and the insert ends.  *)
InsertLeaf(t) ==
  LET i == insert[t]
      full == i.at \o i.left
  IN /\ i.on /\ i.left # <<>>
     /\ i.lost \/ Slot(tree, i.at, Head(i.left)) = {}
     /\ tree' = IF i.lost THEN tree ELSE tree @@ (full :> [at |-> (t :> stamp), last |-> t])
     /\ chars' = (t :> Counted(t) + Len(i.left)) @@ chars
     /\ insert' = [insert EXCEPT ![t] = NoInsert]
     /\ stamp' = stamp + 1
     /\ UNCHANGED <<evict, look, revived>>

(* advance_by_chars                                                         *)
Remaining(text, n) == SubSeq(text, Len(n) + 1, Len(text))

(* A taken slot: the node is split where the text leaves it, the tenant is  *)
(* added to what it shares.                                                 *)
InsertDescend(t) ==
  LET i == insert[t]
      full == i.at \o i.left
  IN /\ i.on /\ i.left # <<>> /\ ~i.lost
     /\ \E q \in Slot(tree, i.at, Head(i.left)) :
          LET n == Shared(q, full)
              split == IF n = q THEN tree ELSE tree @@ (n :> SplitNode(tree, q))
          IN /\ tree' = Ensure(split, n, t)
             /\ chars' = IF HasTenant(split, n, t) THEN chars
                         ELSE (t :> Counted(t) + NodeChars(i.at, n)) @@ chars
             /\ insert' = [insert EXCEPT ![t] = [@ EXCEPT !.at = n, !.left = Remaining(full, n)]]
     /\ UNCHANGED <<evict, look, revived, stamp>>

(* The text ends at a node: only now it is touched.                         *)
InsertEnd(t) ==
  LET i == insert[t]
  IN /\ i.on /\ i.left = <<>>
     /\ tree' = IF i.lost THEN tree ELSE Touch(tree, i.at, t, stamp)
     /\ insert' = [insert EXCEPT ![t] = NoInsert]
     /\ stamp' = stamp + 1
     /\ UNCHANGED <<chars, evict, look, revived>>

-----------------------------------------------------------------------------
(* prefix_match_with_counts *)

Looks(l) == look' = l /\ UNCHANGED <<chars, insert>>

(* The text the match has still to find.                                    *)
Unmatched == SubSeq(look.text, look.got + 1, Len(look.text))

MatchStart(text) ==
  /\ look.pc = "idle" /\ look.nth < MaxMatches
  /\ Looks([look EXCEPT !.nth = @ + 1, !.text = text, !.pc = "child"])
  /\ UNCHANGED <<tree, evict, revived, stamp>>

(* children.get(first_char); the children of a dead node are gone.          *)
MatchChild ==
  /\ look.pc = "child"
  /\ LET next == IF Unmatched = <<>> \/ look.lost THEN {} ELSE Slot(tree, look.at, Head(Unmatched))
     IN \/ next = {} /\ Looks([look EXCEPT !.pc = "tenant"])
        \/ \E q \in next : Looks([look EXCEPT !.child = q, !.pc = "text"])
  /\ UNCHANGED <<tree, evict, revived, stamp>>

(* The node's text, which a split has shortened if it came in between: the  *)
(* match goes on from there, wherever it is.  A node that died ends it.     *)
MatchText ==
  /\ look.pc = "text"
  /\ IF look.lost THEN Looks([look EXCEPT !.pc = "tenant"])
     ELSE LET above == ParentOf(tree, look.child)
              own == SubSeq(look.child, Len(above) + 1, Len(look.child))
              n == SharedCount(Unmatched, own)
          IN Looks([look EXCEPT !.at = look.child, !.child = <<>>, !.got = @ + n,
                                !.astray = @ \/ above # look.at,
                                !.pc = IF n = Len(own) THEN "child" ELSE "tenant"])
  /\ UNCHANGED <<tree, evict, revived, stamp>>

(* The tenant, and the node's cache.  In a dead node only an insert that    *)
(* stands there too leaves one.                                             *)
MatchTenant ==
  /\ look.pc = "tenant"
  /\ \E t \in IF look.lost THEN {NoTenant} \cup (IF Overlap THEN Tenants ELSE {})
               ELSE TenantsOf(tree, look.at) :
       /\ Looks([look EXCEPT !.tenant = t, !.pc = "named"])
       /\ tree' = IF look.lost THEN tree ELSE [tree EXCEPT ![look.at].last = t]
  /\ UNCHANGED <<evict, revived, stamp>>

(* One stamp in eight the tenant is touched, whether it is still there or   *)
(* not.                                                                     *)
MatchEnd ==
  /\ look.pc = "named"
  /\ Looks([NoLook EXCEPT !.nth = look.nth])
  /\ \/ UNCHANGED <<tree, evict, revived, stamp>>
     \/ LET back == ~look.lost /\ ~HasTenant(tree, look.at, look.tenant)
        IN /\ stamp < MaxEpoch
           /\ tree' = IF look.lost THEN tree ELSE Touch(tree, look.at, look.tenant, stamp)
           /\ revived' = IF back THEN revived \cup {look.tenant} ELSE revived
           /\ evict' = [evict EXCEPT !.quiet = @ /\ ~back]
           /\ stamp' = stamp + 1

-----------------------------------------------------------------------------
(* Eviction and removal *)

LeafOf(T, p, t) == HasTenant(T, p, t) /\ ~\E q \in Children(T, p) : HasTenant(T, q, t)

EvictStart ==
  /\ ~evict.on
  /\ Overlap \/ NoInserts
  /\ evict' = [heap |-> UNION {{<<tree[p].at[t], t, p>> : t \in {x \in DOMAIN tree[p].at : LeafOf(tree, p, x)}} : p \in DOMAIN tree},
               unlink |-> {}, on |-> TRUE, quiet |-> NoInserts]
  /\ UNCHANGED <<tree, chars, insert, look, revived, stamp>>

(* Unlinking a node leaves the inserts and the match in it with a dead node.*)
Unlinked(T, q) == [p \in {x \in DOMAIN T : ~IsPrefix(q, x)} |-> T[p]]

Stranded(ins, q) == [t \in Tenants |-> IF ins[t].on /\ IsPrefix(q, ins[t].at) THEN [ins[t] EXCEPT !.lost = TRUE] ELSE ins[t]]

LookStranded(dead) == [look EXCEPT !.lost = @ \/ {look.at, look.child} \cap dead # {}]

Requeued(T, r, t) == IF LeafOf(T, r, t) THEN {<<T[r].at[t], t, r>>} ELSE {}

(* One heap entry: its node loses the tenant.                               *)
EvictPop ==
  /\ evict.on /\ evict.unlink = {}
  /\ \E e \in evict.heap :
       LET t == e[2]
           p == e[3]
           rest == evict.heap \ {e}
           within == t \in DOMAIN chars /\ chars[t] <= MaxTreeSize
       IN /\ \A x \in evict.heap : e[1] <= x[1]
          /\ IF within \/ p \notin DOMAIN tree \/ ~LeafOf(tree, p, t)
             THEN evict' = [evict EXCEPT !.heap = rest] /\ UNCHANGED <<tree, chars>>
             ELSE LET parent == IF p = <<>> THEN {} ELSE {ParentOf(tree, p)}
                      own == Len(p) - Len(IF p = <<>> THEN p ELSE ParentOf(tree, p))
                      T == [tree EXCEPT ![p].at = Drop(@, t)]
                  IN /\ tree' = T
                     /\ chars' = IF t \in DOMAIN chars
                                 THEN [chars EXCEPT ![t] = IF @ < own THEN 0 ELSE @ - own] ELSE chars
                     /\ evict' = [evict EXCEPT !.heap = rest,
                          !.unlink = {[node |-> p, of |-> r, tenant |-> t, test |-> "due"] : r \in parent}]
  /\ UNCHANGED <<insert, look, revived, stamp>>

(* children.is_empty() && tenant_last_access_time.is_empty()                *)
EvictTest ==
  /\ \E u \in evict.unlink :
       LET empty == u.node \notin DOMAIN tree \/ (Children(tree, u.node) = {} /\ tree[u.node].at = <<>>)
       IN /\ u.test = "due"
          /\ evict' = [evict EXCEPT !.unlink = {[u EXCEPT !.test = IF empty THEN "empty" ELSE "used"]}]
  /\ UNCHANGED <<tree, chars, insert, look, revived, stamp>>

(* parent.children.remove(first_char): whatever the slot holds by now.      *)
EvictUnlink ==
  /\ \E u \in evict.unlink :
       LET gone == IF u.test = "empty" /\ u.of \in DOMAIN tree THEN Slot(tree, u.of, u.node[Len(u.of) + 1]) ELSE {}
           T == IF gone = {} THEN tree ELSE Unlinked(tree, CHOOSE q \in gone : TRUE)
       IN /\ u.test # "due"
          /\ tree' = T
          /\ insert' = IF gone = {} THEN insert ELSE Stranded(insert, CHOOSE q \in gone : TRUE)
          /\ evict' = [evict EXCEPT !.unlink = {}, !.heap = @ \cup (IF u.of \in DOMAIN T THEN Requeued(T, u.of, u.tenant) ELSE {})]
          /\ look' = LookStranded(DOMAIN tree \ DOMAIN T)
  /\ UNCHANGED <<chars, revived, stamp>>

EvictEnd ==
  /\ evict.on /\ evict.heap = {} /\ evict.unlink = {}
  /\ evict' = NoEviction
  /\ UNCHANGED <<tree, chars, insert, look, revived, stamp>>

(* remove_tenant: from its leaves up, every node loses the tenant and is    *)
(* unlinked when nothing is left of it; the count is forgotten.  The policy *)
(* also removes the "empty" tenant a match has named.                       *)
RemoveTenant(t) ==
  /\ Overlap \/ (NoInserts /\ ~evict.on)
  /\ LET T == [p \in DOMAIN tree |-> [tree[p] EXCEPT !.at = Drop(@, t)]]
         dead == {p \in DOMAIN T \ {<<>>} : HasTenant(tree, p, t) /\ \A q \in DOMAIN T : IsPrefix(p, q) => T[q].at = <<>>}
     IN /\ tree' = [p \in DOMAIN T \ dead |-> T[p]]
        /\ insert' = [x \in Tenants |-> IF insert[x].on /\ insert[x].at \in dead THEN [insert[x] EXCEPT !.lost = TRUE] ELSE insert[x]]
        /\ look' = LookStranded(dead)
  /\ chars' = Drop(chars, t)
  /\ revived' = revived \ {t}
  /\ UNCHANGED <<evict, stamp>>

RadixNext ==
  \/ \E t \in Tenants : AddTenant(t) \/ InsertLeaf(t) \/ InsertDescend(t) \/ InsertEnd(t)
  \/ \E t \in Tenants \cup {NoTenant} : RemoveTenant(t)
  \/ \E t \in Tenants, text \in Texts : InsertCapped(t, text)
  \/ \E text \in Texts : MatchStart(text)
  \/ MatchChild \/ MatchText \/ MatchTenant \/ MatchEnd
  \/ EvictStart \/ EvictPop \/ EvictTest \/ EvictUnlink \/ EvictEnd

-----------------------------------------------------------------------------
(* get_used_size_per_tenant                                                 *)
UsedSize(T, t) ==
  MapThenSumSet(LAMBDA p : Len(p) - Len(ParentOf(T, p)), {p \in DOMAIN T \ {<<>>} : HasTenant(T, p, t)})

(* tenant_char_count and get_used_size_per_tenant: the incremental count of *)
(* a tenant is the size of its nodes at every step of concurrent inserts    *)
(* and splits and after every eviction and removal that no insert overlaps, *)
(* whatever the matches read meanwhile, unless a match touched the tenant   *)
(* on a node it had just lost.  Its removal ends that.                      *)
CountsMatchTheTree ==
  ~evict.on => \A t \in Tenants \ revived : Counted(t) = UsedSize(tree, t)

(* insert, split and evict_tenant_by_size: no two nodes share more text     *)
(* than a node above both, and a node of a tenant lies below nodes of that  *)
(* tenant only, so the tenant's walk reaches all it holds; again but for a  *)
(* tenant touched too late.                                                 *)
HeldTextIsFound ==
  /\ \A p, q \in DOMAIN tree : Shared(p, q) \in DOMAIN tree
  /\ \A p \in DOMAIN tree : \A t \in (DOMAIN tree[p].at \cap Tenants) \ revived :
       TenantWalk(tree, <<>>, p, t) = Len(p)

(* insert: when an insert returns, the tenant's match of its text is the    *)
(* whole text, whatever other inserts did to the nodes on its way.          *)
InsertedTextIsFound ==
  \A t \in Tenants : insert[t].on /\ ~insert'[t].on =>
    TenantWalk(tree', <<>>, insert[t].text, t) = Len(insert[t].text)

(* prefix_match_with_counts: the tenant a match names holds all of the text *)
(* it counted, although inserts, evictions and removals ran between its     *)
(* reads and the node's cached tenant may have left; "empty" is named only  *)
(* during an eviction, or after one whose node a match had put "empty" on.  *)
(* Not so when a split came between reading the slot and reading the text:  *)
(* the match then compares with the lower half alone and may count text     *)
(* that the tenant it names does not hold.                                  *)
MatchNamesAHolder ==
  look.pc = "tenant" /\ look'.pc = "named" /\ ~look.astray /\ ~look.lost /\ look.got > 0 =>
    IF look'.tenant = NoTenant THEN evict.on \/ NoTenant \in revived
    ELSE look'.tenant \in revived \/ TenantWalk(tree, <<>>, look.text, look'.tenant) >= look.got

(* insert_capped: between evictions a tenant exceeds its budget by less     *)
(* than one text.                                                           *)
OvershootIsOneText ==
  \A t \in Tenants : \E text \in Texts : Counted(t) <= MaxTreeSize - 1 + Len(text)

(* evict_tenant_by_size: a pass during which nothing is inserted, and no    *)
(* match puts a tenant back, leaves every tenant within its budget.         *)
PassEndsWithinBudget ==
  evict.on /\ ~evict'.on /\ evict.quiet => \A t \in DOMAIN chars' : chars'[t] <= MaxTreeSize

(* The same of the tree alone.                                              *)
PassMeetsTheBudget == [][PassEndsWithinBudget]_radixVars

(* The approximate tree of the cache-aware policy: what a tenant holds is *)
(* found and counted, and stays near its budget.                          *)
RadixTreeIsSound ==
  /\ HeldTextIsFound
  /\ CountsMatchTheTree
  /\ OvershootIsOneText
=============================================================================
