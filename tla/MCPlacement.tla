---------------------------- MODULE MCPlacement -----------------------------
(***************************************************************************)
(* The state behind a placement: the token ledger, the lineage forest, the *)
(* home table, the cached hash ring and the radix tree.  They share no     *)
(* state within one step, so one run explores each from its own initial    *)
(* states.                                                                 *)
(***************************************************************************)
EXTENDS UsageLedger, StickyPlacement, RadixTree

VARIABLE part     \* which component moves

vars == <<part, ledgerVars, parents, bindingVars, ringVars, radixVars>>

Scrape(n, r) == [native |-> n, running |-> r]

MCScrapes == {Scrape({}, 0), Scrape({2}, 1)}

MCTokens == [p1 |-> {1, 2}, p2 |-> {1}]

MCBound == {<<"m", "p">>, <<"m", "q">>, <<"all", "p">>}
MCKeyHash == [p \in MCBound |-> IF p[2] = "p" THEN 2 ELSE 4]
MCPoints == <<1, 2, 3, 1, 2>>

MCListOf == [r1 |-> <<1, 2>>, r2 |-> <<3, 4>>, r3 |-> <<1, 2>>, r4 |-> <<1, 2>>]
MCPosition == <<10, 20, 15, 5>>

MCTexts == {<<0, 1>>, <<0, 0, 1>>, <<0, 0, 1, 1>>}
TenantSymmetry == Permutations(Tenants)

MCInit ==
  /\ part \in {"ledger", "lineage", "bindings", "ring", "radix"}
  /\ LedgerInit /\ LineageInit /\ BindingInit /\ RingInit /\ RadixInit
  /\ part # "bindings" => strategy = "hash"
  /\ part # "ring" => well = {}

(* Bound: one program with two requests, drift and two snapshots, or two    *)
(* programs with one request each and one snapshot.                         *)
LedgerBound ==
  \/ prog'["p2"].state = "gone"
  \/ /\ known'.revision <= 1
     /\ \A t \in LedgerTargets : ghost'[t].left = 0
     /\ \A p \in LedgerPrograms : prog'[p].busy + prog'[p].queued <= 1

Moves(p) == part = p /\ UNCHANGED part

MCNext ==
  \/ Moves("ledger") /\ LedgerNext /\ LedgerBound /\ UNCHANGED <<parents, bindingVars, ringVars, radixVars>>
  \/ Moves("lineage") /\ LineageNext /\ UNCHANGED <<ledgerVars, bindingVars, ringVars, radixVars>>
  \/ Moves("bindings") /\ BindingNext /\ UNCHANGED <<ledgerVars, parents, ringVars, radixVars>>
  \/ Moves("ring") /\ RingNext /\ UNCHANGED <<ledgerVars, parents, bindingVars, radixVars>>
  \/ Moves("radix") /\ RadixNext /\ UNCHANGED <<ledgerVars, parents, bindingVars, ringVars>>

MCSpec == MCInit /\ [][MCNext]_vars

(* The hash policy alone, with every worker available throughout.           *)
StickyInit == MCInit /\ part = "ring" /\ well = DOMAIN Position

StickySpec == StickyInit /\ [][MCNext /\ well' = well]_vars

(* The radix tree alone, with eviction and removal during inserts and       *)
(* nobody matching.                                                         *)
OverlapSpec == MCInit /\ part = "radix" /\ [][MCNext /\ look' = look]_vars

(* What a step of placement may never do: move a root by looking it up,   *)
(* move a Program whose home is still there, choose a worker of another   *)
(* list, return from an insert whose text is not found, name a tenant for *)
(* text it does not hold, or end an undisturbed eviction above the budget.*)
StepsKeepPlacements ==
  [][/\ LookupsMoveNoRoot
     /\ HomesAreSticky
     /\ ChoiceIsOfTheOwnList
     /\ InsertedTextIsFound
     /\ MatchNamesAHolder
     /\ PassEndsWithinBudget]_vars
=============================================================================
