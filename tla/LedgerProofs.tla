---------------------------- MODULE LedgerProofs ----------------------------
(***************************************************************************)
(* The token ledger of the Program scheduler is exact for any programs,    *)
(* targets, token counts, scrapes and bounds.                              *)
(*                                                                         *)
(* The inductive invariant LedgerInvariant has the types, one entry with   *)
(* the right delta for every known target and none for the others          *)
(* (EntriesExact), programs seated on known targets (AllSeated), the       *)
(* checkpoint of the observation in flight in agreement with the           *)
(* adjustments as long as no snapshot came between (EpochsFit), and the    *)
(* balance of the adjustments with the tokens of the seated programs       *)
(* (Balanced), a sum over a set of programs that changes with every step.  *)
(*                                                                         *)
(* The second half is about where programs belong: the parent forest of a  *)
(* pool, for which Forest (finitely many entries, parents among them,      *)
(* every walk ends) is inductive, and the home table, for which            *)
(* BindingInv (live bindings, and rings built from their own target list)  *)
(* is.                                                                     *)
(***************************************************************************)
EXTENDS UsageLedger, StickyPlacement, Induction

Ages == {"never", "fresh", "stale"}

Observation == [est : SUBSET Int, delta : Int, at : Ages]
Member == [state : {"gone", "paused", "active"}, at : LedgerTargets \cup {Nowhere}, busy : Nat,
           queued : Nat, tokens : Nat, pauseWhenIdle : BOOLEAN]
Life == [log : Int, mark : Int, left : Int, since : Nat, seen : SUBSET Nat]
Check == [ledger : Int, programs : Nat, reasoningTokens : Int, actingTokens : Int, log : Int]
Epoch == [revision : Nat, ids : SUBSET LedgerTargets, at : [LedgerTargets -> Check]]

LedgerTypes ==
  /\ known \in [ids : SUBSET LedgerTargets, revision : Nat]
  /\ obs \in [LedgerTargets -> SUBSET Observation]
  /\ prog \in [LedgerPrograms -> Member]
  /\ epoch \in SUBSET Epoch
  /\ ghost \in [LedgerTargets -> Life]

EntriesExact ==
  \A t \in LedgerTargets :
    IF t \in known.ids THEN \E o \in Observation : obs[t] = {o} /\ o.delta = ghost[t].log - ghost[t].mark
    ELSE obs[t] = {}

Seated(r) ==
  /\ r.state = "active" => r.at \in known.ids
  /\ r.state # "active" => r.busy = 0 /\ r.at = Nowhere

AllSeated == \A p \in LedgerPrograms : Seated(prog[p])

EpochFits(e) ==
  /\ e.revision <= known.revision
  /\ e.revision = known.revision =>
       e.ids = known.ids /\ \A t \in known.ids : e.at[t].ledger = e.at[t].log - ghost[t].mark

EpochsFit == \A e \in epoch : EpochFits(e)

LivesOrdered ==
  \A t \in known.ids : ghost[t].since <= known.revision /\ \A r \in ghost[t].seen : r >= ghost[t].since

(* The programs of a target, and what they hold, in any state of the programs. *)
TokensIn(pr) == [p \in LedgerPrograms |-> pr[p].tokens]
PlacedIn(pr, t) == {p \in LedgerPrograms : pr[p].state = "active" /\ pr[p].at = t}
HeldIn(pr, t) == SumFunctionOnSet(TokensIn(pr), PlacedIn(pr, t))
Share(r, t) == IF r.state = "active" /\ r.at = t THEN r.tokens ELSE 0

Balanced == \A t \in known.ids : ghost[t].log + ghost[t].left = HeldIn(prog, t)

LedgerInvariant ==
  LedgerTypes /\ EntriesExact /\ AllSeated /\ EpochsFit /\ LivesOrdered /\ Balanced

-----------------------------------------------------------------------------
(* What the properties call the private tokens of a target.                 *)
LEMMA HeldIsPrivateTokens ==
  ASSUME NEW t
  PROVE  PrivateTokens(Placed(t)) = HeldIn(prog, t)
BY Zenon DEF PrivateTokens, Placed, HeldIn, TokensIn, PlacedIn

(* The tokens of any set of programs add up to an integer.                  *)
LEMMA TokensAreInt ==
  ASSUME NEW pr \in [LedgerPrograms -> Member], NEW P \in SUBSET LedgerPrograms
  PROVE  /\ IsFiniteSet(P)
         /\ \A p \in P : TokensIn(pr)[p] \in Int
         /\ SumFunctionOnSet(TokensIn(pr), P) \in Int
<1>1. IsFiniteSet(P)
  BY LedgerAssumption, FS_Subset, Zenon
<1>2. \A p \in P : TokensIn(pr)[p] \in Int
  BY DEF TokensIn, Member
<1>3. \A p \in P : TokensIn(pr)[p] = TokensIn(pr)[p]
  BY Zenon
<1> QED
  BY <1>1, <1>2, <1>3, SumOfSame, Zenon

(* Changing one program moves the sum of a target by its share.            *)
LEMMA HeldMoves ==
  ASSUME NEW pr \in [LedgerPrograms -> Member], NEW qr \in [LedgerPrograms -> Member],
         NEW p \in LedgerPrograms, \A q \in LedgerPrograms \ {p} : qr[q] = pr[q], NEW t
  PROVE  HeldIn(qr, t) = HeldIn(pr, t) + Share(qr[p], t) - Share(pr[p], t)
<1> DEFINE S == PlacedIn(pr, t)  Q == PlacedIn(qr, t)  Rest == S \ {p}
<1>1. S \in SUBSET LedgerPrograms /\ Q \in SUBSET LedgerPrograms /\ Rest \in SUBSET LedgerPrograms
  BY Zenon DEF PlacedIn
<1>2. Rest = Q \ {p}
  BY Zenon DEF PlacedIn
<1>3. ASSUME NEW r \in [LedgerPrograms -> Member]
      PROVE  HeldIn(r, t) = SumFunctionOnSet(TokensIn(r), PlacedIn(r, t) \ {p}) + Share(r[p], t)
  <2> DEFINE A == PlacedIn(r, t)
  <2>1. A \in SUBSET LedgerPrograms /\ A \ {p} \in SUBSET LedgerPrograms
    BY Zenon DEF PlacedIn
  <2>2. /\ IsFiniteSet(A) /\ \A q \in A : TokensIn(r)[q] \in Int
        /\ SumFunctionOnSet(TokensIn(r), A \ {p}) \in Int
    BY <2>1, TokensAreInt, Zenon
  <2>3. CASE p \in A
    <3>1. SumFunctionOnSet(TokensIn(r), A) = TokensIn(r)[p] + SumFunctionOnSet(TokensIn(r), A \ {p})
      BY <2>2, <2>3, SumWithout, Zenon
    <3>2. TokensIn(r)[p] = Share(r[p], t) /\ Share(r[p], t) \in Int
      BY <2>3 DEF TokensIn, PlacedIn, Share, Member
    <3> QED
      BY <2>2, <3>1, <3>2 DEF HeldIn
  <2>4. CASE p \notin A
    <3>1. A \ {p} = A /\ Share(r[p], t) = 0
      BY <2>4, Zenon DEF PlacedIn, Share
    <3>2. PICK n : n = SumFunctionOnSet(TokensIn(r), A \ {p})
      BY Zenon
    <3>3. HeldIn(r, t) = n /\ n \in Int
      BY <2>2, <3>1, <3>2, Zenon DEF HeldIn
    <3> QED
      BY <3>1, <3>2, <3>3
  <2> QED
    BY <2>3, <2>4, Zenon
<1>4. SumFunctionOnSet(TokensIn(qr), Rest) = SumFunctionOnSet(TokensIn(pr), Rest)
      /\ SumFunctionOnSet(TokensIn(pr), Rest) \in Int
  <2>1. IsFiniteSet(Rest) /\ \A q \in Rest : TokensIn(pr)[q] \in Int
    BY <1>1, TokensAreInt, Zenon
  <2>2. \A q \in Rest : TokensIn(qr)[q] = TokensIn(pr)[q]
    BY <1>1, Zenon DEF TokensIn
  <2> HIDE DEF Rest
  <2> QED
    BY <2>1, <2>2, SumOfSame, Zenon
<1>5. Share(pr[p], t) \in Int /\ Share(qr[p], t) \in Int
  BY DEF Share, Member
<1>6. HeldIn(qr, t) = SumFunctionOnSet(TokensIn(qr), Rest) + Share(qr[p], t)
      /\ HeldIn(pr, t) = SumFunctionOnSet(TokensIn(pr), Rest) + Share(pr[p], t)
  BY <1>2, <1>3, Zenon
<1> HIDE DEF Rest
<1> QED
  BY <1>4, <1>5, <1>6

-----------------------------------------------------------------------------
(* The entry of a target that has one observation.                          *)
LEMMA EntryIs ==
  ASSUME NEW t, NEW o, obs[t] = {o}
  PROVE  Entry(t) = o
BY Zenon DEF Entry

(* What every step of a program that keeps the snapshot has to show.        *)
Accounts(p, t, n) ==
  /\ \A u \in LedgerTargets : /\ ghost'[u].mark = ghost[u].mark /\ ghost'[u].since = ghost[u].since
                              /\ ghost'[u].seen = ghost[u].seen
  /\ \A u \in LedgerTargets :
       ghost'[u].log + ghost'[u].left = ghost[u].log + ghost[u].left + (IF u = t THEN n ELSE 0)

(* adjust_usage on a known target keeps the entry exact and accounts for n. *)
LEMMA AdjustedAccounts ==
  ASSUME LedgerTypes, EntriesExact, NEW t \in known.ids, NEW n \in Int, Adjusted(t, n),
         UNCHANGED known, NEW p
  PROVE  /\ obs' \in [LedgerTargets -> SUBSET Observation]
         /\ ghost' \in [LedgerTargets -> Life]
         /\ EntriesExact'
         /\ Accounts(p, t, n)
<1>1. t \in LedgerTargets /\ ghost[t] \in Life
  BY Zenon DEF LedgerTypes
<1>2. PICK o \in Observation : obs[t] = {o} /\ o.delta = ghost[t].log - ghost[t].mark
  BY <1>1, Zenon DEF EntriesExact
<1>3. PICK x : x = [o EXCEPT !.delta = @ + n]
  BY Zenon
<1>4. x \in Observation /\ x.delta = o.delta + n
  BY <1>3 DEF Observation
<1>5. obs' = [obs EXCEPT ![t] = {x}]
  BY <1>2, <1>3, EntryIs, Zenon DEF Adjusted
<1>6. obs' \in [LedgerTargets -> SUBSET Observation]
  BY <1>4, <1>5, Zenon DEF LedgerTypes
<1>7. PICK g : g = [ghost[t] EXCEPT !.log = @ + n]
  BY Zenon
<1>8. /\ g \in Life /\ g.log = ghost[t].log + n /\ g.mark = ghost[t].mark
      /\ g.left = ghost[t].left /\ g.since = ghost[t].since /\ g.seen = ghost[t].seen
  BY <1>1, <1>7 DEF Life
<1>9. ghost' = [ghost EXCEPT ![t] = g]
  BY <1>7, Zenon DEF Adjusted
<1>10. ghost' \in [LedgerTargets -> Life]
  BY <1>8, <1>9, Zenon DEF LedgerTypes
<1>11. \A u \in LedgerTargets : ghost'[u] = IF u = t THEN g ELSE ghost[u]
  BY <1>9, Zenon DEF LedgerTypes
<1>12. \A u \in LedgerTargets : ghost[u].log \in Int /\ ghost[u].mark \in Int /\ ghost[u].left \in Int
  BY Zenon DEF LedgerTypes, Life
<1>13. EntriesExact'
  <2> SUFFICES ASSUME NEW u \in LedgerTargets
               PROVE  IF u \in known.ids
                      THEN \E y \in Observation : obs'[u] = {y} /\ y.delta = ghost'[u].log - ghost'[u].mark
                      ELSE obs'[u] = {}
    BY Zenon DEF EntriesExact
  <2>1. CASE u = t
    <3>1. obs'[u] = {x} /\ ghost'[u] = g
      BY <1>1, <1>5, <1>11, <2>1, Zenon DEF LedgerTypes
    <3>2. x.delta = g.log - g.mark
      BY <1>2, <1>4, <1>8, <1>12, <1>1
    <3> QED
      BY <1>4, <3>1, <3>2, <2>1, Zenon
  <2>2. CASE u # t
    <3>1. obs'[u] = obs[u] /\ ghost'[u] = ghost[u]
      BY <1>5, <1>11, <2>2, Zenon DEF LedgerTypes
    <3> QED
      BY <3>1, Zenon DEF EntriesExact
  <2> QED
    BY <2>1, <2>2, Zenon
<1>14. Accounts(p, t, n)
  <2> SUFFICES ASSUME NEW u \in LedgerTargets
               PROVE  /\ ghost'[u].mark = ghost[u].mark /\ ghost'[u].since = ghost[u].since
                      /\ ghost'[u].seen = ghost[u].seen
                      /\ ghost'[u].log + ghost'[u].left
                           = ghost[u].log + ghost[u].left + (IF u = t THEN n ELSE 0)
    BY Zenon DEF Accounts
  <2>1. CASE u = t
    BY <1>8, <1>11, <1>12, <2>1
  <2>2. CASE u # t
    BY <1>11, <1>12, <2>2
  <2> QED
    BY <2>1, <2>2, Zenon
<1> QED
  BY <1>6, <1>10, <1>13, <1>14, Zenon

(* A step that replaces one program by r, and accounts for it on t.         *)
LEMMA MemberSteps ==
  ASSUME LedgerInvariant, NEW p \in LedgerPrograms, NEW r \in Member, Seated(r),
         prog' = [prog EXCEPT ![p] = r], UNCHANGED <<known, epoch>>,
         obs' \in [LedgerTargets -> SUBSET Observation], ghost' \in [LedgerTargets -> Life],
         EntriesExact', NEW t, NEW n \in Int, Accounts(p, t, n),
         \A u \in known.ids : Share(r, u) - Share(prog[p], u) = IF u = t THEN n ELSE 0
  PROVE  LedgerInvariant'
<1> USE DEF LedgerInvariant
<1>1. prog' \in [LedgerPrograms -> Member] /\ prog'[p] = r
      /\ \A q \in LedgerPrograms \ {p} : prog'[q] = prog[q]
  BY Zenon DEF LedgerTypes
<1>2. LedgerTypes'
  BY <1>1, Zenon DEF LedgerTypes
<1>3. AllSeated'
  <2> SUFFICES ASSUME NEW q \in LedgerPrograms PROVE Seated(prog[q])'
    BY Zenon DEF AllSeated
  <2>1. Seated(prog'[q])
    <3>1. CASE q = p
      BY <1>1, <3>1, Zenon
    <3>2. CASE q # p
      BY <1>1, <3>2, Zenon DEF AllSeated
    <3> QED
      BY <3>1, <3>2, Zenon
  <2> QED
    BY <2>1, Zenon DEF Seated
<1>4. known.ids \subseteq LedgerTargets
  BY Zenon DEF LedgerTypes
<1>5. EpochsFit'
  <2> SUFFICES ASSUME NEW e \in epoch PROVE EpochFits(e)'
    BY Zenon DEF EpochsFit
  <2>1. EpochFits(e)
    BY Zenon DEF EpochsFit
  <2>2. \A u \in known.ids : ghost'[u].mark = ghost[u].mark
    BY <1>4, Zenon DEF Accounts
  <2> QED
    BY <2>1, <2>2, Zenon DEF EpochFits
<1>6. LivesOrdered'
  <2>1. \A u \in known.ids : ghost'[u].since = ghost[u].since /\ ghost'[u].seen = ghost[u].seen
    BY <1>4, Zenon DEF Accounts
  <2> QED
    BY <2>1, Zenon DEF LivesOrdered
<1>7. Balanced'
  <2> SUFFICES ASSUME NEW u \in known.ids PROVE ghost'[u].log + ghost'[u].left = HeldIn(prog', u)
    BY Zenon DEF Balanced, HeldIn, TokensIn, PlacedIn
  <2>1. HeldIn(prog', u) = HeldIn(prog, u) + Share(r, u) - Share(prog[p], u)
    <3>1. PICK qr : qr = prog'
      BY Zenon
    <3>2. /\ qr \in [LedgerPrograms -> Member] /\ qr[p] = r /\ prog \in [LedgerPrograms -> Member]
          /\ \A q \in LedgerPrograms \ {p} : qr[q] = prog[q]
      BY <1>1, <3>1, Zenon DEF LedgerTypes
    <3>3. HeldIn(qr, u) = HeldIn(prog, u) + Share(qr[p], u) - Share(prog[p], u)
      BY <3>2, HeldMoves, Zenon
    <3> QED
      BY <3>1, <3>2, <3>3, Zenon
  <2>2. Share(r, u) \in Int /\ Share(prog[p], u) \in Int
    BY DEF Share, Member, LedgerTypes
  <2>3. ghost[u].log + ghost[u].left = HeldIn(prog, u)
    BY Zenon DEF Balanced
  <2>4. ghost[u].log \in Int /\ ghost[u].left \in Int
    BY <1>4, Zenon DEF LedgerTypes, Life
  <2>5. ghost'[u].log + ghost'[u].left = ghost[u].log + ghost[u].left + (IF u = t THEN n ELSE 0)
    BY <1>4, Zenon DEF Accounts
  <2>6. Share(r, u) - Share(prog[p], u) = IF u = t THEN n ELSE 0
    BY Zenon
  <2> QED
    BY <2>1, <2>2, <2>3, <2>4, <2>5, <2>6, Zenon
<1> QED
  BY <1>2, <1>3, <1>5, <1>6, <1>7, Zenon

(* The same for a step that leaves ledger and observations alone.           *)
LEMMA QuietSteps ==
  ASSUME LedgerInvariant, NEW p \in LedgerPrograms, NEW r \in Member, Seated(r),
         prog' = [prog EXCEPT ![p] = r], UNCHANGED <<known, epoch, obs, ghost>>,
         \A u \in known.ids : Share(r, u) = Share(prog[p], u)
  PROVE  LedgerInvariant'
<1>1. obs' \in [LedgerTargets -> SUBSET Observation] /\ ghost' \in [LedgerTargets -> Life]
  BY Zenon DEF LedgerInvariant, LedgerTypes
<1>2. EntriesExact'
  BY Zenon DEF LedgerInvariant, EntriesExact
<1>3. \A u \in LedgerTargets : ghost[u].log \in Int /\ ghost[u].left \in Int
  BY Zenon DEF LedgerInvariant, LedgerTypes, Life
<1>n. PICK n \in Int : n = 0
  OBVIOUS
<1>4. Accounts(p, Nowhere, n)
  BY <1>3, <1>n DEF Accounts
<1>5. \A u \in known.ids : Share(r, u) - Share(prog[p], u) = IF u = Nowhere THEN n ELSE 0
  <2> SUFFICES ASSUME NEW u \in known.ids PROVE Share(r, u) - Share(prog[p], u) = 0
    BY <1>n, Zenon
  <2>1. Share(r, u) \in Int
    BY DEF Share, Member
  <2> QED
    BY <2>1
<1> HIDE <1>n
<1> QED
  BY <1>1, <1>2, <1>4, <1>5, MemberSteps, Zenon

-----------------------------------------------------------------------------
(* The fields of a program record.                                          *)
LEMMA MemberFields ==
  ASSUME LedgerInvariant, NEW p \in LedgerPrograms
  PROVE  /\ prog[p] \in Member /\ Seated(prog[p])
         /\ prog[p].tokens \in Nat /\ prog[p].busy \in Nat /\ prog[p].queued \in Nat
         /\ prog[p].state = "active" => prog[p].at \in known.ids /\ prog[p].at \in LedgerTargets
  <1>1. prog[p] \in Member /\ Seated(prog[p])
    BY Zenon DEF LedgerInvariant, LedgerTypes, AllSeated
  <1>2. known.ids \subseteq LedgerTargets
    BY Zenon DEF LedgerInvariant, LedgerTypes
  <1> QED
    BY <1>1, <1>2, Zenon DEF Member, Seated

(* What an active program gives back when it leaves its target.             *)
LEMMA Leaves ==
  ASSUME LedgerInvariant, NEW p \in LedgerPrograms, NEW r \in Member, Seated(r),
         prog' = [prog EXCEPT ![p] = r], UNCHANGED <<known, epoch>>,
         prog[p].state = "active", r.state # "active", Adjusted(prog[p].at, - prog[p].tokens)
  PROVE  LedgerInvariant'
<1>1. prog[p].tokens \in Nat /\ - prog[p].tokens \in Int /\ prog[p].at \in known.ids
  BY MemberFields
<1>2. PICK n \in Int : n = - prog[p].tokens
  BY <1>1, Zenon
<1>3. /\ obs' \in [LedgerTargets -> SUBSET Observation] /\ ghost' \in [LedgerTargets -> Life]
      /\ EntriesExact' /\ Accounts(p, prog[p].at, n)
  BY <1>1, <1>2, AdjustedAccounts, Zenon DEF LedgerInvariant
<1>4. \A u \in known.ids : Share(r, u) - Share(prog[p], u) = IF u = prog[p].at THEN n ELSE 0
  BY <1>1, <1>2 DEF Share
<1> QED
  BY <1>3, <1>4, MemberSteps, Zenon

(* What an active program that stays accounts for.                          *)
LEMMA Stays ==
  ASSUME LedgerInvariant, NEW p \in LedgerPrograms, NEW r \in Member, Seated(r),
         prog' = [prog EXCEPT ![p] = r], UNCHANGED <<known, epoch>>,
         prog[p].state = "active", r.state = "active", r.at = prog[p].at,
         Adjusted(prog[p].at, r.tokens - prog[p].tokens)
  PROVE  LedgerInvariant'
<1>1. prog[p].tokens \in Nat /\ r.tokens \in Nat /\ prog[p].at \in known.ids
  BY MemberFields, Zenon DEF Member
<1>2. PICK n \in Int : n = r.tokens - prog[p].tokens
  BY <1>1
<1>3. /\ obs' \in [LedgerTargets -> SUBSET Observation] /\ ghost' \in [LedgerTargets -> Life]
      /\ EntriesExact' /\ Accounts(p, prog[p].at, n)
  BY <1>1, <1>2, AdjustedAccounts, Zenon DEF LedgerInvariant
<1>4. \A u \in known.ids : Share(r, u) - Share(prog[p], u) = IF u = prog[p].at THEN n ELSE 0
  BY <1>1, <1>2 DEF Share
<1> QED
  BY <1>3, <1>4, MemberSteps, Zenon

(* A change that an arrival leaves out is kept beside the ledger.           *)
LEMMA LeftOut ==
  ASSUME LedgerInvariant, NEW t \in known.ids, NEW n \in Int, UNCHANGED <<known, obs>>, NEW p,
         ghost' = [ghost EXCEPT ![t].left = @ + n]
  PROVE  ghost' \in [LedgerTargets -> Life] /\ EntriesExact' /\ Accounts(p, t, n)
<1>1. t \in LedgerTargets /\ ghost \in [LedgerTargets -> Life]
  BY Zenon DEF LedgerInvariant, LedgerTypes
<1>2. PICK g : g = [ghost[t] EXCEPT !.left = @ + n]
  BY Zenon
<1>3. /\ g \in Life /\ g.log = ghost[t].log /\ g.mark = ghost[t].mark
      /\ g.left = ghost[t].left + n /\ g.since = ghost[t].since /\ g.seen = ghost[t].seen
  BY <1>1, <1>2 DEF Life
<1>4. ghost' = [ghost EXCEPT ![t] = g]
  BY <1>2, Zenon
<1>5. ghost' \in [LedgerTargets -> Life] /\ \A u \in LedgerTargets : ghost'[u] = IF u = t THEN g ELSE ghost[u]
  BY <1>1, <1>3, <1>4, Zenon
<1>6. \A u \in LedgerTargets : ghost[u].log \in Int /\ ghost[u].left \in Int
  BY <1>1, Zenon DEF Life
<1>7. EntriesExact'
  <2>1. EntriesExact
    BY Zenon DEF LedgerInvariant
  <2>2. \A u \in LedgerTargets : ghost'[u].log = ghost[u].log /\ ghost'[u].mark = ghost[u].mark
    BY <1>3, <1>5, Zenon
  <2> QED
    BY <2>1, <2>2, Zenon DEF EntriesExact
<1>8. Accounts(p, t, n)
  <2> SUFFICES ASSUME NEW u \in LedgerTargets
               PROVE  /\ ghost'[u].mark = ghost[u].mark /\ ghost'[u].since = ghost[u].since
                      /\ ghost'[u].seen = ghost[u].seen
                      /\ ghost'[u].log + ghost'[u].left
                           = ghost[u].log + ghost[u].left + (IF u = t THEN n ELSE 0)
    BY Zenon DEF Accounts
  <2>1. CASE u = t
    BY <1>3, <1>5, <1>6, <2>1
  <2>2. CASE u # t
    BY <1>5, <1>6, <2>2
  <2> QED
    BY <2>1, <2>2, Zenon
<1> QED
  BY <1>5, <1>7, <1>8, Zenon

(* A request arrives: growth is adjusted, everything else is left out and   *)
(* kept in the ghost.                                                       *)
LEMMA StepArrive ==
  ASSUME LedgerInvariant, NEW p \in LedgerPrograms, NEW n \in LedgerTokens[p], LedgerArrive(p, n)
  PROVE  LedgerInvariant'
<1>1. n \in Nat
  BY LedgerAssumption, Zenon
<1>2. /\ prog[p] \in Member /\ Seated(prog[p]) /\ prog[p].tokens \in Nat
      /\ prog[p].state = "active" => prog[p].at \in known.ids /\ prog[p].at \in LedgerTargets
  BY MemberFields, Zenon
<1>3. PICK r : r = [prog[p] EXCEPT !.queued = 1, !.tokens = n,
                                   !.state = IF @ = "gone" THEN "paused" ELSE @]
  BY Zenon
<1>4. /\ r \in Member /\ r.tokens = n /\ r.at = prog[p].at /\ r.busy = prog[p].busy
      /\ (r.state = "active") <=> (prog[p].state = "active")
  BY <1>1, <1>2, <1>3, Zenon DEF Member
<1>5. prog' = [prog EXCEPT ![p] = r] /\ UNCHANGED <<known, epoch>>
  BY <1>3, Zenon DEF LedgerArrive
<1>6. Seated(r)
  BY <1>2, <1>4, Zenon DEF Seated
<1>7. CASE prog[p].state = "active" /\ AccountGrowth(prog[p], n) /\ Adjusted(prog[p].at, n - prog[p].tokens)
  BY <1>4, <1>5, <1>6, <1>7, Stays, Zenon
<1>8. CASE /\ prog[p].state = "active" /\ UNCHANGED obs
           /\ ghost' = [ghost EXCEPT ![prog[p].at].left = @ + (n - prog[p].tokens)]
  <2>1. PICK m \in Int : m = n - prog[p].tokens
    BY <1>1, <1>2
  <2>2. PICK t \in known.ids : t = prog[p].at
    BY <1>2, <1>8, Zenon
  <2>3. ghost' \in [LedgerTargets -> Life] /\ EntriesExact' /\ Accounts(p, t, m)
    BY <1>5, <1>8, <2>1, <2>2, LeftOut, Zenon
  <2>4. obs' \in [LedgerTargets -> SUBSET Observation]
    BY <1>8, Zenon DEF LedgerInvariant, LedgerTypes
  <2>5. \A u \in known.ids : Share(r, u) - Share(prog[p], u) = IF u = t THEN m ELSE 0
    BY <1>1, <1>2, <1>4, <1>8, <2>1, <2>2 DEF Share
  <2> QED
    BY <1>4, <1>5, <1>6, <2>3, <2>4, <2>5, MemberSteps, Zenon
<1>9. CASE prog[p].state # "active" /\ Unadjusted
  <2>1. \A u \in known.ids : Share(r, u) = Share(prog[p], u)
    BY <1>4, <1>9, Zenon DEF Share
  <2> QED
    BY <1>4, <1>5, <1>6, <1>9, <2>1, QuietSteps, Zenon DEF Unadjusted
<1> QED
  BY <1>7, <1>8, <1>9, Zenon DEF LedgerArrive

(* commit_admission adds the tokens of the program to its new target.       *)
LEMMA StepAdmit ==
  ASSUME LedgerInvariant, NEW p \in LedgerPrograms, NEW t \in LedgerTargets, LedgerAdmit(p, t)
  PROVE  LedgerInvariant'
<1>1. prog[p] \in Member /\ Seated(prog[p]) /\ prog[p].tokens \in Nat
  BY MemberFields, Zenon
<1>2. PICK r : r = [prog[p] EXCEPT !.state = "active", !.at = t, !.pauseWhenIdle = FALSE]
  BY Zenon
<1>3. r \in Member /\ r.state = "active" /\ r.at = t /\ r.tokens = prog[p].tokens
  BY <1>1, <1>2, Zenon DEF Member
<1>4. prog' = [prog EXCEPT ![p] = r] /\ UNCHANGED <<known, epoch>> /\ t \in known.ids
      /\ prog[p].state = "paused" /\ Adjusted(t, prog[p].tokens)
  BY <1>2, Zenon DEF LedgerAdmit
<1>5. Seated(r)
  BY <1>3, <1>4, Zenon DEF Seated
<1>6. PICK n \in Int : n = prog[p].tokens
  BY <1>1
<1>7. /\ obs' \in [LedgerTargets -> SUBSET Observation] /\ ghost' \in [LedgerTargets -> Life]
      /\ EntriesExact' /\ Accounts(p, t, n)
  BY <1>4, <1>6, AdjustedAccounts, Zenon DEF LedgerInvariant
<1>8. \A u \in known.ids : Share(r, u) - Share(prog[p], u) = IF u = t THEN n ELSE 0
  BY <1>3, <1>4, <1>6 DEF Share
<1> QED
  BY <1>3, <1>4, <1>5, <1>7, <1>8, MemberSteps, Zenon

(* A dispatch and a deferred pause change no tokens and no placement.       *)
LEMMA StepQuiet ==
  ASSUME LedgerInvariant, NEW p \in LedgerPrograms, LedgerDispatch(p) \/ LedgerDefer(p)
  PROVE  LedgerInvariant'
<1>1. /\ prog[p] \in Member /\ Seated(prog[p]) /\ prog[p].queued \in Nat /\ prog[p].busy \in Nat
  BY MemberFields, Zenon
<1>2. PICK r : r = IF LedgerDispatch(p) THEN [prog[p] EXCEPT !.queued = @ - 1, !.busy = @ + 1]
                   ELSE [prog[p] EXCEPT !.pauseWhenIdle = TRUE]
  BY Zenon
<1>3. /\ r \in Member /\ r.state = prog[p].state /\ r.at = prog[p].at /\ r.tokens = prog[p].tokens
      /\ r.busy = prog[p].busy \/ r.state = "active"
  <2>1. CASE LedgerDispatch(p)
    <3>1. prog[p].queued - 1 \in Nat /\ prog[p].busy + 1 \in Nat /\ prog[p].state = "active"
      BY <1>1, <2>1 DEF LedgerDispatch
    <3> QED
      BY <1>1, <1>2, <2>1, <3>1, Zenon DEF Member
  <2>2. CASE ~LedgerDispatch(p)
    BY <1>1, <1>2, <2>2, Zenon DEF Member
  <2> QED
    BY <2>1, <2>2, Zenon
<1>4. prog' = [prog EXCEPT ![p] = r] /\ UNCHANGED <<known, epoch, obs, ghost>>
  BY <1>2, Zenon DEF LedgerDispatch, LedgerDefer, Unadjusted
<1>5. Seated(r)
  BY <1>1, <1>3, Zenon DEF Seated
<1>6. \A u \in known.ids : Share(r, u) = Share(prog[p], u)
  BY <1>3, Zenon DEF Share
<1> QED
  BY <1>3, <1>4, <1>5, <1>6, QuietSteps, Zenon

(* A paused program has no target.                                          *)
LEMMA PausedFields ==
  ASSUME NEW r \in Member, r.busy = 0
  PROVE  /\ Paused(r) \in Member /\ Seated(Paused(r))
         /\ Paused(r).state = "paused" /\ Paused(r).busy = 0 /\ Paused(r).at = Nowhere
BY Zenon DEF Paused, Member, Seated

(* A released program holds nothing.                                        *)
LEMMA GoneFields == Gone \in Member /\ Seated(Gone) /\ Gone.state = "gone"
BY Zenon DEF Gone, Member, Seated

(* cancel_retained_request gives back what an idle active program holds.    *)
LEMMA StepCancel ==
  ASSUME LedgerInvariant, NEW p \in LedgerPrograms, LedgerCancel(p)
  PROVE  LedgerInvariant'
<1>1. prog[p] \in Member /\ Seated(prog[p])
  BY MemberFields, Zenon
<1>2. UNCHANGED <<known, epoch>>
  BY Zenon DEF LedgerCancel
<1>3. CASE prog[p].state = "active" /\ prog[p].busy = 0
  <2>1. Paused(prog[p]) \in Member /\ Paused(prog[p]).state = "paused"
        /\ Paused(prog[p]).busy = 0 /\ Paused(prog[p]).at = Nowhere
    BY <1>1, <1>3, PausedFields, Zenon
  <2>2. PICK r : r = [Paused(prog[p]) EXCEPT !.queued = 0]
    BY Zenon
  <2>3. r \in Member /\ r.state = "paused" /\ r.busy = 0 /\ r.at = Nowhere
    BY <2>1, <2>2, Zenon DEF Member
  <2>4. Seated(r)
    BY <2>3, Zenon DEF Seated
  <2>5. prog' = [prog EXCEPT ![p] = r] /\ Adjusted(prog[p].at, - prog[p].tokens)
    BY <1>3, <2>2, Zenon DEF LedgerCancel
  <2> QED
    BY <1>2, <1>3, <2>3, <2>4, <2>5, Leaves, Zenon
<1>4. CASE ~(prog[p].state = "active" /\ prog[p].busy = 0)
  <2>1. PICK r : r = [prog[p] EXCEPT !.queued = 0]
    BY Zenon
  <2>2. r \in Member /\ r.state = prog[p].state /\ r.at = prog[p].at /\ r.tokens = prog[p].tokens
        /\ r.busy = prog[p].busy
    BY <1>1, <2>1, Zenon DEF Member
  <2>3. prog' = [prog EXCEPT ![p] = r] /\ UNCHANGED <<obs, ghost>>
    BY <1>4, <2>1, Zenon DEF LedgerCancel, Unadjusted
  <2>4. Seated(r) /\ \A u \in known.ids : Share(r, u) = Share(prog[p], u)
    BY <1>1, <2>2, Zenon DEF Seated, Share
  <2> QED
    BY <1>2, <2>2, <2>3, <2>4, QuietSteps, Zenon
<1> QED
  BY <1>3, <1>4, Zenon

(* complete accounts for the difference, and for everything when the        *)
(* program terminates or yields.                                            *)
LEMMA StepComplete ==
  ASSUME LedgerInvariant, NEW p \in LedgerPrograms, NEW n \in LedgerTokens[p], LedgerComplete(p, n)
  PROVE  LedgerInvariant'
<1>1. n \in Nat
  BY LedgerAssumption, Zenon
<1>2. /\ prog[p] \in Member /\ Seated(prog[p]) /\ prog[p].busy \in Nat /\ prog[p].busy > 0
      /\ UNCHANGED <<known, epoch>>
  BY MemberFields, Zenon DEF LedgerComplete
<1>3. prog[p].state = "active"
  BY <1>2 DEF Seated
<1>4. PICK r : r = [prog[p] EXCEPT !.busy = @ - 1, !.tokens = n,
                      !.pauseWhenIdle = @ /\ ~(prog[p].busy = 1 /\ prog[p].queued > 0)]
  BY Zenon
<1>5. r \in Member /\ r.tokens = n /\ r.state = "active" /\ r.at = prog[p].at
  <2>1. prog[p].busy - 1 \in Nat
    BY <1>2
  <2>2. (prog[p].pauseWhenIdle /\ ~(prog[p].busy = 1 /\ prog[p].queued > 0)) \in BOOLEAN
    BY Zenon
  <2> QED
    BY <1>1, <1>2, <1>3, <1>4, <2>1, <2>2, Zenon DEF Member
<1>6. Seated(r)
  BY <1>2, <1>3, <1>5, Zenon DEF Seated
<1>7. CASE prog' = [prog EXCEPT ![p] = r] /\ Adjusted(prog[p].at, n - prog[p].tokens)
  BY <1>2, <1>3, <1>5, <1>6, <1>7, Stays, Zenon
<1>8. CASE prog' = [prog EXCEPT ![p] = Gone] /\ Adjusted(prog[p].at, - prog[p].tokens)
  BY <1>2, <1>3, <1>8, GoneFields, Leaves, Zenon
<1>9. CASE r.busy = 0 /\ prog' = [prog EXCEPT ![p] = Paused(r)] /\ Adjusted(prog[p].at, - prog[p].tokens)
  <2>1. PICK q : q = Paused(r)
    BY Zenon
  <2>2. q \in Member /\ Seated(q) /\ q.state = "paused"
    BY <1>5, <1>9, <2>1, PausedFields, Zenon
  <2> QED
    BY <1>2, <1>3, <1>9, <2>1, <2>2, Leaves, Zenon
<1> QED
  BY <1>4, <1>7, <1>8, <1>9, Zenon DEF LedgerComplete

(* pause_idle gives back what the program holds.                            *)
LEMMA StepPause ==
  ASSUME LedgerInvariant, NEW p \in LedgerPrograms, LedgerPause(p)
  PROVE  LedgerInvariant'
<1>1. prog[p] \in Member /\ prog[p].state = "active" /\ prog[p].busy = 0 /\ UNCHANGED <<known, epoch>>
  BY MemberFields, Zenon DEF LedgerPause
<1>2. PICK r : r = Paused(prog[p])
  BY Zenon
<1>3. r \in Member /\ Seated(r) /\ r.state = "paused"
  BY <1>1, <1>2, PausedFields, Zenon
<1>4. prog' = [prog EXCEPT ![p] = r] /\ Adjusted(prog[p].at, - prog[p].tokens)
  BY <1>2, Zenon DEF LedgerPause
<1> QED
  BY <1>1, <1>3, <1>4, Leaves, Zenon

(* release_program gives back what an active program holds.                 *)
LEMMA StepRelease ==
  ASSUME LedgerInvariant, NEW p \in LedgerPrograms, LedgerRelease(p)
  PROVE  LedgerInvariant'
<1>1. prog[p] \in Member /\ UNCHANGED <<known, epoch>> /\ prog' = [prog EXCEPT ![p] = Gone]
  BY MemberFields, Zenon DEF LedgerRelease
<1>2. PICK r : r = Gone
  BY Zenon
<1>3. r \in Member /\ Seated(r) /\ r.state = "gone" /\ prog' = [prog EXCEPT ![p] = r]
  BY <1>1, <1>2, GoneFields, Zenon
<1>4. CASE prog[p].state = "active"
  <2>1. Adjusted(prog[p].at, - prog[p].tokens)
    BY <1>4, Zenon DEF LedgerRelease
  <2> QED
    BY <1>1, <1>3, <1>4, <2>1, Leaves, Zenon
<1>5. CASE prog[p].state # "active"
  <2>1. UNCHANGED <<obs, ghost>>
    BY <1>5, Zenon DEF LedgerRelease, Unadjusted
  <2>2. \A u \in known.ids : Share(r, u) = Share(prog[p], u)
    BY <1>3, <1>5, Zenon DEF Share
  <2> QED
    BY <1>1, <1>3, <2>1, <2>2, QuietSteps, Zenon
<1> QED
  BY <1>4, <1>5, Zenon

-----------------------------------------------------------------------------
(* The entry of a known target and its delta.                               *)
LEMMA EntryFields ==
  ASSUME LedgerInvariant, NEW t \in LedgerTargets
  PROVE  /\ Entry(t) \in Observation
         /\ t \in known.ids => obs[t] = {Entry(t)} /\ Entry(t).delta = ghost[t].log - ghost[t].mark
         /\ t \notin known.ids => obs[t] = {} /\ Entry(t) = NoObservation
<1>1. EntriesExact
  BY Zenon DEF LedgerInvariant
<1>2. CASE t \in known.ids
  <2>1. PICK o \in Observation : obs[t] = {o} /\ o.delta = ghost[t].log - ghost[t].mark
    BY <1>1, <1>2, Zenon DEF EntriesExact
  <2>2. Entry(t) = o
    BY <2>1, EntryIs, Zenon
  <2> QED
    BY <1>2, <2>1, <2>2, Zenon
<1>3. CASE t \notin known.ids
  <2>1. obs[t] = {}
    BY <1>1, <1>3, Zenon DEF EntriesExact
  <2>2. Entry(t) = NoObservation
    BY <2>1, Zenon DEF Entry
  <2>3. NoObservation \in Observation
    BY DEF NoObservation, Observation, Ages
  <2> QED
    BY <1>3, <2>1, <2>2, <2>3, Zenon
<1> QED
  BY <1>2, <1>3, Zenon

(* A new life of a target starts at zero.                                   *)
LEMMA NewLifeFields ==
  ASSUME NEW r \in Nat
  PROVE  /\ NewLife(r) \in Life /\ NewLife(r).log = 0 /\ NewLife(r).mark = 0
         /\ NewLife(r).left = 0 /\ NewLife(r).since = r /\ NewLife(r).seen = {}
BY DEF NewLife, Life

(* invalidate_placement leaves no program on a removed target.              *)
LEMMA InvalidatedFields ==
  ASSUME NEW r \in Member, NEW removed
  PROVE  /\ Invalidated(r, removed) \in Member
         /\ Invalidated(r, removed).tokens = r.tokens
         /\ IF r.state = "active" /\ r.at \in removed
            THEN /\ Invalidated(r, removed).state = "paused" /\ Invalidated(r, removed).busy = 0
                 /\ Invalidated(r, removed).at = Nowhere
            ELSE Invalidated(r, removed) = r
<1>1. CASE r.state = "active" /\ r.at \in removed
  <2>1. PICK q : q = [r EXCEPT !.state = "paused", !.at = Nowhere, !.pauseWhenIdle = FALSE]
    BY Zenon
  <2>2. q \in Member /\ q.state = "paused" /\ q.at = Nowhere /\ q.tokens = r.tokens
    BY <2>1, Zenon DEF Member
  <2>3. Invalidated(r, removed) = [q EXCEPT !.busy = 0]
    BY <1>1, <2>1, Zenon DEF Invalidated, Paused
  <2> QED
    BY <1>1, <2>2, <2>3 DEF Member
<1>2. CASE ~(r.state = "active" /\ r.at \in removed)
  BY <1>2, Zenon DEF Invalidated
<1> QED
  BY <1>1, <1>2, Zenon

(* sync_target_snapshot_locked drops the entries, the placements and the    *)
(* lives of the targets that went, and an epoch begun before it is of       *)
(* another revision.                                                        *)
LEMMA StepSync ==
  ASSUME LedgerInvariant, NEW T \in SUBSET LedgerTargets, LedgerSync(T)
  PROVE  LedgerInvariant'
<1> DEFINE removed == known.ids \ T
<1>1. known.ids \subseteq LedgerTargets /\ known.revision \in Nat
      /\ known' = [ids |-> T, revision |-> known.revision + 1]
  BY Zenon DEF LedgerInvariant, LedgerTypes, LedgerSync
<1>2. known'.ids = T /\ known'.revision = known.revision + 1 /\ known.revision + 1 \in Nat
  BY <1>1
<1>3. \A p \in LedgerPrograms : prog'[p] = Invalidated(prog[p], removed)
  BY Zenon DEF LedgerSync
<1>4. \A p \in LedgerPrograms : prog[p] \in Member /\ Seated(prog[p])
  BY MemberFields, Zenon
<1>5. prog' \in [LedgerPrograms -> Member]
  <2>1. \A p \in LedgerPrograms : Invalidated(prog[p], removed) \in Member
    BY <1>4, InvalidatedFields, Zenon
  <2> QED
    BY <2>1, Zenon DEF LedgerSync
<1>6. \A t \in LedgerTargets : /\ t \in T \cap known.ids => ghost'[t] = ghost[t]
                               /\ t \notin T \cap known.ids => ghost'[t] = NewLife(known.revision + 1)
  BY Zenon DEF LedgerSync
<1>7. ghost' \in [LedgerTargets -> Life]
  <2>1. \A t \in LedgerTargets : ghost[t] \in Life /\ NewLife(known.revision + 1) \in Life
    BY <1>2, NewLifeFields, Zenon DEF LedgerInvariant, LedgerTypes
  <2> QED
    BY <2>1, Zenon DEF LedgerSync
<1>8. \A t \in LedgerTargets : obs'[t] = IF t \in T THEN {Entry(t)} ELSE {}
  <2> SUFFICES ASSUME NEW t \in LedgerTargets PROVE obs'[t] = IF t \in T THEN {Entry(t)} ELSE {}
    BY Zenon
  <2>1. obs'[t] = IF t \in removed THEN {} ELSE IF t \in T THEN {Entry(t)} ELSE obs[t]
    BY Zenon DEF LedgerSync
  <2>2. t \notin known.ids => obs[t] = {}
    BY EntryFields, Zenon
  <2> QED
    BY <2>1, <2>2, Zenon
<1>9. \A t \in LedgerTargets : Entry(t) \in Observation
  BY EntryFields, Zenon
<1>10. obs' \in [LedgerTargets -> SUBSET Observation]
  <2>1. obs' = [t \in LedgerTargets |-> obs'[t]]
    BY Zenon DEF LedgerSync
  <2>2. \A t \in LedgerTargets : obs'[t] \in SUBSET Observation
    BY <1>8, <1>9, Zenon
  <2> QED
    BY <2>1, <2>2, Zenon
<1>11. LedgerTypes'
  <2>1. epoch' = epoch /\ epoch \in SUBSET Epoch
    BY Zenon DEF LedgerSync, LedgerInvariant, LedgerTypes
  <2> QED
    BY <1>1, <1>2, <1>5, <1>7, <1>10, <2>1, Zenon DEF LedgerTypes
<1>12. EntriesExact'
  <2> SUFFICES ASSUME NEW t \in LedgerTargets
               PROVE  IF t \in T
                      THEN \E o \in Observation : obs'[t] = {o} /\ o.delta = ghost'[t].log - ghost'[t].mark
                      ELSE obs'[t] = {}
    BY <1>2, Zenon DEF EntriesExact
  <2>1. CASE t \in T /\ t \in known.ids
    <3>1. Entry(t).delta = ghost[t].log - ghost[t].mark
      BY <2>1, EntryFields, Zenon
    <3> QED
      BY <1>6, <1>8, <1>9, <2>1, <3>1, Zenon
  <2>2. CASE t \in T /\ t \notin known.ids
    <3>1. Entry(t) = NoObservation
      BY <2>2, EntryFields, Zenon
    <3>2. ghost'[t].log = 0 /\ ghost'[t].mark = 0
      BY <1>2, <1>6, <2>2, NewLifeFields
    <3>3. Entry(t).delta = ghost'[t].log - ghost'[t].mark
      BY <3>1, <3>2 DEF NoObservation
    <3> QED
      BY <1>8, <1>9, <2>2, <3>3, Zenon
  <2>3. CASE t \notin T
    BY <1>8, <2>3, Zenon
  <2> QED
    BY <2>1, <2>2, <2>3, Zenon
<1>13. AllSeated'
  <2> SUFFICES ASSUME NEW p \in LedgerPrograms PROVE Seated(prog[p])'
    BY Zenon DEF AllSeated
  <2>1. CASE prog[p].state = "active" /\ prog[p].at \in removed
    <3>1. prog'[p].state = "paused" /\ prog'[p].busy = 0 /\ prog'[p].at = Nowhere
      BY <1>3, <1>4, <2>1, InvalidatedFields
    <3> QED
      BY <3>1, Zenon DEF Seated
  <2>2. CASE ~(prog[p].state = "active" /\ prog[p].at \in removed)
    <3>1. prog'[p] = prog[p]
      BY <1>3, <1>4, <2>2, InvalidatedFields
    <3> QED
      BY <1>2, <1>4, <2>2, <3>1, Zenon DEF Seated
  <2> QED
    BY <2>1, <2>2, Zenon
<1>14. EpochsFit'
  <2> SUFFICES ASSUME NEW e \in epoch PROVE EpochFits(e)'
    BY Zenon DEF EpochsFit, LedgerSync
  <2>1. e.revision \in Nat /\ e.revision <= known.revision
    BY Zenon DEF LedgerInvariant, LedgerTypes, Epoch, EpochsFit, EpochFits
  <2>2. e.revision <= known'.revision /\ e.revision # known'.revision
    BY <1>1, <1>2, <2>1
  <2> QED
    BY <2>2, Zenon DEF EpochFits
<1>15. LivesOrdered'
  <2> SUFFICES ASSUME NEW t \in T
               PROVE  ghost'[t].since <= known'.revision /\ \A r \in ghost'[t].seen : r >= ghost'[t].since
    BY <1>2, Zenon DEF LivesOrdered
  <2>1. CASE t \in known.ids
    <3>1. ghost[t].since <= known.revision /\ (\A r \in ghost[t].seen : r >= ghost[t].since)
          /\ ghost[t].since \in Nat
      BY <2>1, Zenon DEF LedgerInvariant, LivesOrdered, LedgerTypes, Life
    <3>2. ghost'[t] = ghost[t]
      BY <1>6, <2>1, Zenon
    <3> QED
      BY <1>1, <1>2, <3>1, <3>2
  <2>2. CASE t \notin known.ids
    <3>1. ghost'[t].since = known.revision + 1 /\ ghost'[t].seen = {}
      BY <1>2, <1>6, <2>2, NewLifeFields, Zenon
    <3> QED
      BY <1>2, <3>1
  <2> QED
    BY <2>1, <2>2, Zenon
<1>16. Balanced'
  <2> SUFFICES ASSUME NEW t \in T PROVE ghost'[t].log + ghost'[t].left = HeldIn(prog', t)
    BY <1>2, Zenon DEF Balanced, HeldIn, TokensIn, PlacedIn
  <2>1. TokensIn(prog') = TokensIn(prog)
    <3>1. \A p \in LedgerPrograms : prog'[p].tokens = prog[p].tokens
      BY <1>3, <1>4, InvalidatedFields
    <3> QED
      BY <3>1, Zenon DEF TokensIn
  <2>2. CASE t \in known.ids
    <3>1. PlacedIn(prog', t) = PlacedIn(prog, t)
      <4>1. \A p \in LedgerPrograms : (prog'[p].state = "active" /\ prog'[p].at = t)
                                        <=> (prog[p].state = "active" /\ prog[p].at = t)
        <5> SUFFICES ASSUME NEW p \in LedgerPrograms
                     PROVE  (prog'[p].state = "active" /\ prog'[p].at = t)
                              <=> (prog[p].state = "active" /\ prog[p].at = t)
          BY Zenon
        <5>1. IF prog[p].state = "active" /\ prog[p].at \in removed
              THEN prog'[p].state = "paused" ELSE prog'[p] = prog[p]
          BY <1>3, <1>4, InvalidatedFields
        <5> QED
          BY <5>1, Zenon
      <4> QED
        BY <4>1, Zenon DEF PlacedIn
    <3>2. ghost[t].log + ghost[t].left = HeldIn(prog, t)
      BY <2>2, Zenon DEF LedgerInvariant, Balanced
    <3> QED
      BY <1>6, <2>1, <2>2, <3>1, <3>2, Zenon DEF HeldIn
  <2>3. CASE t \notin known.ids
    <3>1. PlacedIn(prog', t) = {}
      <4>1. ASSUME NEW p \in LedgerPrograms, prog'[p].state = "active", prog'[p].at = t PROVE FALSE
        <5>1. prog'[p] = prog[p]
          BY <1>3, <1>4, <4>1, InvalidatedFields
        <5> QED
          BY <1>4, <2>3, <4>1, <5>1, Zenon DEF Seated
      <4> QED
        BY <4>1, Zenon DEF PlacedIn
    <3>2. HeldIn(prog', t) = 0
      BY <3>1, SumOfNone, Zenon DEF HeldIn
    <3>3. ghost'[t].log = 0 /\ ghost'[t].left = 0
      BY <1>2, <1>6, <2>3, NewLifeFields
    <3> QED
      BY <3>2, <3>3
  <2> QED
    BY <2>2, <2>3, Zenon
<1> QED
  BY <1>11, <1>12, <1>13, <1>14, <1>15, <1>16, Zenon DEF LedgerInvariant

-----------------------------------------------------------------------------
(* begin_observation records the delta and the adjustments of the same      *)
(* moment.                                                                  *)
LEMMA StepBegin ==
  ASSUME LedgerInvariant, BeginObservation
  PROVE  LedgerInvariant'
<1>1. UNCHANGED <<known, obs, prog, ghost>>
  BY Zenon DEF BeginObservation
<1>2. known.ids \subseteq LedgerTargets /\ known.ids \in SUBSET LedgerTargets /\ known.revision \in Nat
      /\ prog \in [LedgerPrograms -> Member] /\ ghost \in [LedgerTargets -> Life]
  BY Zenon DEF LedgerInvariant, LedgerTypes
<1>3. PICK e : e = [revision |-> known.revision, ids |-> known.ids,
                    at |-> [t \in LedgerTargets |-> Checkpoint(t)]]
  BY Zenon
<1>4. epoch' = {e} /\ e.revision = known.revision /\ e.ids = known.ids
      /\ \A t \in LedgerTargets : e.at[t] = Checkpoint(t)
  BY <1>3, Zenon DEF BeginObservation
<1>5. \A t \in LedgerTargets : /\ Checkpoint(t) \in Check
                               /\ Checkpoint(t).ledger = Entry(t).delta
                               /\ Checkpoint(t).log = ghost[t].log
  <2> SUFFICES ASSUME NEW t \in LedgerTargets
               PROVE  /\ Checkpoint(t) \in Check
                      /\ Checkpoint(t).ledger = Entry(t).delta
                      /\ Checkpoint(t).log = ghost[t].log
    BY Zenon
  <2> DEFINE busy == {p \in Placed(t) : Reasoning(p)}
             rest == Placed(t) \ busy
  <2>1. busy \in SUBSET LedgerPrograms /\ rest \in SUBSET LedgerPrograms
    BY Zenon DEF Placed
  <2>2. IsFiniteSet(busy) /\ PrivateTokens(busy) \in Int /\ PrivateTokens(rest) \in Int
    <3> HIDE DEF busy, rest
    <3>1. /\ IsFiniteSet(busy) /\ SumFunctionOnSet(TokensIn(prog), busy) \in Int
          /\ SumFunctionOnSet(TokensIn(prog), rest) \in Int
      BY <1>2, <2>1, TokensAreInt, Zenon
    <3> QED
      BY <3>1, Zenon DEF PrivateTokens, TokensIn
  <2>3. Cardinality(busy) \in Nat
    <3> HIDE DEF busy
    <3> QED
      BY <2>2, FS_CardinalityType, Zenon
  <2>4. Entry(t).delta \in Int /\ ghost[t].log \in Int
    BY <1>2, EntryFields, Zenon DEF Observation, Life
  <2>5. Checkpoint(t) = [ledger |-> Entry(t).delta, programs |-> Cardinality(busy),
                         reasoningTokens |-> PrivateTokens(busy),
                         actingTokens |-> PrivateTokens(rest), log |-> ghost[t].log]
    BY Zenon DEF Checkpoint
  <2> HIDE DEF busy, rest
  <2> QED
    BY <2>2, <2>3, <2>4, <2>5 DEF Check
<1>6. e \in Epoch
  <2>1. [t \in LedgerTargets |-> Checkpoint(t)] \in [LedgerTargets -> Check]
    BY <1>5, Zenon
  <2> QED
    BY <1>2, <1>3, <2>1, Zenon DEF Epoch
<1>7. EpochFits(e)
  <2>1. \A t \in known.ids : e.at[t].ledger = e.at[t].log - ghost[t].mark
    <3> SUFFICES ASSUME NEW t \in known.ids PROVE e.at[t].ledger = e.at[t].log - ghost[t].mark
      BY Zenon
    <3>1. t \in LedgerTargets /\ Entry(t).delta = ghost[t].log - ghost[t].mark
      BY <1>2, EntryFields, Zenon
    <3> QED
      BY <1>4, <1>5, <3>1, Zenon
  <2> QED
    BY <1>2, <1>4, <2>1 DEF EpochFits
<1>8. LedgerTypes'
  BY <1>1, <1>4, <1>6, Zenon DEF LedgerInvariant, LedgerTypes
<1>9. EpochsFit'
  BY <1>1, <1>4, <1>7, Zenon DEF EpochsFit, EpochFits
<1>10. EntriesExact' /\ LivesOrdered'
  BY <1>1, Zenon DEF LedgerInvariant, EntriesExact, LivesOrdered
<1>11. AllSeated'
  BY <1>1, Zenon DEF LedgerInvariant, AllSeated, Seated
<1>12. Balanced'
  BY <1>1, Zenon DEF LedgerInvariant, Balanced, HeldIn, TokensIn, PlacedIn
<1> QED
  BY <1>8, <1>9, <1>10, <1>11, <1>12, Zenon DEF LedgerInvariant

(* The larger of two integers is one of them.                               *)
LEMMA MaxOfTwo ==
  ASSUME NEW a \in Int, NEW b \in Int
  PROVE  Max({a, b}) \in Int
<1>1. \E x \in {a, b} : \A y \in {a, b} : x >= y
  BY SMT
<1> QED
  BY <1>1, Zenon DEF Max

(* The scaled estimate of the reasoning programs is an integer, and nothing *)
(* is divided by zero.                                                      *)
LEMMA EstimateIsInt ==
  ASSUME NEW n \in Nat, NEW s \in [native : SUBSET Nat, running : Nat], NEW c \in Check
  PROVE  EstimatedReasoning(n, s, c) \in Int
<1>1. s.running \in Nat /\ c.programs \in Int /\ c.reasoningTokens \in Int
  BY DEF Check
<1>2. CASE s.running > 0
  <2>1. PICK m \in Int : m = Max({c.programs, s.running})
    BY <1>1, MaxOfTwo
  <2>2. PICK k \in Int : k = n * m
    OBVIOUS
  <2>3. k \div s.running \in Int
    BY <1>1, <1>2
  <2> QED
    BY <1>2, <2>1, <2>2, <2>3, Zenon DEF EstimatedReasoning
<1> QED
  BY <1>1, <1>2 DEF EstimatedReasoning

(* apply_observations of the current epoch starts the delta where the       *)
(* scrape started; of another epoch it changes nothing.                     *)
LEMMA StepApply ==
  ASSUME LedgerInvariant, NEW T \in SUBSET LedgerTargets, NEW got \in [T -> Scrapes],
         ApplyObservations(got)
  PROVE  LedgerInvariant'
<1> DEFINE Hit(e, t) == EpochIsCurrent(e) /\ t \in DOMAIN got \cap e.ids \cap known.ids
           Seen(e, t) == [est |-> {EstimatedReasoning(n, got[t], e.at[t]) + e.at[t].actingTokens : n \in got[t].native},
                          delta |-> DeltaAfter(Entry(t), e.at[t]), at |-> "fresh"]
<1>1. PICK e \in epoch :
        /\ obs' = [t \in LedgerTargets |-> IF Hit(e, t) THEN {Seen(e, t)} ELSE obs[t]]
        /\ ghost' = [t \in LedgerTargets |-> IF Hit(e, t) THEN [ghost[t] EXCEPT !.mark = e.at[t].log, !.seen = {e.revision}]
                                             ELSE ghost[t]]
        /\ epoch' = {}
        /\ UNCHANGED <<known, prog>>
  BY Zenon DEF ApplyObservations
<1>2. e \in Epoch /\ EpochFits(e) /\ e.revision \in Nat
  BY Zenon DEF LedgerInvariant, LedgerTypes, EpochsFit, Epoch
<1>3. /\ known.ids \subseteq LedgerTargets /\ known.revision \in Nat
      /\ \A t \in LedgerTargets : ghost[t] \in Life /\ e.at[t] \in Check
  BY <1>2, Zenon DEF LedgerInvariant, LedgerTypes, Epoch
<1>4. ASSUME NEW t \in LedgerTargets, Hit(e, t)
      PROVE  /\ Seen(e, t) \in Observation
             /\ Seen(e, t).delta = ghost[t].log - e.at[t].log
             /\ e.revision = known.revision /\ t \in known.ids
  <2>1. t \in T /\ t \in known.ids /\ e.revision = known.revision
    BY <1>4, Zenon DEF EpochIsCurrent
  <2>2. got[t] \in [native : SUBSET Nat, running : Nat]
    BY <2>1, LedgerAssumption, Zenon
  <2>3. PICK c \in Check : c = e.at[t]
    BY <1>3, Zenon
  <2>4. \A n \in got[t].native : EstimatedReasoning(n, got[t], c) + c.actingTokens \in Int
    <3> SUFFICES ASSUME NEW n \in got[t].native
                 PROVE  EstimatedReasoning(n, got[t], c) + c.actingTokens \in Int
      BY Zenon
    <3>1. n \in Nat
      BY <2>2, Zenon
    <3>2. EstimatedReasoning(n, got[t], c) \in Int
      BY <2>2, <3>1, EstimateIsInt, Zenon
    <3>3. c.actingTokens \in Int
      BY Zenon DEF Check
    <3> QED
      BY <3>2, <3>3
  <2>5. PICK x : x = {EstimatedReasoning(n, got[t], c) + c.actingTokens : n \in got[t].native}
    BY Zenon
  <2>6. x \in SUBSET Int
    BY <2>4, <2>5, Zenon
  <2>7. Entry(t) \in Observation /\ Entry(t).delta = ghost[t].log - ghost[t].mark
    BY <2>1, EntryFields, Zenon
  <2>8. c.ledger = c.log - ghost[t].mark
    BY <1>2, <2>1, <2>3, Zenon DEF EpochFits
  <2>9. ghost[t].log \in Int /\ ghost[t].mark \in Int /\ c.log \in Int /\ c.ledger \in Int
    BY <1>3, Zenon DEF Life, Check
  <2>10. PICK d \in Int : d = DeltaAfter(Entry(t), c) /\ d = ghost[t].log - c.log
    BY <2>7, <2>8, <2>9 DEF DeltaAfter
  <2>11. Seen(e, t) = [est |-> x, delta |-> d, at |-> "fresh"]
    BY <2>3, <2>5, <2>10, Zenon
  <2> QED
    BY <2>1, <2>3, <2>6, <2>10, <2>11, Zenon DEF Observation, Ages
<1>5. ASSUME NEW t \in LedgerTargets, Hit(e, t)
      PROVE  /\ ghost'[t] \in Life /\ ghost'[t].log = ghost[t].log /\ ghost'[t].left = ghost[t].left
             /\ ghost'[t].mark = e.at[t].log /\ ghost'[t].since = ghost[t].since
             /\ ghost'[t].seen = {e.revision}
  <2>1. PICK g : g = [ghost[t] EXCEPT !.mark = e.at[t].log, !.seen = {e.revision}]
    BY Zenon
  <2>2. ghost'[t] = g
    BY <1>1, <1>5, <2>1, Zenon
  <2>3. e.at[t].log \in Int /\ {e.revision} \in SUBSET Nat
    BY <1>2, <1>3, Zenon DEF Check
  <2>4. ghost[t] \in Life
    BY <1>3, Zenon
  <2> QED
    BY <2>1, <2>2, <2>3, <2>4, ZenonT(30) DEF Life
<1>6. ASSUME NEW t \in LedgerTargets, ~Hit(e, t)
      PROVE  obs'[t] = obs[t] /\ ghost'[t] = ghost[t]
  BY <1>1, <1>6, Zenon
<1>7. ASSUME NEW t \in LedgerTargets, Hit(e, t)
      PROVE  obs'[t] = {Seen(e, t)}
  BY <1>1, <1>7, Zenon
<1>8. DOMAIN obs' = LedgerTargets /\ obs' = [t \in LedgerTargets |-> obs'[t]]
      /\ ghost' = [t \in LedgerTargets |-> ghost'[t]] /\ epoch' = {} /\ UNCHANGED <<known, prog>>
  BY <1>1, Zenon
<1> HIDE DEF Hit, Seen
<1>9. LedgerTypes'
  <2>1. obs' \in [LedgerTargets -> SUBSET Observation]
    <3>1. \A t \in LedgerTargets : obs'[t] \in SUBSET Observation
      BY <1>4, <1>6, <1>7 DEF LedgerInvariant, LedgerTypes
    <3> QED
      BY <1>8, <3>1, Zenon
  <2>2. ghost' \in [LedgerTargets -> Life]
    <3>1. \A t \in LedgerTargets : ghost'[t] \in Life
      BY <1>3, <1>5, <1>6, Zenon
    <3> QED
      BY <1>8, <3>1, Zenon
  <2> QED
    BY <1>8, <2>1, <2>2, Zenon DEF LedgerInvariant, LedgerTypes
<1>10. EntriesExact'
  <2> SUFFICES ASSUME NEW t \in LedgerTargets
               PROVE  IF t \in known.ids
                      THEN \E o \in Observation : obs'[t] = {o} /\ o.delta = ghost'[t].log - ghost'[t].mark
                      ELSE obs'[t] = {}
    BY <1>8, Zenon DEF EntriesExact
  <2>1. CASE Hit(e, t)
    <3>1. Seen(e, t).delta = ghost'[t].log - ghost'[t].mark
      BY <1>4, <1>5, <2>1, Zenon
    <3> QED
      BY <1>4, <1>7, <2>1, <3>1, Zenon
  <2>2. CASE ~Hit(e, t)
    BY <1>6, <2>2, Zenon DEF LedgerInvariant, EntriesExact
  <2> QED
    BY <2>1, <2>2, Zenon
<1>11. AllSeated' /\ EpochsFit'
  BY <1>8, Zenon DEF LedgerInvariant, AllSeated, Seated, EpochsFit
<1>12. LivesOrdered'
  <2> SUFFICES ASSUME NEW t \in known.ids
               PROVE  ghost'[t].since <= known.revision /\ \A r \in ghost'[t].seen : r >= ghost'[t].since
    BY <1>8, Zenon DEF LivesOrdered
  <2>1. t \in LedgerTargets /\ ghost[t].since <= known.revision /\ (\A r \in ghost[t].seen : r >= ghost[t].since)
        /\ ghost[t].since \in Nat
    BY <1>3, Zenon DEF LedgerInvariant, LivesOrdered, Life
  <2>2. CASE Hit(e, t)
    <3>1. ghost'[t].since = ghost[t].since /\ ghost'[t].seen = {e.revision} /\ e.revision = known.revision
      BY <1>4, <1>5, <2>1, <2>2, Zenon
    <3> QED
      BY <1>3, <2>1, <3>1, Zenon
  <2>3. CASE ~Hit(e, t)
    BY <1>6, <2>1, <2>3, Zenon
  <2> QED
    BY <2>2, <2>3, Zenon
<1>13. Balanced'
  <2> SUFFICES ASSUME NEW t \in known.ids PROVE ghost'[t].log + ghost'[t].left = HeldIn(prog, t)
    BY <1>8, Zenon DEF Balanced, HeldIn, TokensIn, PlacedIn
  <2>1. ghost'[t].log = ghost[t].log /\ ghost'[t].left = ghost[t].left
    BY <1>3, <1>5, <1>6, Zenon
  <2> QED
    BY <2>1, Zenon DEF LedgerInvariant, Balanced
<1> QED
  BY <1>9, <1>10, <1>11, <1>12, <1>13, Zenon DEF LedgerInvariant

(* An observation that ages keeps its delta.                                *)
LEMMA StepAges ==
  ASSUME LedgerInvariant, NEW t \in LedgerTargets, ObservationAges(t)
  PROVE  LedgerInvariant'
<1>1. UNCHANGED <<known, prog, epoch, ghost>> /\ obs[t] # {}
  BY Zenon DEF ObservationAges
<1>2. t \in known.ids /\ Entry(t) \in Observation /\ Entry(t).delta = ghost[t].log - ghost[t].mark
  BY <1>1, EntryFields, Zenon
<1>3. PICK x : x = [Entry(t) EXCEPT !.at = "stale"]
  BY Zenon
<1>4. x \in Observation /\ x.delta = Entry(t).delta
  BY <1>2, <1>3, Zenon DEF Observation, Ages
<1>5. obs' = [obs EXCEPT ![t] = {x}]
  BY <1>3, Zenon DEF ObservationAges
<1>6. obs \in [LedgerTargets -> SUBSET Observation]
  BY Zenon DEF LedgerInvariant, LedgerTypes
<1>7. LedgerTypes'
  BY <1>1, <1>4, <1>5, <1>6, Zenon DEF LedgerInvariant, LedgerTypes
<1>8. EntriesExact'
  <2> SUFFICES ASSUME NEW u \in LedgerTargets
               PROVE  IF u \in known.ids
                      THEN \E o \in Observation : obs'[u] = {o} /\ o.delta = ghost[u].log - ghost[u].mark
                      ELSE obs'[u] = {}
    BY <1>1, Zenon DEF EntriesExact
  <2>1. CASE u = t
    BY <1>2, <1>4, <1>5, <1>6, <2>1, Zenon
  <2>2. CASE u # t
    <3>1. obs'[u] = obs[u]
      BY <1>5, <1>6, <2>2, Zenon
    <3> QED
      BY <3>1, Zenon DEF LedgerInvariant, EntriesExact
  <2> QED
    BY <2>1, <2>2, Zenon
<1>9. AllSeated' /\ EpochsFit' /\ LivesOrdered' /\ Balanced'
  BY <1>1, Zenon DEF LedgerInvariant, EpochsFit, EpochFits, AllSeated, Seated, LivesOrdered, Balanced,
              HeldIn, TokensIn, PlacedIn
<1> QED
  BY <1>7, <1>8, <1>9, Zenon DEF LedgerInvariant

-----------------------------------------------------------------------------
(* The invariant holds at the start.                                        *)
LEMMA LedgerStarts == LedgerInit => LedgerInvariant
<1> SUFFICES ASSUME LedgerInit PROVE LedgerInvariant
  BY Zenon
<1>1. known.ids = LedgerTargets /\ known.revision = 0 /\ known = [ids |-> LedgerTargets, revision |-> 0]
  BY Zenon DEF LedgerInit
<1>2. NoObservation \in Observation /\ NoObservation.delta = 0
  BY DEF NoObservation, Observation, Ages
<1>3. /\ NewLife(0) \in Life /\ NewLife(0).log = 0 /\ NewLife(0).mark = 0 /\ NewLife(0).left = 0
      /\ NewLife(0).since = 0 /\ NewLife(0).seen = {}
  BY NewLifeFields, Zenon
<1>4. \A t \in LedgerTargets : obs[t] = {NoObservation} /\ ghost[t] = NewLife(0)
  BY Zenon DEF LedgerInit
<1>5. \A p \in LedgerPrograms : prog[p] = Gone
  BY Zenon DEF LedgerInit
<1>6. LedgerTypes
  <2>1. obs \in [LedgerTargets -> SUBSET Observation] /\ ghost \in [LedgerTargets -> Life]
        /\ prog \in [LedgerPrograms -> Member] /\ epoch = {}
    BY <1>2, <1>3, GoneFields, Zenon DEF LedgerInit
  <2> QED
    BY <1>1, <2>1 DEF LedgerTypes
<1>7. EntriesExact
  BY <1>1, <1>2, <1>3, <1>4 DEF EntriesExact
<1>8. AllSeated /\ EpochsFit
  BY <1>5, GoneFields, Zenon DEF AllSeated, EpochsFit, LedgerInit
<1>9. LivesOrdered
  BY <1>1, <1>3, <1>4 DEF LivesOrdered
<1>10. Balanced
  <2> SUFFICES ASSUME NEW t \in LedgerTargets PROVE ghost[t].log + ghost[t].left = HeldIn(prog, t)
    BY <1>1, Zenon DEF Balanced
  <2>1. PlacedIn(prog, t) = {}
    BY <1>5, GoneFields, Zenon DEF PlacedIn
  <2>2. HeldIn(prog, t) = 0
    BY <2>1, SumOfNone, Zenon DEF HeldIn
  <2> QED
    BY <1>3, <1>4, <2>2
<1> QED
  BY <1>6, <1>7, <1>8, <1>9, <1>10, Zenon DEF LedgerInvariant

(* Every step keeps the invariant.                                          *)
LEMMA LedgerSteps ==
  ASSUME LedgerInvariant, [LedgerNext]_ledgerVars
  PROVE  LedgerInvariant'
<1>1. CASE UNCHANGED ledgerVars
  BY <1>1 DEF ledgerVars, LedgerInvariant, LedgerTypes, EntriesExact, AllSeated, Seated, EpochsFit,
              EpochFits, LivesOrdered, Balanced, HeldIn, TokensIn, PlacedIn
<1>2. ASSUME NEW p \in LedgerPrograms, NEW n \in LedgerTokens[p], LedgerArrive(p, n) \/ LedgerComplete(p, n)
      PROVE  LedgerInvariant'
  BY <1>2, StepArrive, StepComplete, Zenon
<1>3. ASSUME NEW p \in LedgerPrograms, NEW t \in LedgerTargets, LedgerAdmit(p, t)
      PROVE  LedgerInvariant'
  BY <1>3, StepAdmit, Zenon
<1>4. ASSUME NEW p \in LedgerPrograms,
             LedgerDispatch(p) \/ LedgerDefer(p) \/ LedgerCancel(p) \/ LedgerPause(p) \/ LedgerRelease(p)
      PROVE  LedgerInvariant'
  BY <1>4, StepQuiet, StepCancel, StepPause, StepRelease, Zenon
<1>5. ASSUME NEW T \in SUBSET LedgerTargets, LedgerSync(T) PROVE LedgerInvariant'
  BY <1>5, StepSync, Zenon
<1>6. CASE BeginObservation
  BY <1>6, StepBegin, Zenon
<1>7. ASSUME NEW T \in SUBSET LedgerTargets, NEW got \in [T -> Scrapes], ApplyObservations(got)
      PROVE  LedgerInvariant'
  BY <1>7, StepApply, Zenon
<1>8. ASSUME NEW t \in LedgerTargets, ObservationAges(t) PROVE LedgerInvariant'
  BY <1>8, StepAges, Zenon
<1> QED
  BY <1>1, <1>2, <1>3, <1>4, <1>5, <1>6, <1>7, <1>8, Zenon DEF LedgerNext

(* The invariant implies what is promised of the ledger.                    *)
LEMMA InvariantIsExact == LedgerInvariant => LedgerIsExact
<1> SUFFICES ASSUME LedgerInvariant PROVE LedgerIsExact
  BY Zenon
<1>1. known.ids \subseteq LedgerTargets
  BY Zenon DEF LedgerInvariant, LedgerTypes
<1>2. EntriesExact
  BY Zenon DEF LedgerInvariant
<1>3. TransitionsSurviveObservation
  BY <1>2, Zenon DEF TransitionsSurviveObservation, EntriesExact
<1>4. NoObservationOfAnEarlierLife
  BY Zenon DEF NoObservationOfAnEarlierLife, LedgerInvariant, LivesOrdered
<1>5. OnlyKnownTargetsAreObserved
  BY <1>1, <1>2, Zenon DEF OnlyKnownTargetsAreObserved, EntriesExact
<1>6. LedgerBalances
  BY HeldIsPrivateTokens, Zenon DEF LedgerBalances, LedgerInvariant, Balanced
<1>7. SourceIsTheOneUsed
  <2> SUFFICES ASSUME NEW t \in known.ids
               PROVE  (CapacityAccountingSource(t) = "backend") <=> (ObservedTargetUsage(t) # {})
    BY Zenon DEF SourceIsTheOneUsed
  <2>1. PICK o \in Observation : obs[t] = {o}
    BY <1>1, <1>2, Zenon DEF EntriesExact
  <2>2. Entry(t) = o /\ o.at \in Ages
    BY <2>1, EntryIs, Zenon DEF Observation
  <2>3. (CapacityAccountingSource(t) = "backend") <=> (o.at = "fresh" /\ o.est # {})
    BY <2>1, <2>2, Zenon DEF CapacityAccountingSource, Ages
  <2>4. (ObservedTargetUsage(t) # {}) <=> (o.at = "fresh" /\ o.est # {})
    <3>1. CASE o.at = "fresh"
      <4>1. {x \in obs[t] : x.at = "fresh"} = {o}
        BY <2>1, <3>1, Zenon
      <4>2. ObservedTargetUsage(t) = Usage(o)
        BY <4>1, Zenon DEF ObservedTargetUsage
      <4>3. (Usage(o) # {}) <=> (o.est # {})
        BY Zenon DEF Usage
      <4> QED
        BY <3>1, <4>2, <4>3, Zenon
    <3>2. CASE o.at # "fresh"
      <4>1. {x \in obs[t] : x.at = "fresh"} = {}
        BY <2>1, <3>2, Zenon
      <4>2. ObservedTargetUsage(t) = {}
        BY <4>1, Zenon DEF ObservedTargetUsage
      <4> QED
        BY <3>2, <4>2, Zenon
    <3> QED
      BY <3>1, <3>2, Zenon
  <2> QED
    BY <2>3, <2>4, Zenon
<1> QED
  BY <1>3, <1>4, <1>5, <1>6, <1>7, Zenon DEF LedgerIsExact

(* For any programs, targets, scrapes and bounds the delta of a target is   *)
(* what was adjusted since its observation began, no target is credited     *)
(* with a scrape of an earlier life or kept after its removal, the          *)
(* adjustments of a target balance with what its programs hold, and the     *)
(* reported source of the accounting is the one admission uses              *)
(* (adjust_usage, apply_observations and sync_target_snapshot_locked of     *)
(* scheduler.rs).                                                           *)
THEOREM LedgerStaysExact == LedgerSpec => []LedgerIsExact
<1>1. LedgerInit => LedgerInvariant
  BY LedgerStarts, Zenon
<1>2. LedgerInvariant /\ [LedgerNext]_ledgerVars => LedgerInvariant'
  BY LedgerSteps, Zenon
<1>3. LedgerInvariant => LedgerIsExact
  BY InvariantIsExact, Zenon
<1> QED
  BY <1>1, <1>2, <1>3, PTL DEF LedgerSpec

-----------------------------------------------------------------------------
(* One step of a walk, and the rule of the local function of Walk.          *)
Up(up, q) == IF q \in DOMAIN up THEN up[q] ELSE q

WalkRule(up, p, n, g) ==
  g = [i \in 0 .. n |-> IF i = 0 THEN p
                        ELSE IF g[i - 1] \in DOMAIN up THEN up[g[i - 1]] ELSE g[i - 1]]

WalkTo(up, p, n) == CHOOSE g : WalkRule(up, p, n, g)

(* Walk is the last value of the chosen function.                           *)
LEMMA WalkIsChosen ==
  ASSUME NEW up, NEW p, NEW n
  PROVE  Walk(up, p, n) = WalkTo(up, p, n)[n]
BY Zenon DEF Walk, WalkTo, WalkRule

(* The rule, value by value.                                                *)
Follow(up, p, n, g) == g[0] = p /\ \A i \in 1 .. n : g[i] = Up(up, g[i - 1])

(* The local function of Walk exists: its values are parents or p.          *)
LEMMA WalkToFollows ==
  ASSUME NEW up, NEW p, NEW n \in Nat
  PROVE  Follow(up, p, n, WalkTo(up, p, n))
<1> DEFINE V == {p} \cup DOMAIN up \cup {up[q] : q \in DOMAIN up}
           step == [i \in 1 .. n |-> [v \in V |-> Up(up, v)]]
<1>1. \A v \in V : Up(up, v) \in V
  BY Zenon DEF Up
<1>2. p \in V
  BY Zenon
<1> HIDE DEF V
<1>3. StepsUp(n, V, step)
  BY <1>1, Zenon DEF StepsUp
<1>4. PICK g : CountsUp(n, V, p, step, g)
  <2> HIDE DEF step
  <2> QED
    BY <1>2, <1>3, UpwardRecursion, Zenon
<1>5. g \in [0 .. n -> V] /\ g[0] = p
  BY <1>4, Zenon DEF CountsUp
<1>6. ASSUME NEW i \in 0 .. n
      PROVE  g[i] = IF i = 0 THEN p ELSE IF g[i - 1] \in DOMAIN up THEN up[g[i - 1]] ELSE g[i - 1]
  <2>1. CASE i = 0
    BY <1>5, <2>1, Zenon
  <2>2. CASE i # 0
    <3>1. i \in 1 .. n /\ i - 1 \in 0 .. n
      BY <2>2
    <3>2. g[i] = step[i][g[i - 1]] /\ g[i - 1] \in V
      BY <1>4, <1>5, <3>1, Zenon DEF CountsUp
    <3>3. step[i][g[i - 1]] = Up(up, g[i - 1])
      BY <3>1, <3>2, Zenon
    <3> QED
      BY <2>2, <3>2, <3>3, Zenon DEF Up
  <2> QED
    BY <2>1, <2>2, Zenon
<1>7. g = [i \in 0 .. n |-> IF i = 0 THEN p ELSE IF g[i - 1] \in DOMAIN up THEN up[g[i - 1]] ELSE g[i - 1]]
  BY <1>5, <1>6, Zenon
<1>8. WalkRule(up, p, n, WalkTo(up, p, n))
  BY <1>7, Zenon DEF WalkTo, WalkRule
<1> DEFINE h == WalkTo(up, p, n)
<1>9. h = [i \in 0 .. n |-> IF i = 0 THEN p ELSE IF h[i - 1] \in DOMAIN up THEN up[h[i - 1]] ELSE h[i - 1]]
  BY <1>8, Zenon DEF WalkRule
<1> HIDE DEF h
<1>10. h[0] = p
  <2>1. 0 \in 0 .. n
    OBVIOUS
  <2> QED
    BY <1>9, <2>1, Zenon
<1>11. ASSUME NEW i \in 1 .. n PROVE h[i] = Up(up, h[i - 1])
  <2>1. i \in 0 .. n /\ i # 0
    OBVIOUS
  <2> QED
    BY <1>9, <2>1, Zenon DEF Up
<1> QED
  BY <1>10, <1>11, Zenon DEF Follow, h

(* Two functions that follow the rule agree as far as both go.              *)
AgreeAt(g, h, m) == g[m] = h[m]

(* The shorter one ends where the longer one is at that step.                *)
LEMMA FollowersAgree ==
  ASSUME NEW up, NEW p, NEW m \in Nat, NEW n \in Nat, m <= n,
         NEW g, Follow(up, p, m, g), NEW h, Follow(up, p, n, h)
  PROVE  AgreeAt(g, h, m)
<1> DEFINE A == {k \in Nat : k <= m => g[k] = h[k]}
<1>1. 0 \in A
  BY Zenon DEF Follow
<1>2. ASSUME NEW k \in Nat, k \in A PROVE k + 1 \in A
  <2>1. SUFFICES ASSUME k + 1 <= m PROVE g[k + 1] = h[k + 1]
    OBVIOUS
  <2>2. k <= m /\ k + 1 \in 1 .. m /\ k + 1 \in 1 .. n /\ (k + 1) - 1 = k
    BY <2>1
  <2> QED
    BY <1>2, <2>2, Zenon DEF Follow
<1>3. \A k \in Nat : k \in A
  <2> HIDE DEF A
  <2> QED
    BY <1>1, <1>2, SetInduction, Zenon
<1>4. m <= m
  OBVIOUS
<1> QED
  BY <1>3, <1>4, Zenon DEF AgreeAt

(* A walk begins at p, and one step more is the parent of where it was.     *)
LEMMA WalkSteps ==
  ASSUME NEW up, NEW p
  PROVE  /\ Walk(up, p, 0) = p
         /\ \A n \in Nat : Walk(up, p, n + 1) = Up(up, Walk(up, p, n))
<1>1. Walk(up, p, 0) = p
  <2>1. 0 \in Nat
    OBVIOUS
  <2> QED
    BY <2>1, WalkToFollows, WalkIsChosen, Zenon DEF Follow
<1>2. ASSUME NEW n \in Nat PROVE Walk(up, p, n + 1) = Up(up, Walk(up, p, n))
  <2>1. n + 1 \in Nat /\ n <= n + 1 /\ n + 1 \in 1 .. n + 1 /\ (n + 1) - 1 = n
    OBVIOUS
  <2>2. PICK k : k = n + 1
    BY Zenon
  <2>3. k \in Nat /\ n <= k /\ k \in 1 .. k /\ k - 1 = n
    BY <2>1, <2>2, Zenon
  <2>4. Follow(up, p, k, WalkTo(up, p, k)) /\ Follow(up, p, n, WalkTo(up, p, n))
    BY <2>3, WalkToFollows, Zenon
  <2>5. WalkTo(up, p, k)[k] = Up(up, WalkTo(up, p, k)[n])
    <3>1. WalkTo(up, p, k)[k] = Up(up, WalkTo(up, p, k)[k - 1])
      BY <2>3, <2>4, Zenon DEF Follow
    <3> QED
      BY <2>3, <3>1, Zenon
  <2>6. WalkTo(up, p, n)[n] = WalkTo(up, p, k)[n]
    <3>1. AgreeAt(WalkTo(up, p, n), WalkTo(up, p, k), n)
      BY <2>3, <2>4, FollowersAgree, Zenon
    <3> QED
      BY <3>1, Zenon DEF AgreeAt
  <2>7. Walk(up, p, k) = WalkTo(up, p, k)[k] /\ Walk(up, p, n) = WalkTo(up, p, n)[n]
    BY WalkIsChosen, Zenon
  <2> QED
    BY <2>2, <2>5, <2>6, <2>7, Zenon
<1> QED
  BY <1>1, <1>2, Zenon

(* One step.                                                                *)
LEMMA FirstStep ==
  ASSUME NEW up, NEW p
  PROVE  Walk(up, p, 1) = Up(up, p)
<1>1. 0 \in Nat /\ 0 + 1 = 1
  OBVIOUS
<1>2. Walk(up, p, 0 + 1) = Up(up, Walk(up, p, 0)) /\ Walk(up, p, 0) = p
  BY <1>1, WalkSteps, Zenon
<1> QED
  BY <1>1, <1>2, Zenon

(* Walking on from where a walk is.                                         *)
Onward(up, p, m, n) == Walk(up, p, m + n) = Walk(up, Walk(up, p, m), n)

(* By induction on the further steps.                                        *)
LEMMA WalkOn ==
  ASSUME NEW up, NEW p, NEW m \in Nat, NEW n \in Nat
  PROVE  Onward(up, p, m, n)
<1> DEFINE A == {k \in Nat : Walk(up, p, m + k) = Walk(up, Walk(up, p, m), k)}
<1>1. 0 \in A
  <2>1. m + 0 = m /\ 0 \in Nat
    OBVIOUS
  <2> QED
    BY <2>1, WalkSteps, Zenon
<1>2. ASSUME NEW k \in Nat, k \in A PROVE k + 1 \in A
  <2>1. m + (k + 1) = (m + k) + 1 /\ m + k \in Nat /\ k + 1 \in Nat
    OBVIOUS
  <2>2. Walk(up, p, (m + k) + 1) = Up(up, Walk(up, p, m + k))
    BY <2>1, WalkSteps, Zenon
  <2>3. Walk(up, Walk(up, p, m), k + 1) = Up(up, Walk(up, Walk(up, p, m), k))
    BY WalkSteps, Zenon
  <2> QED
    BY <1>2, <2>1, <2>2, <2>3, Zenon
<1>3. \A k \in Nat : k \in A
  <2> HIDE DEF A
  <2> QED
    BY <1>1, <1>2, SetInduction, Zenon
<1> QED
  BY <1>3, Zenon DEF Onward

(* A program that is its own parent ends a walk.                            *)
Fixed(up, q) == q \in DOMAIN up /\ up[q] = q

(* From where a walk has come to such a program it does not move.            *)
LEMMA WalkStays ==
  ASSUME NEW up, NEW p, NEW m \in Nat, Fixed(up, Walk(up, p, m))
  PROVE  \A n \in Nat : n >= m => Walk(up, p, n) = Walk(up, p, m)
<1> DEFINE q == Walk(up, p, m)
           A == {k \in Nat : Walk(up, q, k) = q}
<1>1. 0 \in A
  <2>1. 0 \in Nat
    OBVIOUS
  <2> QED
    BY <2>1, WalkSteps, Zenon
<1>2. ASSUME NEW k \in Nat, k \in A PROVE k + 1 \in A
  <2>1. k + 1 \in Nat
    OBVIOUS
  <2>2. Walk(up, q, k + 1) = Up(up, Walk(up, q, k))
    BY WalkSteps, Zenon
  <2>3. Walk(up, q, k) = q
    BY <1>2, Zenon
  <2>4. Up(up, q) = q
    BY Zenon DEF Fixed, Up
  <2> HIDE DEF q
  <2> QED
    BY <2>1, <2>2, <2>3, <2>4, Zenon
<1>3. \A k \in Nat : k \in A
  <2> HIDE DEF A
  <2> QED
    BY <1>1, <1>2, SetInduction, Zenon
<1>4. SUFFICES ASSUME NEW n \in Nat, n >= m PROVE Walk(up, p, n) = q
  BY Zenon
<1>5. n - m \in Nat /\ m + (n - m) = n
  BY <1>4
<1>6. PICK d : d = n - m
  BY Zenon
<1>7. Walk(up, p, m + d) = Walk(up, q, d)
  <2>1. Onward(up, p, m, d)
    BY <1>5, <1>6, WalkOn, Zenon
  <2> QED
    BY <2>1, Zenon DEF Onward
<1>8. Walk(up, q, d) = q
  BY <1>3, <1>5, <1>6, Zenon
<1> QED
  BY <1>5, <1>6, <1>7, <1>8, Zenon

(* Where two tables have the same parents on the way, the walks are one.    *)
SameSteps(e, f, q, n) == \A i \in Nat : i < n => Up(f, Walk(e, q, i)) = Up(e, Walk(e, q, i))

SamePlace(e, f, q, n) == Walk(f, q, n) = Walk(e, q, n)

(* By induction on the steps.                                                *)
LEMMA SameWalk ==
  ASSUME NEW e, NEW f, NEW q, NEW n \in Nat, SameSteps(e, f, q, n)
  PROVE  SamePlace(e, f, q, n)
<1> DEFINE A == {k \in Nat : k <= n => Walk(f, q, k) = Walk(e, q, k)}
<1>1. 0 \in A
  <2>1. 0 \in Nat
    OBVIOUS
  <2> QED
    BY <2>1, WalkSteps, Zenon
<1>2. ASSUME NEW k \in Nat, k \in A PROVE k + 1 \in A
  <2>1. SUFFICES ASSUME k + 1 <= n PROVE Walk(f, q, k + 1) = Walk(e, q, k + 1)
    OBVIOUS
  <2>2. k <= n /\ k < n
    BY <2>1
  <2>3. Walk(f, q, k + 1) = Up(f, Walk(f, q, k))
    BY WalkSteps, Zenon
  <2>4. Walk(e, q, k + 1) = Up(e, Walk(e, q, k))
    BY WalkSteps, Zenon
  <2>5. Walk(f, q, k) = Walk(e, q, k)
    BY <1>2, <2>2, Zenon
  <2>6. Up(f, Walk(e, q, k)) = Up(e, Walk(e, q, k))
    BY <2>2, Zenon DEF SameSteps
  <2> QED
    BY <2>3, <2>4, <2>5, <2>6, Zenon
<1>3. \A k \in Nat : k \in A
  <2> HIDE DEF A
  <2> QED
    BY <1>1, <1>2, SetInduction, Zenon
<1>4. n <= n
  OBVIOUS
<1> QED
  BY <1>3, <1>4, Zenon DEF SamePlace

(* A set of numbers that is not empty has a least one.                      *)
LEMMA LeastNumber ==
  ASSUME NEW S, S \subseteq Nat, NEW x \in S
  PROVE  \E m \in S : \A k \in S : m <= k
<1> DEFINE A == {n \in Nat : \A k \in S : n < k}
<1>1. SUFFICES ASSUME ~\E m \in S : \A k \in S : m <= k PROVE FALSE
  OBVIOUS
<1>2. 0 \in A
  <2>1. 0 \notin S
    BY <1>1
  <2> QED
    BY <2>1
<1>3. ASSUME NEW n \in Nat, n \in A PROVE n + 1 \in A
  <2>1. \A k \in S : n + 1 <= k
    BY <1>3
  <2>2. n + 1 \notin S
    BY <1>1, <2>1
  <2> QED
    BY <2>1, <2>2
<1>4. \A n \in Nat : n \in A
  <2> HIDE DEF A
  <2> QED
    BY <1>2, <1>3, SetInduction, Zenon
<1>5. x \in Nat /\ x \in A
  BY <1>4
<1> QED
  BY <1>5

(* The inductive invariant of the lineage forest: finitely many entries,    *)
(* every parent has one, and every walk ends.                               *)
Ends(up, p) == \E n \in Nat : Fixed(up, Walk(up, p, n))

Forest(up) ==
  /\ IsFiniteSet(DOMAIN up)
  /\ \A q \in DOMAIN up : up[q] \in DOMAIN up
  /\ \A p \in DOMAIN up : Ends(up, p)

(* A walk stays among the entries.                                          *)
LEMMA WalkInside ==
  ASSUME NEW up, \A q \in DOMAIN up : up[q] \in DOMAIN up, NEW p \in DOMAIN up
  PROVE  \A n \in Nat : Walk(up, p, n) \in DOMAIN up
<1> DEFINE A == {k \in Nat : Walk(up, p, k) \in DOMAIN up}
<1>1. 0 \in A
  <2>1. 0 \in Nat
    OBVIOUS
  <2> QED
    BY <2>1, WalkSteps, Zenon
<1>2. ASSUME NEW k \in Nat, k \in A PROVE k + 1 \in A
  <2>1. k + 1 \in Nat
    OBVIOUS
  <2>2. Walk(up, p, k + 1) = Up(up, Walk(up, p, k))
    BY WalkSteps, Zenon
  <2> QED
    BY <1>2, <2>1, <2>2, Zenon DEF Up
<1>3. \A k \in Nat : k \in A
  <2> HIDE DEF A
  <2> QED
    BY <1>1, <1>2, SetInduction, Zenon
<1> QED
  BY <1>3, Zenon

(* A walk that ends does so within as many steps as there are entries: of   *)
(* more positions two are the same program, and the steps between them can  *)
(* be left out.                                                             *)
LEMMA WalksAreShort ==
  ASSUME NEW up, Forest(up), NEW p \in DOMAIN up
  PROVE  \E n \in 0 .. Cardinality(DOMAIN up) : Fixed(up, Walk(up, p, n))
<1> DEFINE c == Cardinality(DOMAIN up)
           E == {n \in Nat : Fixed(up, Walk(up, p, n))}
           f == [i \in 0 .. c |-> Walk(up, p, i)]
<1>1. c \in Nat
  BY FS_CardinalityType, Zenon DEF Forest
<1>2. PICK n \in E : \A k \in E : n <= k
  <2>1. PICK x : x \in E
    BY Zenon DEF Forest, Ends
  <2>2. E \subseteq Nat
    BY Zenon
  <2> HIDE DEF E
  <2> QED
    BY <2>1, <2>2, LeastNumber, Zenon
<1>3. n \in Nat
  BY <1>2, Zenon
<1>4. SUFFICES n <= c
  <2>1. ASSUME n <= c PROVE n \in 0 .. c
    BY <1>1, <1>3, <2>1
  <2> QED
    BY <1>2, <2>1, Zenon
<1>5. SUFFICES ASSUME n > c PROVE FALSE
  BY <1>1, <1>3
<1>6. \E i, j \in 0 .. c : i # j /\ f[i] = f[j]
  <2>1. IsFiniteSet(0 .. c) /\ Cardinality(0 .. c) = c + 1
    BY <1>1, FS_Interval
  <2>2. f \in [0 .. c -> DOMAIN up]
    <3>1. \A i \in 0 .. c : i \in Nat
      BY <1>1
    <3> QED
      BY <3>1, WalkInside, Zenon DEF Forest
  <2>3. IsFiniteSet(DOMAIN up) /\ Cardinality(DOMAIN up) < Cardinality(0 .. c)
    BY <1>1, <2>1 DEF Forest
  <2> HIDE DEF f
  <2> QED
    BY <2>1, <2>2, <2>3, FS_PigeonHole
<1>7. PICK i \in 0 .. c, j \in 0 .. c : i < j /\ Walk(up, p, i) = Walk(up, p, j)
  <2>1. PICK x \in 0 .. c, y \in 0 .. c : x # y /\ f[x] = f[y]
    BY <1>6, Zenon
  <2>2. Walk(up, p, x) = Walk(up, p, y)
    BY <2>1, Zenon
  <2>3. x < y \/ y < x
    BY <1>1, <2>1
  <2> QED
    BY <2>2, <2>3, Zenon
<1>8. /\ i \in Nat /\ j \in Nat /\ n - j \in Nat
      /\ j + (n - j) = n /\ i + (n - j) \in Nat /\ i + (n - j) < n
  BY <1>1, <1>3, <1>5, <1>7
<1>9. Walk(up, p, i + (n - j)) = Walk(up, p, j + (n - j))
  <2>1. PICK d : d = n - j
    BY Zenon
  <2>2. Walk(up, p, i + d) = Walk(up, Walk(up, p, i), d) /\ Walk(up, p, j + d) = Walk(up, Walk(up, p, j), d)
    <3>1. Onward(up, p, i, d) /\ Onward(up, p, j, d)
      BY <1>8, <2>1, WalkOn, Zenon
    <3> QED
      BY <3>1, Zenon DEF Onward
  <2> QED
    BY <1>7, <2>1, <2>2, Zenon
<1>10. i + (n - j) \in E
  BY <1>2, <1>8, <1>9, Zenon
<1>11. n <= i + (n - j)
  BY <1>2, <1>10, Zenon
<1> QED
  BY <1>3, <1>8, <1>11

(* New entries are roots, and change no walk of the others.                 *)
Enlarged(up, x, e) ==
  /\ Forest(e)
  /\ DOMAIN e = DOMAIN up \cup {x}
  /\ \A q : \A n \in Nat : Walk(e, q, n) = Walk(up, q, n)

(* A mentioned program becomes a root, or stays what it is.                  *)
LEMMA EntriesKeepForest ==
  ASSUME NEW up, Forest(up), NEW x
  PROVE  Enlarged(up, x, WithEntries(up, {x}))
<1> DEFINE e == WithEntries(up, {x})
<1>1. DOMAIN e = DOMAIN up \cup {x} /\ \A q \in DOMAIN e : e[q] = IF q \in DOMAIN up THEN up[q] ELSE q
  BY Zenon DEF WithEntries
<1> HIDE DEF e
<1>2. \A q : Up(e, q) = Up(up, q)
  BY <1>1, Zenon DEF Up
<1>3. ASSUME NEW q, NEW n \in Nat PROVE Walk(e, q, n) = Walk(up, q, n)
  <2>1. SameSteps(up, e, q, n)
    BY <1>2, Zenon DEF SameSteps
  <2>2. SamePlace(up, e, q, n)
    BY <2>1, SameWalk, Zenon
  <2> QED
    BY <2>2, Zenon DEF SamePlace
<1>4. IsFiniteSet(DOMAIN e)
  <2>1. IsFiniteSet(DOMAIN up)
    BY Zenon DEF Forest
  <2>2. IsFiniteSet(DOMAIN up \cup {x})
    BY <2>1, FS_AddElement, Zenon
  <2> QED
    BY <1>1, <2>2, Zenon
<1>5. \A q \in DOMAIN e : e[q] \in DOMAIN e
  BY <1>1, Zenon DEF Forest
<1>6. ASSUME NEW q \in DOMAIN e PROVE Ends(e, q)
  <2>1. CASE q \in DOMAIN up
    <3>1. PICK n \in Nat : Fixed(up, Walk(up, q, n))
      BY <2>1, Zenon DEF Forest, Ends
    <3> QED
      BY <1>1, <1>3, <3>1, Zenon DEF Ends, Fixed
  <2>2. CASE q \notin DOMAIN up
    <3>1. 0 \in Nat
      OBVIOUS
    <3>2. Walk(e, q, 0) = q /\ e[q] = q
      BY <1>1, <2>2, WalkSteps, Zenon
    <3> QED
      BY <3>1, <3>2, Zenon DEF Ends, Fixed
  <2> QED
    BY <2>1, <2>2, Zenon
<1>7. Forest(e)
  BY <1>4, <1>5, <1>6, Zenon DEF Forest
<1> QED
  BY <1>1, <1>3, <1>7, Zenon DEF Enlarged, e

(* Where the parents of some programs change, every walk still ends if the  *)
(* walks from those programs do.                                            *)
Regrafted(e, f, P) ==
  /\ DOMAIN f = DOMAIN e
  /\ \A q \in DOMAIN e : f[q] \in DOMAIN e
  /\ \A q \in DOMAIN e \ P : f[q] = e[q]
  /\ \A q \in P : Ends(f, q)

(* A walk that meets none of them is the old one; a walk that does goes on   *)
(* from the first of them to an end.                                         *)
LEMMA Regraft ==
  ASSUME NEW e, Forest(e), NEW f, NEW P, Regrafted(e, f, P)
  PROVE  Forest(f)
<1>0. /\ DOMAIN f = DOMAIN e
      /\ \A q \in DOMAIN e : f[q] \in DOMAIN e
      /\ \A q \in DOMAIN e \ P : f[q] = e[q]
      /\ \A q \in P : Ends(f, q)
  BY Zenon DEF Regrafted
<1>1. ASSUME NEW q \in DOMAIN e PROVE Ends(f, q)
  <2>1. PICK k \in Nat : Fixed(e, Walk(e, q, k))
    BY Zenon DEF Forest, Ends
  <2>2. \A i \in Nat : Walk(e, q, i) \in DOMAIN e
    BY WalkInside, Zenon DEF Forest
  <2>3. \A i \in Nat : Walk(e, q, i) \notin P => Up(f, Walk(e, q, i)) = Up(e, Walk(e, q, i))
    BY <1>0, <2>2, Zenon DEF Up
  <2> DEFINE M == {i \in Nat : Walk(e, q, i) \in P}
  <2>4. CASE M = {}
    <3>2. SameSteps(e, f, q, k)
      BY <2>3, <2>4, Zenon DEF SameSteps
    <3>3. Walk(f, q, k) = Walk(e, q, k)
      <4>1. SamePlace(e, f, q, k)
        BY <3>2, SameWalk, Zenon
      <4> QED
        BY <4>1, Zenon DEF SamePlace
    <3>4. Fixed(f, Walk(e, q, k))
      BY <1>0, <2>1, <2>2, <2>4, Zenon DEF Fixed
    <3> QED
      BY <3>3, <3>4, Zenon DEF Ends
  <2>5. CASE M # {}
    <3>1. PICK m \in M : \A i \in M : m <= i
      <4>1. PICK x : x \in M
        BY <2>5, Zenon
      <4>2. M \subseteq Nat
        BY Zenon
      <4> HIDE DEF M
      <4> QED
        BY <4>1, <4>2, LeastNumber, Zenon
    <3>2. m \in Nat /\ Walk(e, q, m) \in P
      BY <3>1, Zenon
    <3>3. \A i \in Nat : i < m => Walk(e, q, i) \notin P
      <4>1. \A i \in Nat : i < m => ~(m <= i)
        BY <3>2
      <4> QED
        BY <3>1, <4>1, Zenon
    <3>4. m <= m
      BY <3>2
    <3>5. Walk(f, q, m) = Walk(e, q, m)
      <4>1. SameSteps(e, f, q, m)
        BY <2>3, <3>3, Zenon DEF SameSteps
      <4>2. m \in Nat
        BY <3>2, Zenon
      <4>3. SamePlace(e, f, q, m)
        BY <4>1, <4>2, SameWalk, Zenon
      <4> QED
        BY <4>3, Zenon DEF SamePlace
    <3>6. PICK n \in Nat : Fixed(f, Walk(f, Walk(e, q, m), n))
      BY <1>0, <3>2, Zenon DEF Ends
    <3>7. Walk(f, q, m + n) = Walk(f, Walk(e, q, m), n)
      <4>1. Walk(f, q, m + n) = Walk(f, Walk(f, q, m), n)
        <5>1. Onward(f, q, m, n)
          BY <3>2, WalkOn, Zenon
        <5> QED
          BY <5>1, Zenon DEF Onward
      <4> QED
        BY <3>5, <4>1, Zenon
    <3>8. m + n \in Nat
      BY <3>2
    <3> QED
      BY <3>6, <3>7, <3>8, Zenon DEF Ends
  <2> QED
    BY <2>4, <2>5, Zenon
<1> QED
  BY <1>0, <1>1, Zenon DEF Forest

(* would_cycle looks far enough: a parent whose walk does not meet the      *)
(* child within the number of entries never meets it.                       *)
LEMMA DeclaredKeepsForest ==
  ASSUME NEW up, Forest(up), NEW p \in DOMAIN up, NEW above
  PROVE  Forest(Declared(up, p, above)) /\ p \in DOMAIN Declared(up, p, above)
<1> DEFINE e == WithEntries(up, {above})
           f == [e EXCEPT ![p] = above]
<1>1. Forest(e) /\ DOMAIN e = DOMAIN up \cup {above}
  BY EntriesKeepForest, Zenon DEF Enlarged
<1>2. Declared(up, p, above) = IF above = p \/ WouldCycle(e, p, above) THEN e ELSE f
  BY Zenon DEF Declared
<1> HIDE DEF e
<1>3. p \in DOMAIN e /\ above \in DOMAIN e
  BY <1>1, Zenon
<1>4. CASE above = p \/ WouldCycle(e, p, above)
  BY <1>1, <1>2, <1>3, <1>4, Zenon
<1>5. CASE ~(above = p \/ WouldCycle(e, p, above))
  <2>1. DOMAIN f = DOMAIN e /\ f[p] = above /\ \A q \in DOMAIN e \ {p} : f[q] = e[q]
    BY <1>3, Zenon
  <2> HIDE DEF f
  <2>2. PICK m \in 0 .. Cardinality(DOMAIN e) : Fixed(e, Walk(e, above, m))
    BY <1>1, <1>3, WalksAreShort, Zenon
  <2>3. Cardinality(DOMAIN e) \in Nat
    BY <1>1, FS_CardinalityType, Zenon DEF Forest
  <2>4. m \in Nat /\ \A i \in Nat : i <= m => i \in 0 .. (Cardinality(DOMAIN e) + 1) - 1
    BY <2>2, <2>3
  <2>5. \A i \in Nat : i <= m => Walk(e, above, i) # p
    BY <1>5, <2>4, ZenonT(40) DEF WouldCycle, Steps
  <2>6. \A i \in Nat : Walk(e, above, i) \in DOMAIN e
    BY <1>1, <1>3, WalkInside, Zenon DEF Forest
  <2>7. SameSteps(e, f, above, m)
    <3>1. \A i \in Nat : i < m => i <= m
      BY <2>4
    <3> QED
      BY <2>1, <2>5, <2>6, <3>1, Zenon DEF Up, SameSteps
  <2>8. m <= m
    BY <2>4
  <2>9. Walk(f, above, m) = Walk(e, above, m)
    <3>1. SamePlace(e, f, above, m)
      BY <2>4, <2>7, SameWalk, Zenon
    <3> QED
      BY <3>1, Zenon DEF SamePlace
  <2>10. Fixed(f, Walk(f, above, m))
    BY <2>1, <2>2, <2>4, <2>5, <2>8, <2>9, Zenon DEF Fixed
  <2>11. Walk(f, p, 1) = above
    <3>1. Up(f, p) = above
      BY <1>3, <2>1, Zenon DEF Up
    <3> QED
      BY <3>1, FirstStep, Zenon
  <2>12. Ends(f, p)
    <3>1. 1 \in Nat /\ 1 + m \in Nat
      BY <2>4
    <3>2. Walk(f, p, 1 + m) = Walk(f, above, m)
      <4>1. Walk(f, p, 1 + m) = Walk(f, Walk(f, p, 1), m)
        <5>1. Onward(f, p, 1, m)
          BY <2>4, <3>1, WalkOn, Zenon
        <5> QED
          BY <5>1, Zenon DEF Onward
      <4> QED
        BY <2>11, <4>1, Zenon
    <3> QED
      BY <2>10, <3>1, <3>2, Zenon DEF Ends
  <2>13. \A q \in DOMAIN e : f[q] \in DOMAIN e
    BY <1>1, <1>3, <2>1, Zenon DEF Forest
  <2>14. \A q \in {p} : Ends(f, q)
    BY <2>12, Zenon
  <2>15. Regrafted(e, f, {p})
    BY <2>1, <2>13, <2>14, Zenon DEF Regrafted
  <2>16. Forest(f)
    BY <1>1, <2>15, Regraft, Zenon
  <2> QED
    BY <1>2, <1>3, <1>5, <2>1, <2>16, Zenon
<1> QED
  BY <1>4, <1>5, Zenon

(* root_readonly walks far enough to find the root, and only one is found.  *)
LEMMA RootIsFixed ==
  ASSUME NEW up, Forest(up), NEW q \in DOMAIN up
  PROVE  /\ Fixed(up, RootReadonly(up, q))
         /\ \A n \in Nat : Fixed(up, Walk(up, q, n)) => Walk(up, q, n) = RootReadonly(up, q)
<1> DEFINE c == Cardinality(DOMAIN up)
<1>1. c \in Nat /\ c + 1 \in Nat
  <2>1. c \in Nat
    BY FS_CardinalityType, Zenon DEF Forest
  <2> QED
    BY <2>1
<1>2. RootReadonly(up, q) = Walk(up, q, c + 1)
  BY Zenon DEF RootReadonly, Steps
<1>3. PICK m \in 0 .. c : Fixed(up, Walk(up, q, m))
  BY WalksAreShort, Zenon
<1> HIDE DEF c
<1>4. m \in Nat /\ c + 1 >= m
  BY <1>1, <1>3
<1>5. Walk(up, q, c + 1) = Walk(up, q, m)
  BY <1>1, <1>3, <1>4, WalkStays, Zenon
<1>6. ASSUME NEW n \in Nat, Fixed(up, Walk(up, q, n)) PROVE Walk(up, q, n) = Walk(up, q, m)
  <2>1. n >= m \/ m >= n
    BY <1>4
  <2> QED
    BY <1>3, <1>4, <1>6, <2>1, WalkStays, Zenon
<1> QED
  BY <1>2, <1>3, <1>5, <1>6, Zenon

(* A program without an entry is its own root.                              *)
LEMMA RootOutside ==
  ASSUME NEW up, Forest(up), NEW q, q \notin DOMAIN up
  PROVE  RootReadonly(up, q) = q
<1> DEFINE A == {k \in Nat : Walk(up, q, k) = q}
<1>1. 0 \in A
  <2>1. 0 \in Nat
    OBVIOUS
  <2> QED
    BY <2>1, WalkSteps, Zenon
<1>2. ASSUME NEW k \in Nat, k \in A PROVE k + 1 \in A
  <2>1. k + 1 \in Nat
    OBVIOUS
  <2>2. Walk(up, q, k + 1) = Up(up, Walk(up, q, k)) /\ Walk(up, q, k) = q
    BY <1>2, WalkSteps, Zenon
  <2>3. Up(up, q) = q
    BY Zenon DEF Up
  <2> QED
    BY <2>1, <2>2, <2>3, Zenon
<1>3. \A k \in Nat : k \in A
  <2> HIDE DEF A
  <2> QED
    BY <1>1, <1>2, SetInduction, Zenon
<1>4. Cardinality(DOMAIN up) + 1 \in Nat
  <2>1. Cardinality(DOMAIN up) \in Nat
    BY FS_CardinalityType, Zenon DEF Forest
  <2> QED
    BY <2>1
<1> QED
  BY <1>3, <1>4, Zenon DEF RootReadonly, Steps

(* The compression of a path: its programs point at the root, which is      *)
(* their root already.                                                      *)
LEMMA CompressedKeepsForest ==
  ASSUME NEW up, Forest(up), NEW p
  PROVE  /\ Forest(Compressed(up, p))
         /\ \A q : RootReadonly(Compressed(up, p), q) = RootReadonly(up, q)
<1> DEFINE e == WithEntries(up, {p})
           root == RootReadonly(e, p)
           path == {Walk(e, p, n) : n \in 0 .. Steps(e)}
           f == Compressed(up, p)
<1>1. /\ Forest(e) /\ DOMAIN e = DOMAIN up \cup {p}
      /\ \A q : \A n \in Nat : Walk(e, q, n) = Walk(up, q, n)
  <2>1. Enlarged(up, p, e)
    BY EntriesKeepForest, Zenon
  <2> HIDE DEF e
  <2> QED
    BY <2>1, Zenon DEF Enlarged
<1>2. f = [q \in DOMAIN e |-> IF q \in path /\ e[root] = root THEN root ELSE e[q]]
  BY Zenon DEF Compressed
<1>3. Steps(e) \in Nat /\ \A n \in 0 .. Steps(e) : n \in Nat
  <2>1. Cardinality(DOMAIN e) \in Nat
    BY <1>1, FS_CardinalityType, Zenon DEF Forest
  <2>2. Steps(e) = Cardinality(DOMAIN e) + 1
    BY Zenon DEF Steps
  <2> QED
    BY <2>1, <2>2
<1>4. Fixed(e, root)
  <2>1. p \in DOMAIN e
    BY <1>1, Zenon
  <2> HIDE DEF e
  <2> QED
    BY <1>1, <2>1, RootIsFixed, Zenon
<1>5. root \in path /\ path \subseteq DOMAIN e
  <2>1. Steps(e) \in 0 .. Steps(e)
    BY <1>3
  <2>2. root = Walk(e, p, Steps(e))
    BY Zenon DEF RootReadonly
  <2>3. \A n \in Nat : Walk(e, p, n) \in DOMAIN e
    BY <1>1, WalkInside, Zenon DEF Forest
  <2> QED
    BY <1>3, <2>1, <2>2, <2>3, Zenon
<1>6. /\ DOMAIN f = DOMAIN e
      /\ \A q \in path : f[q] = root
      /\ \A q \in DOMAIN e \ path : f[q] = e[q]
      /\ f[root] = root
  <2> HIDE DEF f, path, root, e
  <2> QED
    BY <1>2, <1>4, <1>5, Zenon DEF Fixed
<1>7. ASSUME NEW q \in path PROVE \E n \in Nat : Walk(e, p, n) = q
  BY <1>3, Zenon
<1> HIDE DEF f, path, e
<1>8. ASSUME NEW q \in path PROVE Walk(f, q, 1) = root
  <2>1. Up(f, q) = root
    BY <1>5, <1>6, Zenon DEF Up
  <2> QED
    BY <2>1, FirstStep, Zenon
<1>9. Fixed(f, root) /\ 1 \in Nat
  BY <1>4, <1>6, Zenon DEF Fixed
<1>10. \A q \in path : Ends(f, q)
  BY <1>8, <1>9, Zenon DEF Ends
<1>11. \A q \in DOMAIN e : f[q] \in DOMAIN e
  BY <1>1, <1>4, <1>6, Zenon DEF Forest, Fixed
<1>12. Forest(f)
  <2>1. Regrafted(e, f, path)
    BY <1>6, <1>10, <1>11, Zenon DEF Regrafted
  <2> QED
    BY <1>1, <2>1, Regraft, Zenon
<1>13. ASSUME NEW q \in DOMAIN e PROVE RootReadonly(f, q) = RootReadonly(e, q)
  <2> DEFINE M == {i \in Nat : Walk(e, q, i) \in path}
  <2>1. PICK k \in Nat : Fixed(e, Walk(e, q, k))
    BY <1>1, Zenon DEF Forest, Ends
  <2>2. \A i \in Nat : Walk(e, q, i) \in DOMAIN e
    BY <1>1, WalkInside, Zenon DEF Forest
  <2>3. \A i \in Nat : Walk(e, q, i) \notin path => Up(f, Walk(e, q, i)) = Up(e, Walk(e, q, i))
    BY <1>6, <2>2, Zenon DEF Up
  <2>4. CASE M = {}
    <3>2. SameSteps(e, f, q, k)
      BY <2>3, <2>4, Zenon DEF SameSteps
    <3>3. Walk(f, q, k) = Walk(e, q, k)
      <4>1. SamePlace(e, f, q, k)
        BY <3>2, SameWalk, Zenon
      <4> QED
        BY <4>1, Zenon DEF SamePlace
    <3>4. Fixed(f, Walk(f, q, k))
      BY <1>6, <2>1, <2>2, <2>4, <3>3, Zenon DEF Fixed
    <3>5. Walk(f, q, k) = RootReadonly(f, q)
      BY <1>6, <1>12, <3>4, RootIsFixed, Zenon
    <3>6. Walk(e, q, k) = RootReadonly(e, q)
      BY <1>1, <2>1, RootIsFixed, Zenon
    <3> QED
      BY <3>3, <3>5, <3>6, Zenon
  <2>5. CASE M # {}
    <3>1. PICK m \in M : \A i \in M : m <= i
      <4>1. PICK x : x \in M
        BY <2>5, Zenon
      <4>2. M \subseteq Nat
        BY Zenon
      <4> HIDE DEF M
      <4> QED
        BY <4>1, <4>2, LeastNumber, Zenon
    <3>2. m \in Nat /\ Walk(e, q, m) \in path
      BY <3>1, Zenon
    <3>3. \A i \in Nat : i < m => Walk(e, q, i) \notin path
      <4>1. \A i \in Nat : i < m => ~(m <= i)
        BY <3>2
      <4> QED
        BY <3>1, <4>1, Zenon
    <3>4. m <= m /\ m + 1 \in Nat
      BY <3>2
    <3>5. Walk(f, q, m) = Walk(e, q, m)
      <4>1. SameSteps(e, f, q, m)
        BY <2>3, <3>3, Zenon DEF SameSteps
      <4>2. m \in Nat
        BY <3>2, Zenon
      <4>3. SamePlace(e, f, q, m)
        BY <4>1, <4>2, SameWalk, Zenon
      <4> QED
        BY <4>3, Zenon DEF SamePlace
    <3>6. Walk(f, q, m + 1) = root
      <4>1. Walk(f, q, m + 1) = Walk(f, Walk(f, q, m), 1)
        <5>1. Onward(f, q, m, 1)
          BY <1>9, <3>2, WalkOn, Zenon
        <5> QED
          BY <5>1, Zenon DEF Onward
      <4> QED
        BY <1>8, <3>2, <3>5, <4>1, Zenon
    <3>7. RootReadonly(f, q) = root
      <4>1. q \in DOMAIN f /\ Fixed(f, Walk(f, q, m + 1))
        BY <1>6, <1>9, <3>6, Zenon
      <4>2. Walk(f, q, m + 1) = RootReadonly(f, q)
        BY <1>12, <3>4, <4>1, RootIsFixed, Zenon
      <4> QED
        BY <3>6, <4>2, Zenon
    <3>8. PICK j \in Nat : Walk(e, p, j) = Walk(e, q, m)
      BY <1>7, <3>2, Zenon
    <3>9. PICK r \in Nat : Fixed(e, Walk(e, Walk(e, q, m), r))
      <4>1. Walk(e, q, m) \in DOMAIN e
        BY <2>2, <3>2, Zenon
      <4> QED
        BY <1>1, <4>1, Zenon DEF Forest, Ends
    <3>10. Walk(e, q, m + r) = Walk(e, Walk(e, q, m), r) /\ Walk(e, p, j + r) = Walk(e, Walk(e, q, m), r)
      <4>1. Walk(e, q, m + r) = Walk(e, Walk(e, q, m), r)
        <5>1. Onward(e, q, m, r)
          BY <3>2, WalkOn, Zenon
        <5> QED
          BY <5>1, Zenon DEF Onward
      <4>2. Walk(e, p, j + r) = Walk(e, Walk(e, p, j), r)
        <5>1. Onward(e, p, j, r)
          BY <3>8, WalkOn, Zenon
        <5> QED
          BY <5>1, Zenon DEF Onward
      <4> QED
        BY <3>8, <4>1, <4>2, Zenon
    <3>11. m + r \in Nat /\ j + r \in Nat
      BY <3>2
    <3>12. Walk(e, q, m + r) = RootReadonly(e, q)
      BY <1>1, <3>9, <3>10, <3>11, RootIsFixed, Zenon
    <3>13. p \in DOMAIN e
      BY <1>1, Zenon
    <3>14. Walk(e, p, j + r) = root
      BY <1>1, <3>9, <3>10, <3>11, <3>13, RootIsFixed, Zenon
    <3> QED
      BY <3>7, <3>10, <3>12, <3>14, Zenon
  <2> QED
    BY <2>4, <2>5, Zenon
<1>14. ASSUME NEW q PROVE RootReadonly(e, q) = RootReadonly(up, q)
  <2>1. CASE q \in DOMAIN up
    <3>1. PICK k \in Nat : Fixed(up, Walk(up, q, k))
      BY <2>1, Zenon DEF Forest, Ends
    <3>2. Walk(up, q, k) = RootReadonly(up, q)
      BY <2>1, <3>1, RootIsFixed, Zenon
    <3>3. Fixed(e, Walk(e, q, k))
      <4>1. \A x \in DOMAIN up : e[x] = up[x]
        BY Zenon DEF e, WithEntries
      <4> QED
        BY <1>1, <3>1, <4>1, Zenon DEF Fixed
    <3>4. Walk(e, q, k) = RootReadonly(e, q)
      BY <1>1, <2>1, <3>3, RootIsFixed, Zenon
    <3> QED
      BY <1>1, <3>2, <3>4, Zenon
  <2>2. CASE q \notin DOMAIN up
    <3>1. RootReadonly(up, q) = q
      BY <2>2, RootOutside, Zenon
    <3>2. Steps(up) \in Nat
      <4>1. Cardinality(DOMAIN up) \in Nat
        BY FS_CardinalityType, Zenon DEF Forest
      <4> QED
        BY <4>1 DEF Steps
    <3>3. CASE q \notin DOMAIN e
      BY <1>1, <3>1, <3>3, RootOutside, Zenon
    <3>4. CASE q \in DOMAIN e
      <4>1. Walk(e, q, Steps(up)) = q
        BY <1>1, <3>1, <3>2, Zenon DEF RootReadonly
      <4>2. e[q] = q
        BY <2>2, <3>4, Zenon DEF e, WithEntries
      <4>3. Fixed(e, Walk(e, q, Steps(up)))
        BY <3>4, <4>1, <4>2, Zenon DEF Fixed
      <4> QED
        BY <1>1, <3>1, <3>2, <3>4, <4>1, <4>3, RootIsFixed, Zenon
    <3> QED
      BY <3>3, <3>4, Zenon
  <2> QED
    BY <2>1, <2>2, Zenon
<1>15. ASSUME NEW q PROVE RootReadonly(f, q) = RootReadonly(up, q)
  <2>1. CASE q \in DOMAIN e
    BY <1>13, <1>14, <2>1, Zenon
  <2>2. CASE q \notin DOMAIN e
    <3>1. q \notin DOMAIN up /\ q \notin DOMAIN f
      BY <1>1, <1>6, <2>2, Zenon
    <3> QED
      BY <1>12, <3>1, RootOutside, Zenon
  <2> QED
    BY <2>1, <2>2, Zenon
<1> QED
  BY <1>12, <1>15, Zenon DEF f

(* Every step of the lineage keeps a forest a forest.                       *)
LEMMA LineageStep ==
  ASSUME Forest(parents), [LineageNext]_parents
  PROVE  Forest(parents)'
<1>1. ASSUME NEW p, NEW parent, NEW root, Observe(p, parent, root) PROVE Forest(parents')
  <2> DEFINE e == WithEntries(parents, {p})
             d == Declared(e, p, parent)
             g == Declared(d, p, root)
  <2>1. Forest(e) /\ p \in DOMAIN e
    BY EntriesKeepForest, Zenon DEF Enlarged
  <2>2. parents' = Compressed(g, p)
    BY <1>1, Zenon DEF Observe
  <2> HIDE DEF e
  <2>3. Forest(d) /\ p \in DOMAIN d
    BY <2>1, DeclaredKeepsForest, Zenon
  <2> HIDE DEF d
  <2>4. Forest(g)
    BY <2>3, DeclaredKeepsForest, Zenon
  <2> HIDE DEF g
  <2> QED
    BY <2>2, <2>4, CompressedKeepsForest, Zenon
<1>2. ASSUME NEW p, LookUpRoot(p) PROVE Forest(parents')
  BY <1>2, CompressedKeepsForest, Zenon DEF LookUpRoot
<1>3. ASSUME parents' = parents PROVE Forest(parents')
  BY <1>3, Zenon
<1>4. Forest(parents')
  BY <1>1, <1>2, <1>3, Zenon DEF LineageNext
<1> QED
  BY <1>4, Zenon DEF Forest, Ends

(* The empty table is a forest.                                             *)
LEMMA LineageStart == LineageInit => Forest(parents)
<1> SUFFICES ASSUME LineageInit PROVE Forest(parents)
  OBVIOUS
<1>1. DOMAIN parents = {}
  BY Zenon DEF LineageInit
<1>2. IsFiniteSet({})
  BY FS_EmptySet, Zenon
<1> QED
  BY <1>1, <1>2, Zenon DEF Forest

(* Every walk of a forest ends within the number of entries.                *)
LEMMA ForestWalksEnd == Forest(parents) => EveryWalkEnds
BY WalksAreShort, Zenon DEF EveryWalkEnds, Fixed

(* A lookup compresses the path it walked and changes the root of no        *)
(* program, for any programs and any declared parents and roots.            *)
THEOREM LookupsKeepRoots == LineageSpec => [][LookupsMoveNoRoot]_parents
<1>1. Forest(parents) => LookupsMoveNoRoot
  <2> SUFFICES ASSUME Forest(parents), NEW p \in Agents, LookUpRoot(p), NEW q \in Agents
               PROVE  RootReadonly(parents', q) = RootReadonly(parents, q)
    BY Zenon DEF LookupsMoveNoRoot
  <2> QED
    BY CompressedKeepsForest, Zenon DEF LookUpRoot
<1>2. Forest(parents) /\ [LineageNext]_parents => Forest(parents)'
  BY LineageStep, Zenon
<1> QED
  BY <1>1, <1>2, LineageStart, PTL DEF LineageSpec

-----------------------------------------------------------------------------
(* A finite set of numbers that is not empty has a least.                   *)
LEMMA FiniteMin ==
  ASSUME NEW S, IsFiniteSet(S), S \subseteq Int, S # {}
  PROVE  Min(S) \in S /\ \A y \in S : Min(S) <= y
<1> DEFINE A == {R \in SUBSET S : R = {} \/ \E x \in R : \A y \in R : x <= y}
<1>1. {} \in A
  OBVIOUS
<1>2. ASSUME NEW T \in SUBSET S, T \in A, NEW x \in S \ T PROVE T \cup {x} \in A
  <2>1. CASE T = {}
    <3>1. T \cup {x} = {x} /\ x <= x
      BY <2>1
    <3> QED
      BY <3>1
  <2>2. CASE T # {}
    <3>1. PICK m \in T : \A y \in T : m <= y
      BY <1>2, <2>2
    <3>2. CASE m <= x
      BY <3>1, <3>2
    <3>3. CASE ~(m <= x)
      <4>1. \A y \in T \cup {x} : x <= y
        BY <3>1, <3>3
      <4> QED
        BY <4>1
    <3> QED
      BY <3>2, <3>3
  <2> QED
    BY <2>1, <2>2
<1>3. S \in A
  <2> HIDE DEF A
  <2> QED
    BY <1>1, <1>2, FiniteSetInduction, Zenon
<1>4. \E x \in S : \A y \in S : x <= y
  BY <1>3
<1> QED
  BY <1>4, Zenon DEF Min

(* The numbers of T below t.  Every number less than the size of T is how   *)
(* many are below one of them: the n-th of the sorted candidates exists.    *)
Below(T, t) == {u \in T : u < t}

(* By induction on n: the next one is the least above the n-th.              *)
LEMMA NthExists ==
  ASSUME NEW T, IsFiniteSet(T), T \subseteq Int
  PROVE  \A n \in Nat : n < Cardinality(T) => \E t \in T : Cardinality(Below(T, t)) = n
<1> DEFINE A == {n \in Nat : n < Cardinality(T) => \E t \in T : Cardinality(Below(T, t)) = n}
<1>0. Cardinality(T) \in Nat
  BY FS_CardinalityType, Zenon
<1>1. 0 \in A
  <2>1. SUFFICES ASSUME 0 < Cardinality(T) PROVE \E t \in T : Cardinality(Below(T, t)) = 0
    OBVIOUS
  <2>2. T # {}
    BY <2>1, FS_EmptySet
  <2>3. Min(T) \in T /\ \A y \in T : Min(T) <= y
    BY <2>2, FiniteMin, Zenon
  <2>4. PICK m : m = Min(T)
    BY Zenon
  <2>5. m \in T /\ \A y \in T : m <= y
    BY <2>3, <2>4, Zenon
  <2>6. Below(T, m) = {}
    <3>1. \A u \in T : ~(u < m)
      BY <2>5
    <3> QED
      BY <3>1, Zenon DEF Below
  <2> QED
    BY <2>5, <2>6, FS_EmptySet, Zenon
<1>2. ASSUME NEW n \in Nat, n \in A PROVE n + 1 \in A
  <2>1. SUFFICES ASSUME n + 1 < Cardinality(T) PROVE \E t \in T : Cardinality(Below(T, t)) = n + 1
    OBVIOUS
  <2>2. PICK t \in T : Cardinality(Below(T, t)) = n
    BY <1>0, <1>2, <2>1
  <2> DEFINE L == Below(T, t)
             R == {u \in T : t < u}
  <2>3. IsFiniteSet(L) /\ IsFiniteSet(R) /\ t \notin L /\ R \subseteq T /\ L \subseteq T
    <3>1. L \subseteq T /\ R \subseteq T /\ t \notin L
      BY DEF Below
    <3> QED
      BY <3>1, FS_Subset, Zenon
  <2>4. Cardinality(L \cup {t}) = n + 1 /\ IsFiniteSet(L \cup {t})
    <3>1. Cardinality(L \cup {t}) = Cardinality(L) + 1 /\ IsFiniteSet(L \cup {t})
      BY <2>3, FS_AddElement, Zenon
    <3> QED
      BY <2>2, <3>1
  <2>5. R # {}
    <3>1. SUFFICES ASSUME R = {} PROVE FALSE
      OBVIOUS
    <3>2. \A u \in T : u = t \/ u < t
      BY <3>1
    <3>3. T \subseteq L \cup {t}
      BY <3>2, Zenon DEF Below
    <3>4. T = L \cup {t}
      BY <2>3, <3>3, Zenon
    <3>5. Cardinality(T) = n + 1
      BY <2>4, <3>4, Zenon
    <3> QED
      BY <1>0, <2>1, <3>5
  <2>6. R \subseteq Int
    OBVIOUS
  <2>7. Min(R) \in R /\ \A y \in R : Min(R) <= y
    <3> HIDE DEF R
    <3> QED
      BY <2>3, <2>5, <2>6, FiniteMin, Zenon
  <2>8. PICK m : m = Min(R)
    BY Zenon
  <2>9. m \in R /\ m \in T /\ t < m /\ \A y \in T : t < y => m <= y
    BY <2>7, <2>8, Zenon
  <2>10. Below(T, m) = L \cup {t}
    <3>1. \A u \in T : u < m <=> (u < t \/ u = t)
      BY <2>9
    <3>2. \A u : u \in Below(T, m) <=> u \in L \cup {t}
      BY <3>1, Zenon DEF Below
    <3> QED
      BY <3>2, Zenon
  <2> QED
    BY <2>4, <2>9, <2>10, Zenon
<1>3. \A n \in Nat : n \in A
  <2> HIDE DEF A
  <2> QED
    BY <1>1, <1>2, SetInduction, Zenon
<1> QED
  BY <1>3

(* The round-robin policy chooses one of the candidates.                    *)
LEMMA NthIsIn ==
  ASSUME NEW T \in SUBSET Homes, T # {}, NEW k \in Nat
  PROVE  Nth(T, k % Cardinality(T)) \in T
<1>1. IsFiniteSet(T) /\ T \subseteq Int
  BY HomesAssumption, FS_Subset, Zenon
<1>2. Cardinality(T) \in Nat /\ Cardinality(T) # 0
  BY <1>1, FS_CardinalityType, FS_EmptySet, Zenon
<1>3. k % Cardinality(T) \in Nat /\ k % Cardinality(T) < Cardinality(T)
  BY <1>2
<1>4. \E t \in T : Cardinality(Below(T, t)) = k % Cardinality(T)
  BY <1>1, <1>3, NthExists, Zenon
<1> QED
  BY <1>4, Zenon DEF Nth, Below

(* The rings of a pool: at most one, built from its own target list.        *)
IsRing(r) == r = NewRing(r.targets) /\ r.targets \in SUBSET Homes

RingsOk(R) == (\A r \in R : IsRing(r)) /\ \A r, s \in R : r = s

(* Whatever is cached, the ring used is the one of the list at hand.        *)
LEMMA RingIsForTheList ==
  ASSUME NEW R, RingsOk(R), NEW T \in SUBSET Homes
  PROVE  RingFor(R, T) = NewRing(T) /\ RingsOk({RingFor(R, T)})
<1>1. RingFor(R, T) = NewRing(T)
  <2>1. CASE \E r \in R : r.targets = T
    <3>1. PICK r \in R : r.targets = T
      BY <2>1, Zenon
    <3>2. (CHOOSE s \in R : TRUE) \in R
      BY <3>1, Zenon
    <3>3. (CHOOSE s \in R : TRUE) = r
      BY <3>1, <3>2, Zenon DEF RingsOk
    <3> QED
      BY <2>1, <3>1, <3>3, Zenon DEF RingFor, RingsOk, IsRing
  <2>2. CASE ~\E r \in R : r.targets = T
    BY <2>2, Zenon DEF RingFor
  <2> QED
    BY <2>1, <2>2, Zenon
<1>2. NewRing(T).targets = T
  BY Zenon DEF NewRing
<1>3. IsRing(NewRing(T))
  BY <1>2, Zenon DEF IsRing
<1> QED
  BY <1>1, <1>3, Zenon DEF RingsOk

(* A ring leads to a target of its list, or nowhere when it is empty.       *)
LEMMA SuccessorIsIn ==
  ASSUME NEW T \in SUBSET Homes, NEW h
  PROVE  RingSuccessor(NewRing(T).ring, h) \in T \cup {NoHome}
<1> DEFINE D == {j \in DOMAIN Points : Points[j] \in T}
           ring0 == NewRing(T).ring
           above == {i \in DOMAIN ring0 : i >= h}
<1>1. ring0 = [i \in D |-> Points[i]]
  BY Zenon DEF NewRing
<1>2. DOMAIN ring0 = D /\ \A i \in D : ring0[i] \in T
  BY <1>1, Zenon
<1>3. IsFiniteSet(D) /\ D \subseteq Int
  BY HomesAssumption, FS_Subset, Zenon
<1>4. IsFiniteSet(above) /\ above \subseteq D
  BY <1>2, <1>3, FS_Subset, Zenon
<1>5. RingSuccessor(ring0, h) = IF DOMAIN ring0 = {} THEN NoHome
                                ELSE ring0[IF above # {} THEN Min(above) ELSE Min(DOMAIN ring0)]
  BY Zenon DEF RingSuccessor
<1> HIDE DEF ring0, D, above
<1>6. CASE D = {}
  BY <1>2, <1>5, <1>6, Zenon DEF ring0
<1>7. CASE D # {} /\ above # {}
  <2>1. above \subseteq Int
    BY <1>3, <1>4, Zenon
  <2>2. Min(above) \in D
    BY <1>4, <1>7, <2>1, FiniteMin, Zenon
  <2>3. RingSuccessor(ring0, h) = ring0[Min(above)]
    BY <1>2, <1>5, <1>7, Zenon
  <2> QED
    BY <1>2, <2>2, <2>3, Zenon DEF ring0
<1>8. CASE D # {} /\ above = {}
  <2>1. Min(D) \in D
    BY <1>3, <1>8, FiniteMin, Zenon
  <2>2. RingSuccessor(ring0, h) = ring0[Min(D)]
    BY <1>2, <1>5, <1>8, Zenon
  <2> QED
    BY <1>2, <2>1, <2>2, Zenon DEF ring0
<1> QED
  BY <1>6, <1>7, <1>8, Zenon DEF ring0

(* The tables of a pool whose bindings are live under the target lists h,   *)
(* and which have the bindings of b outside the programs P.                 *)
RingSet == {NewRing(T) : T \in SUBSET Homes}

Tables == [binding : [Bound -> Homes \cup {NoHome}], home : Homes \cup {NoHome},
           ring : SUBSET RingSet, turn : Nat]

LiveTables(h, b, P) ==
  {st \in Tables :
     /\ RingsOk(st.ring)
     /\ \A p \in Bound : st.binding[p] \in h[PoolOf(p)] \cup {NoHome}
     /\ \A p \in Bound \ P : st.binding[p] = b[p]}

(* policy.select chooses a candidate or none and changes no binding.        *)
LEMMA SelectedIsLive ==
  ASSUME NEW h, NEW b, NEW P, NEW st \in LiveTables(h, b, P), NEW p, NEW T \in SUBSET Homes
  PROVE  /\ Selected(p, T, st) \in LiveTables(h, b, P)
         /\ Selected(p, T, st).home \in T \cup {NoHome}
         /\ Selected(p, T, st).binding = st.binding
<1>1. st \in Tables /\ RingsOk(st.ring)
  BY Zenon DEF LiveTables
<1>2. CASE strategy = "hash"
  <2> DEFINE r == RingFor(st.ring, T)
             x == RingSuccessor(r.ring, KeyHash[p])
  <2>1. r = NewRing(T) /\ RingsOk({r}) /\ r \in RingSet
    BY <1>1, RingIsForTheList, Zenon DEF RingSet
  <2>2. x \in T \cup {NoHome}
    BY <2>1, SuccessorIsIn, Zenon
  <2>3. Selected(p, T, st) = [st EXCEPT !.home = x, !.ring = {r}]
    BY <1>2, Zenon DEF Selected
  <2> HIDE DEF x, r
  <2>4. PICK s : s = [st EXCEPT !.home = x, !.ring = {r}]
    BY Zenon
  <2>5. s \in Tables /\ s.home = x /\ s.ring = {r} /\ s.binding = st.binding
    BY <1>1, <2>1, <2>2, <2>4, Zenon DEF Tables
  <2> QED
    BY <2>1, <2>2, <2>3, <2>4, <2>5, Zenon DEF LiveTables
<1>3. CASE strategy # "hash" /\ T = {}
  <2>1. Selected(p, T, st) = [st EXCEPT !.home = NoHome]
    BY <1>3, Zenon DEF Selected
  <2>2. PICK s : s = [st EXCEPT !.home = NoHome]
    BY Zenon
  <2>3. s \in Tables /\ s.home = NoHome /\ s.ring = st.ring /\ s.binding = st.binding
    BY <1>1, <2>2, Zenon DEF Tables
  <2> QED
    BY <2>1, <2>2, <2>3, Zenon DEF LiveTables
<1>4. CASE strategy # "hash" /\ T # {}
  <2> DEFINE x == Nth(T, st.turn % Cardinality(T))
  <2>1. st.turn \in Nat /\ st.turn + 1 \in Nat
    <3>1. st.turn \in Nat
      BY <1>1, Zenon DEF Tables
    <3> QED
      BY <3>1
  <2>2. x \in T
    BY <1>4, <2>1, NthIsIn, Zenon
  <2>3. Selected(p, T, st) = [st EXCEPT !.home = x, !.turn = st.turn + 1]
    BY <1>4, Zenon DEF Selected
  <2> HIDE DEF x
  <2>4. PICK s : s = [st EXCEPT !.home = x, !.turn = st.turn + 1]
    BY Zenon
  <2>5. s \in Tables /\ s.home = x /\ s.ring = st.ring /\ s.binding = st.binding
    BY <1>1, <2>1, <2>2, <2>4, Zenon DEF Tables
  <2> QED
    BY <2>2, <2>3, <2>4, <2>5, Zenon DEF LiveTables
<1> QED
  BY <1>2, <1>3, <1>4, Zenon

(* A table with a live binding for one of the programs P stays live.        *)
LEMMA BindingSet ==
  ASSUME NEW h, NEW b, NEW P, NEW st \in LiveTables(h, b, P), NEW p \in P, p \in Bound,
         NEW x \in h[PoolOf(p)] \cup {NoHome}, x \in Homes \cup {NoHome}
  PROVE  [st EXCEPT !.binding[p] = x] \in LiveTables(h, b, P)
<1>1. st \in Tables
  BY Zenon DEF LiveTables
<1>2. st.binding \in [Bound -> Homes \cup {NoHome}]
  BY <1>1, Zenon DEF Tables
<1>3. PICK g : g = [st.binding EXCEPT ![p] = x]
  BY Zenon
<1>4. g \in [Bound -> Homes \cup {NoHome}] /\ g[p] = x /\ \A q \in Bound : q # p => g[q] = st.binding[q]
  BY <1>2, <1>3, Zenon
<1>5. PICK s : s = [st EXCEPT !.binding = g]
  BY Zenon
<1>6. s \in Tables /\ s.binding = g /\ s.ring = st.ring
  BY <1>1, <1>4, <1>5, Zenon DEF Tables
<1>7. [st EXCEPT !.binding[p] = x] = s
  BY <1>3, <1>5, Zenon
<1>8. \A q \in Bound : s.binding[q] \in h[PoolOf(q)] \cup {NoHome}
  BY <1>4, <1>6, Zenon DEF LiveTables
<1>9. \A q \in Bound \ P : s.binding[q] = b[q]
  BY <1>4, <1>6, Zenon DEF LiveTables
<1> QED
  BY <1>6, <1>7, <1>8, <1>9, Zenon DEF LiveTables

(* bind keeps a live binding and stores only a candidate.                   *)
Offers(h, p, T) == p \in Bound /\ T \in SUBSET Homes /\ h[PoolOf(p)] = T

BindKeeps(p, T, st) == st.binding[p] \in T => Bind(p, T, st).binding = st.binding

(* A kept binding was live before, a chosen one is a candidate.              *)
LEMMA BindIsLive ==
  ASSUME NEW h, NEW b, NEW P, NEW st \in LiveTables(h, b, P), NEW p \in P, NEW T, Offers(h, p, T)
  PROVE  /\ Bind(p, T, st) \in LiveTables(h, b, P)
         /\ BindKeeps(p, T, st)
<1>0. p \in Bound /\ T \in SUBSET Homes /\ h[PoolOf(p)] = T
  BY Zenon DEF Offers
<1>1. st \in Tables
  BY Zenon DEF LiveTables
<1>2. CASE st.binding[p] \in T
  <2>1. Bind(p, T, st) = [st EXCEPT !.home = st.binding[p]]
    BY <1>2, Zenon DEF Bind, KeepsHome
  <2>2. PICK s : s = [st EXCEPT !.home = st.binding[p]]
    BY Zenon
  <2>3. st.binding[p] \in Homes
    BY <1>0, <1>2, Zenon
  <2>4. s \in Tables /\ s.binding = st.binding /\ s.ring = st.ring
    BY <1>1, <2>2, <2>3, Zenon DEF Tables
  <2> QED
    BY <2>1, <2>2, <2>4, Zenon DEF LiveTables, BindKeeps
<1>3. CASE st.binding[p] \notin T
  <2> DEFINE s == Selected(p, T, st)
  <2>1. s \in LiveTables(h, b, P) /\ s.home \in T \cup {NoHome}
    BY <1>0, SelectedIsLive, Zenon
  <2>2. Bind(p, T, st) = IF s.home = NoHome THEN s ELSE [s EXCEPT !.binding[p] = s.home]
    BY <1>3, Zenon DEF Bind, KeepsHome
  <2> HIDE DEF s
  <2>3. s.home \in h[PoolOf(p)] \cup {NoHome} /\ s.home \in Homes \cup {NoHome}
    BY <1>0, <2>1, Zenon
  <2>4. [s EXCEPT !.binding[p] = s.home] \in LiveTables(h, b, P)
    BY <1>0, <2>1, <2>3, BindingSet, Zenon
  <2> QED
    BY <1>3, <2>1, <2>2, <2>4, Zenon DEF BindKeeps
<1> QED
  BY <1>2, <1>3, Zenon

(* A program released and bound again.                                      *)
LEMMA ReboundIsLive ==
  ASSUME NEW h, NEW b, NEW P, NEW st \in LiveTables(h, b, P), NEW p \in P, p \in Bound,
         NEW T \in SUBSET Homes, h[PoolOf(p)] = T
  PROVE  Rebound(T, st, p) \in LiveTables(h, b, P)
<1>1. NoHome \in h[PoolOf(p)] \cup {NoHome} /\ NoHome \in Homes \cup {NoHome}
  BY Zenon
<1>2. [st EXCEPT !.binding[p] = NoHome] \in LiveTables(h, b, P)
  BY <1>1, BindingSet, Zenon
<1>3. Offers(h, p, T)
  BY Zenon DEF Offers
<1> QED
  BY <1>2, <1>3, BindIsLive, Zenon DEF Rebound

-----------------------------------------------------------------------------
(* The fold of a snapshot over the programs it rebinds, as a rule on the    *)
(* sets of their positions.                                                 *)
RebindRule(T, base, order, g) ==
  g = [s \in SUBSET DOMAIN order |->
         IF s = {} THEN base ELSE Rebound(T, g[s \ {Max(s)}], order[Max(s)])]

RebindTo(T, base, order) == CHOOSE g : RebindRule(T, base, order, g)

(* The fold is the value of the chosen function at all positions.            *)
LEMMA RebindIsChosen ==
  ASSUME NEW T, NEW base, NEW order
  PROVE  RebindInOrder(T, base, order) = RebindTo(T, base, order)[DOMAIN order]
BY Zenon DEF RebindInOrder, MapThenFoldSet, RebindTo, RebindRule

(* The greatest position of a set of positions.                             *)
LEMMA FiniteMax ==
  ASSUME NEW n \in Nat, NEW S \in SUBSET (1 .. n), S # {}
  PROVE  Max(S) \in S /\ \A y \in S : Max(S) >= y
<1> DEFINE N == {k \in Nat : \A R \in SUBSET (1 .. k) : R # {} => \E x \in R : \A y \in R : x >= y}
<1>1. 0 \in N
  <2>1. 1 .. 0 = {} /\ 0 \in Nat
    OBVIOUS
  <2> QED
    BY <2>1, Zenon
<1>2. ASSUME NEW k \in Nat, k \in N PROVE k + 1 \in N
  <2> SUFFICES ASSUME NEW R \in SUBSET (1 .. k + 1), R # {} PROVE \E x \in R : \A y \in R : x >= y
    OBVIOUS
  <2>1. CASE k + 1 \in R
    <3>1. \A y \in R : k + 1 >= y
      OBVIOUS
    <3> QED
      BY <2>1, <3>1
  <2>2. CASE k + 1 \notin R
    <3>1. R \in SUBSET (1 .. k)
      BY <2>2
    <3> QED
      BY <1>2, <3>1
  <2> QED
    BY <2>1, <2>2
<1>3. \A k \in Nat : k \in N
  <2> HIDE DEF N
  <2> QED
    BY <1>1, <1>2, SetInduction, Zenon
<1>4. \E x \in S : \A y \in S : x >= y
  BY <1>3, Zenon
<1> QED
  BY <1>4, Zenon DEF Max

(* The fold leaves a live table: by induction on the programs rebound.      *)
LEMMA RebindIsLive ==
  ASSUME NEW h, NEW b, NEW P \in SUBSET Bound, NEW T \in SUBSET Homes,
         \A p \in P : h[PoolOf(p)] = T,
         NEW base \in LiveTables(h, b, P), NEW n \in Nat, NEW order \in [1 .. n -> P]
  PROVE  RebindInOrder(T, base, order) \in LiveTables(h, b, P)
<1> DEFINE V == LiveTables(h, b, P)
           D == 1 .. n
           c == [s \in SUBSET D |-> Max(s)]
           step == [s \in SUBSET D |-> [v \in V |-> Rebound(T, v, order[Max(s)])]]
<1>1. IsFiniteSet(D) /\ DOMAIN order = D
  <2>1. 1 \in Int /\ n \in Int
    OBVIOUS
  <2> QED
    BY <2>1, FS_Interval, Zenon
<1>2. \A s \in SUBSET D : s # {} => Max(s) \in s /\ order[Max(s)] \in P
  BY FiniteMax, Zenon
<1>3. \A s \in SUBSET D : s # {} => \A v \in V : Rebound(T, v, order[Max(s)]) \in V
  <2> SUFFICES ASSUME NEW s \in SUBSET D, s # {}, NEW v \in V PROVE Rebound(T, v, order[Max(s)]) \in V
    BY Zenon
  <2> DEFINE p == order[Max(s)]
  <2>1. p \in P /\ p \in Bound /\ h[PoolOf(p)] = T
    BY <1>2, Zenon
  <2> HIDE DEF p
  <2>2. Rebound(T, v, p) \in V
    BY <2>1, ReboundIsLive, Zenon
  <2> QED
    BY <2>2, Zenon DEF p
<1> HIDE DEF V
<1>4. ChoosesFrom(D, c)
  <2>1. \A s \in SUBSET D : c[s] = Max(s)
    BY Zenon
  <2> HIDE DEF c, D
  <2> QED
    BY <1>2, <2>1, Zenon DEF ChoosesFrom
<1>5. StepsIn(D, V, step)
  <2>1. \A s \in SUBSET D : \A v \in V : step[s][v] = Rebound(T, v, order[Max(s)])
    BY Zenon
  <2> HIDE DEF step, D
  <2> QED
    BY <1>3, <2>1, Zenon DEF StepsIn
<1>6. PICK g : Follows(D, V, base, c, step, g)
  <2>1. base \in V
    BY Zenon DEF V
  <2> HIDE DEF D, c, step
  <2> QED
    BY <1>1, <1>4, <1>5, <2>1, SubsetRecursion, Zenon
<1>7. RebindRule(T, base, order, g)
  <2>1. g \in [SUBSET D -> V]
    BY <1>6, Zenon DEF Follows
  <2>2. ASSUME NEW s \in SUBSET D
        PROVE  g[s] = IF s = {} THEN base ELSE Rebound(T, g[s \ {Max(s)}], order[Max(s)])
    <3>1. g[s] = IF s = {} THEN base ELSE step[s][g[s \ {c[s]}]]
      <4> HIDE DEF D, c, step
      <4> QED
        BY <1>6, Zenon DEF Follows
    <3>2. c[s] = Max(s)
      BY Zenon
    <3>3. s \ {Max(s)} \in SUBSET D
      BY Zenon
    <3>4. g[s \ {Max(s)}] \in V
      BY <2>1, <3>3, Zenon
    <3>5. step[s][g[s \ {Max(s)}]] = Rebound(T, g[s \ {Max(s)}], order[Max(s)])
      BY <3>4, Zenon
    <3> HIDE DEF c, step, D
    <3> QED
      BY <3>1, <3>2, <3>5, Zenon
  <2> HIDE DEF D
  <2>3. g = [s \in SUBSET D |-> IF s = {} THEN base ELSE Rebound(T, g[s \ {Max(s)}], order[Max(s)])]
    BY <2>1, <2>2, Zenon
  <2> QED
    BY <1>1, <2>3, Zenon DEF RebindRule
<1> DEFINE r == RebindTo(T, base, order)
           A == {k \in Nat : k <= n => r[1 .. k] \in V}
<1>8. r = [s \in SUBSET D |-> IF s = {} THEN base ELSE Rebound(T, r[s \ {Max(s)}], order[Max(s)])]
  <2>1. RebindRule(T, base, order, r)
    BY <1>7, Zenon DEF RebindTo
  <2> HIDE DEF r, D
  <2> QED
    BY <1>1, <2>1, Zenon DEF RebindRule
<1> HIDE DEF r
<1>9. 0 \in A
  <2>1. 1 .. 0 = {} /\ {} \in SUBSET D
    OBVIOUS
  <2>2. r[{}] = base
    <3> HIDE DEF D
    <3> QED
      BY <1>8, <2>1, Zenon
  <2>3. base \in V
    BY Zenon DEF V
  <2> QED
    BY <2>1, <2>2, <2>3
<1>10. ASSUME NEW k \in Nat, k \in A PROVE k + 1 \in A
  <2>1. SUFFICES ASSUME k + 1 <= n PROVE r[1 .. k + 1] \in V
    OBVIOUS
  <2>2. 1 .. k + 1 \in SUBSET D /\ 1 .. k + 1 # {} /\ k <= n /\ k + 1 \in Nat
    <3>1. \A i \in 1 .. k + 1 : i \in 1 .. n
      BY <2>1
    <3>2. k + 1 \in 1 .. k + 1 /\ k <= n /\ k + 1 \in Nat
      BY <2>1
    <3> QED
      BY <3>1, <3>2, Zenon
  <2>3. 1 .. k + 1 \in SUBSET (1 .. k + 1)
    BY Zenon
  <2>4. Max(1 .. k + 1) \in 1 .. k + 1 /\ \A y \in 1 .. k + 1 : Max(1 .. k + 1) >= y
    BY <2>2, <2>3, FiniteMax, Zenon
  <2>5. Max(1 .. k + 1) = k + 1 /\ (1 .. k + 1) \ {k + 1} = 1 .. k
    BY <2>4
  <2>6. r[1 .. k + 1] = Rebound(T, r[1 .. k], order[k + 1])
    <3> HIDE DEF D
    <3> QED
      BY <1>8, <2>2, <2>5, Zenon
  <2>7. r[1 .. k] \in V
    BY <1>10, <2>2, Zenon
  <2>8. Rebound(T, r[1 .. k], order[Max(1 .. k + 1)]) \in V
    BY <1>3, <2>2, <2>7, Zenon
  <2> QED
    BY <2>5, <2>6, <2>8, Zenon
<1>11. \A k \in Nat : k \in A
  <2> HIDE DEF A
  <2> QED
    BY <1>9, <1>10, SetInduction, Zenon
<1>12. r[1 .. n] \in V
  BY <1>11
<1> QED
  BY <1>1, <1>12, RebindIsChosen, Zenon DEF r, V

(* What the home table looks like between two calls.                        *)
BindingTypes ==
  /\ homes \in [Pools -> SUBSET Homes]
  /\ binding \in [Bound -> Homes \cup {NoHome}]
  /\ turn \in [Pools -> Nat]
  /\ rings \in [Pools -> SUBSET RingSet]
  /\ \A q \in Pools : RingsOk(rings[q])

BindingInv == BindingTypes /\ BindingsAreLive

(* The table a call starts from, with the bindings g.                       *)
LEMMA TableIsLive ==
  ASSUME BindingTypes, NEW q \in Pools, NEW h, NEW P, NEW g \in [Bound -> Homes \cup {NoHome}],
         \A p \in Bound : g[p] \in h[PoolOf(p)] \cup {NoHome}
  PROVE  [Table(q) EXCEPT !.binding = g] \in LiveTables(h, g, P)
<1>1. rings[q] \in SUBSET RingSet /\ turn[q] \in Nat /\ RingsOk(rings[q])
  BY Zenon DEF BindingTypes
<1>2. PICK s : s = [Table(q) EXCEPT !.binding = g]
  BY Zenon
<1>3. s = [binding |-> g, home |-> NoHome, ring |-> rings[q], turn |-> turn[q]]
  BY <1>2, Zenon DEF Table
<1>4. s \in Tables /\ s.binding = g /\ s.ring = rings[q]
  BY <1>1, <1>3, Zenon DEF Tables
<1>5. s \in LiveTables(h, g, P)
  BY <1>1, <1>4, Zenon DEF LiveTables
<1> QED
  BY <1>2, <1>5, Zenon

(* A call that ends with a live table keeps the invariant.                  *)
LEMMA StoredIsLive ==
  ASSUME BindingTypes, NEW q \in Pools, NEW b, NEW P, homes' \in [Pools -> SUBSET Homes],
         NEW st \in LiveTables(homes', b, P), Stored(q, st)
  PROVE  BindingInv' /\ \A p \in Bound \ P : binding'[p] = b[p]
<1>1. st \in Tables /\ RingsOk(st.ring)
  BY Zenon DEF LiveTables
<1>2. st.ring \in SUBSET RingSet /\ st.turn \in Nat /\ st.binding \in [Bound -> Homes \cup {NoHome}]
  BY <1>1, Zenon DEF Tables
<1>3. binding' = st.binding /\ rings' = [rings EXCEPT ![q] = st.ring] /\ turn' = [turn EXCEPT ![q] = st.turn]
  BY Zenon DEF Stored
<1>4. rings' \in [Pools -> SUBSET RingSet] /\ turn' \in [Pools -> Nat]
  BY <1>2, <1>3, Zenon DEF BindingTypes
<1>5. \A r \in Pools : RingsOk(rings'[r])
  BY <1>1, <1>3, Zenon DEF BindingTypes
<1>6. BindingTypes'
  BY <1>2, <1>3, <1>4, <1>5, Zenon DEF BindingTypes
<1>7. BindingsAreLive'
  BY <1>3, Zenon DEF BindingsAreLive, LiveTables
<1>8. \A p \in Bound \ P : binding'[p] = b[p]
  BY <1>3, Zenon DEF LiveTables
<1> QED
  BY <1>6, <1>7, <1>8, Zenon DEF BindingInv

(* A new program is bound to a candidate of its pool, or keeps its home.    *)
LEMMA BindNewStep ==
  ASSUME BindingInv, NEW p \in Bound, BindNew(p)
  PROVE  BindingInv' /\ HomesAreSticky
<1> DEFINE q == PoolOf(p)
           st == Bind(p, homes[q], Table(q))
<1>1. q \in Pools /\ homes[q] \in SUBSET Homes /\ binding \in [Bound -> Homes \cup {NoHome}] /\ homes' = homes
  BY HomesAssumption, Zenon DEF BindingInv, BindingTypes, BindNew
<1>2. Table(q) \in LiveTables(homes, binding, {p}) /\ Table(q).binding = binding
  <2>1. \A r \in Bound : binding[r] \in homes[PoolOf(r)] \cup {NoHome}
    BY Zenon DEF BindingInv, BindingsAreLive
  <2>2. [Table(q) EXCEPT !.binding = binding] \in LiveTables(homes, binding, {p})
    <3> HIDE DEF q
    <3> QED
      BY <1>1, <2>1, TableIsLive, Zenon DEF BindingInv
  <2>3. [Table(q) EXCEPT !.binding = binding] = Table(q)
    BY SMT DEF Table
  <2>4. Table(q).binding = binding
    BY Zenon DEF Table
  <2> QED
    BY <2>2, <2>3, <2>4, Zenon
<1>3. /\ st \in LiveTables(homes, binding, {p})
      /\ binding[p] \in homes[q] => st.binding = binding
  <2>1. PICK P : P = {p}
    BY Zenon
  <2>2. PICK T : T = homes[q]
    BY Zenon
  <2>3. PICK t : t = Table(q)
    BY Zenon
  <2>4. p \in P /\ Offers(homes, p, T)
    BY <1>1, <2>1, <2>2, Zenon DEF Offers
  <2>5. t \in LiveTables(homes, binding, P)
    BY <1>2, <2>1, <2>3, Zenon
  <2>6. Bind(p, T, t) \in LiveTables(homes, binding, P)
    BY <2>4, <2>5, BindIsLive, Zenon
  <2>7. t.binding[p] \in T => Bind(p, T, t).binding = t.binding
    <3>1. BindKeeps(p, T, t)
      BY <2>4, <2>5, BindIsLive, Zenon
    <3> QED
      BY <3>1, Zenon DEF BindKeeps
  <2>8. t.binding = binding
    BY <1>2, <2>3, Zenon
  <2>9. st = Bind(p, T, t)
    BY <2>2, <2>3, Zenon
  <2> HIDE DEF st, q
  <2> QED
    BY <2>1, <2>2, <2>6, <2>7, <2>8, <2>9, Zenon
<1>4. Stored(q, st)
  BY Zenon DEF BindNew
<1>5. binding' = st.binding
  BY <1>4, Zenon DEF Stored
<1> HIDE DEF st
<1>6. st \in LiveTables(homes', binding, {p}) /\ homes' \in [Pools -> SUBSET Homes]
  BY <1>1, <1>3, Zenon DEF BindingInv, BindingTypes
<1>7. BindingInv' /\ \A r \in Bound \ {p} : binding'[r] = binding[r]
  BY <1>1, <1>4, <1>6, StoredIsLive, Zenon DEF BindingInv
<1>8. binding[p] # NoHome => binding'[p] = binding[p]
  BY <1>3, <1>5, Zenon DEF BindingInv, BindingsAreLive
<1>9. ASSUME NEW r \in Bound, binding[r] # NoHome PROVE binding'[r] = binding[r]
  BY <1>7, <1>8, <1>9, Zenon
<1> QED
  BY <1>7, <1>9, Zenon DEF HomesAreSticky

(* A placement elsewhere leaves the bindings alone, a release drops one.    *)
LEMMA ReleaseStep ==
  ASSUME BindingInv, NEW p \in Bound, ReleaseProgram(p)
  PROVE  BindingInv' /\ HomesAreSticky
<1>1. binding' = [binding EXCEPT ![p] = NoHome] /\ homes' = homes /\ rings' = rings /\ turn' = turn
  BY Zenon DEF ReleaseProgram
<1>2. binding \in [Bound -> Homes \cup {NoHome}]
  BY Zenon DEF BindingInv, BindingTypes
<1>3. binding' \in [Bound -> Homes \cup {NoHome}]
  BY <1>1, <1>2, Zenon
<1>4. \A r \in Bound : binding'[r] \in {NoHome, binding[r]}
  BY <1>1, <1>2, Zenon
<1>5. BindingTypes'
  BY <1>1, <1>3, Zenon DEF BindingInv, BindingTypes
<1>6. BindingsAreLive'
  BY <1>1, <1>4, Zenon DEF BindingInv, BindingsAreLive
<1> QED
  BY <1>4, <1>5, <1>6, Zenon DEF BindingInv, HomesAreSticky

(* What a snapshot leaves of the bindings before it rebinds a program.      *)
Kept(q, T, P) == [p \in Bound |-> IF p \in P THEN NoHome ELSE WithoutTargets(binding[p], homes[q] \ T)]

(* Of the removed targets none is left, in this pool or in another.          *)
LEMMA KeptIsLive ==
  ASSUME BindingInv, NEW q \in Pools, NEW T \in SUBSET Homes, NEW P, homes' = [homes EXCEPT ![q] = T]
  PROVE  /\ Kept(q, T, P) \in [Bound -> Homes \cup {NoHome}]
         /\ \A p \in Bound : Kept(q, T, P)[p] \in homes'[PoolOf(p)] \cup {NoHome}
         /\ \A p \in Bound : Kept(q, T, P)[p] \in {NoHome, binding[p]}
<1>0. PICK g : g = [p \in Bound |-> IF p \in P THEN NoHome ELSE WithoutTargets(binding[p], homes[q] \ T)]
  BY Zenon
<1>1. homes \in [Pools -> SUBSET Homes] /\ binding \in [Bound -> Homes \cup {NoHome}]
  BY Zenon DEF BindingInv, BindingTypes
<1>2. ASSUME NEW p \in Bound PROVE g[p] \in {NoHome, binding[p]}
  BY <1>0, Zenon DEF WithoutTargets
<1>3. ASSUME NEW p \in Bound PROVE g[p] \in homes'[PoolOf(p)] \cup {NoHome}
  <2>1. PoolOf(p) \in Pools /\ binding[p] \in homes[PoolOf(p)] \cup {NoHome}
    BY HomesAssumption, Zenon DEF BindingInv, BindingsAreLive
  <2>2. CASE PoolOf(p) # q
    <3>1. homes'[PoolOf(p)] = homes[PoolOf(p)]
      BY <1>1, <2>1, <2>2, Zenon
    <3> QED
      BY <1>2, <2>1, <3>1, Zenon
  <2>3. CASE PoolOf(p) = q
    <3>1. homes'[PoolOf(p)] = T
      BY <1>1, <2>1, <2>3, Zenon
    <3>2. g[p] = NoHome \/ (g[p] = binding[p] /\ binding[p] \notin homes[q] \ T)
      BY <1>0, Zenon DEF WithoutTargets
    <3> QED
      BY <2>1, <2>3, <3>1, <3>2, Zenon
  <2> QED
    BY <2>2, <2>3, Zenon
<1>4. \A p \in Bound : g[p] \in Homes \cup {NoHome}
  BY <1>1, <1>2, Zenon
<1>5. g \in [Bound -> Homes \cup {NoHome}]
  BY <1>0, <1>4, Zenon
<1>6. g = Kept(q, T, P)
  BY <1>0, Zenon DEF Kept
<1> QED
  BY <1>2, <1>3, <1>5, <1>6, Zenon

(* A snapshot rebinds only the programs whose last target left, and each of *)
(* them to a target that is there.                                          *)
LEMMA SyncStep ==
  ASSUME BindingInv, NEW q \in Pools, NEW T \in SUBSET Homes, SyncHomes(q, T)
  PROVE  BindingInv' /\ HomesAreSticky
<1> DEFINE P == {p \in Bound : PoolOf(p) = q /\ NeedsRebinding(p, T)}
           g == Kept(q, T, P)
           base == [Table(q) EXCEPT !.binding = g]
           Fold(order) == RebindInOrder(T, base, order)
<1>1. homes' = [homes EXCEPT ![q] = T]
  BY Zenon DEF SyncHomes
<1>2. PICK order \in Injection(1 .. Cardinality(P), P) : Stored(q, Fold(order))
  BY Zenon DEF SyncHomes, Kept
<1>3. homes' \in [Pools -> SUBSET Homes] /\ homes'[q] = T
  BY <1>1, Zenon DEF BindingInv, BindingTypes
<1>4. /\ g \in [Bound -> Homes \cup {NoHome}]
      /\ \A p \in Bound : g[p] \in homes'[PoolOf(p)] \cup {NoHome}
      /\ \A p \in Bound : g[p] \in {NoHome, binding[p]}
  <2> HIDE DEF P
  <2> QED
    BY <1>1, KeptIsLive, Zenon
<1>5. P \in SUBSET Bound /\ \A p \in P : homes'[PoolOf(p)] = T
  BY <1>3, Zenon
<1>6. IsFiniteSet(P) /\ Cardinality(P) \in Nat
  <2>1. IsFiniteSet(Bound)
    BY HomesAssumption, Zenon
  <2> HIDE DEF P
  <2>2. IsFiniteSet(P)
    BY <1>5, <2>1, FS_Subset, Zenon
  <2> QED
    BY <2>2, FS_CardinalityType, Zenon
<1>7. order \in [1 .. Cardinality(P) -> P]
  <2> HIDE DEF P
  <2> QED
    BY Zenon DEF Injection
<1>8. \A p \in P : last[p] \notin T /\ PoolOf(p) = q
  BY Zenon DEF NeedsRebinding
<1> HIDE DEF P, g
<1>9. base \in LiveTables(homes', g, P)
  BY <1>4, TableIsLive, Zenon DEF BindingInv
<1> HIDE DEF base
<1>10. Fold(order) \in LiveTables(homes', g, P)
  BY <1>5, <1>6, <1>7, <1>9, RebindIsLive, Zenon
<1> HIDE DEF Fold
<1>11. BindingInv' /\ \A p \in Bound \ P : binding'[p] = g[p]
  BY <1>2, <1>3, <1>10, StoredIsLive, Zenon DEF BindingInv
<1>12. ASSUME NEW p \in Bound, binding'[p] \notin {NoHome, binding[p]}
       PROVE  ~({binding[p], last[p]} \subseteq homes'[PoolOf(p)])
  <2>1. p \in P
    BY <1>4, <1>11, <1>12, Zenon
  <2> QED
    BY <1>3, <1>8, <2>1, Zenon
<1> QED
  BY <1>11, <1>12, Zenon DEF HomesAreSticky

(* Every call of the home table keeps the invariant and the homes.          *)
LEMMA BindingStep ==
  ASSUME BindingInv, [BindingNext]_bindingVars
  PROVE  BindingInv' /\ HomesAreSticky
<1>1. ASSUME binding' = binding, homes' = homes, rings' = rings, turn' = turn
      PROVE  BindingInv' /\ HomesAreSticky
  BY <1>1, Zenon DEF BindingInv, BindingTypes, BindingsAreLive, HomesAreSticky
<1>2. CASE UNCHANGED bindingVars
  <2>1. binding' = binding /\ homes' = homes /\ rings' = rings /\ turn' = turn
    BY <1>2, Zenon DEF bindingVars
  <2> QED
    BY <1>1, <2>1, Zenon
<1>3. ASSUME NEW p \in Bound, NEW t \in Homes, PlaceAt(p, t) PROVE BindingInv' /\ HomesAreSticky
  <2>1. binding' = binding /\ homes' = homes /\ rings' = rings /\ turn' = turn
    BY <1>3, Zenon DEF PlaceAt
  <2> QED
    BY <1>1, <2>1, Zenon
<1>4. CASE BindingNext
  BY <1>3, <1>4, BindNewStep, ReleaseStep, SyncStep, Zenon DEF BindingNext
<1> QED
  BY <1>2, <1>4, Zenon

(* No program is bound and no ring is built at the start.                   *)
LEMMA BindingStart ==
  ASSUME BindingInit
  PROVE  BindingInv
<1>1. homes = [q \in Pools |-> Homes] /\ binding = [p \in Bound |-> NoHome]
      /\ rings = [q \in Pools |-> {}] /\ turn = [q \in Pools |-> 0]
  BY Zenon DEF BindingInit
<1>2. 0 \in Nat
  OBVIOUS
<1>3. homes \in [Pools -> SUBSET Homes] /\ binding \in [Bound -> Homes \cup {NoHome}]
      /\ rings \in [Pools -> SUBSET RingSet] /\ turn \in [Pools -> Nat]
  BY <1>1, <1>2, Zenon
<1>4. \A q \in Pools : RingsOk(rings[q])
  BY <1>1, Zenon DEF RingsOk
<1>5. BindingsAreLive
  BY <1>1, Zenon DEF BindingsAreLive
<1> QED
  BY <1>3, <1>4, <1>5, Zenon DEF BindingInv, BindingTypes

(* The parent forest and the home table, for any programs, pools, targets   *)
(* and ring: root's while loop ends from every program, whatever parents    *)
(* and roots were declared in whatever order, and neither bind, the ring    *)
(* cache, the round-robin counter nor the rebinding of a snapshot leaves a  *)
(* program bound to a target outside its pool's snapshot.                   *)
THEOREM HomesStayLive == LineageSpec /\ BindingSpec => []HomesAreLive
<1>1. LineageInit => Forest(parents)
  BY LineageStart, Zenon
<1>2. Forest(parents) /\ [LineageNext]_parents => Forest(parents)'
  BY LineageStep, Zenon
<1>3. Forest(parents) => EveryWalkEnds
  BY ForestWalksEnd, Zenon
<1>4. BindingInit => BindingInv
  BY BindingStart, Zenon
<1>5. BindingInv /\ [BindingNext]_bindingVars => BindingInv'
  BY BindingStep, Zenon
<1>6. EveryWalkEnds /\ BindingInv => HomesAreLive
  BY Zenon DEF BindingInv, HomesAreLive
<1> QED
  BY <1>1, <1>2, <1>3, <1>4, <1>5, <1>6, PTL DEF LineageSpec, BindingSpec

(* bind and sync_target_snapshot_locked, for any pools and targets: a       *)
(* program moves from one home to another only when its home or its last    *)
(* target is gone from the snapshot of its pool.                            *)
THEOREM HomesStaySticky == BindingSpec => [][HomesAreSticky]_bindingVars
<1>1. BindingInit => BindingInv
  BY BindingStart, Zenon
<1>2. BindingInv /\ [BindingNext]_bindingVars => BindingInv'
  BY BindingStep, Zenon
<1>3. BindingInv /\ [BindingNext]_bindingVars => [HomesAreSticky]_bindingVars
  BY BindingStep, Zenon
<1> QED
  BY <1>1, <1>2, <1>3, PTL DEF BindingSpec
=============================================================================
