------------------------------ MODULE Induction ------------------------------
(***************************************************************************)
(* Induction over the natural numbers and over finite sets, stated for the *)
(* set of the numbers or sets that have the property, and what follows     *)
(* from it for the sum of a function over a finite set (SumFunctionOnSet   *)
(* of Functions) and for functions defined by recursion.                   *)
(***************************************************************************)
EXTENDS Integers, FiniteSets, Functions, WellFoundedInduction, FiniteSetTheorems, TLAPS

(* A set that holds 0 and the successor of each of its numbers holds every  *)
(* natural number: the least one outside it, which the well-founded order   *)
(* of Nat would give, cannot exist.                                         *)
LEMMA SetInduction ==
  ASSUME NEW A, 0 \in A, \A n \in Nat : n \in A => n + 1 \in A
  PROVE  \A n \in Nat : n \in A
<1> DEFINE B == Nat \ A
<1>1. SUFFICES ASSUME B # {} PROVE FALSE
  OBVIOUS
<1>2. IsWellFoundedOn(OpToRel(<, Nat), Nat)
  BY NatLessThanWellFounded, Zenon
<1>3. PICK m \in B : \A y \in B : ~(<<y, m>> \in OpToRel(<, Nat))
  <2>1. B \subseteq Nat
    OBVIOUS
  <2> HIDE DEF B
  <2> QED
    BY <1>1, <1>2, <2>1, WFMin, Zenon
<1>4. m \in Nat /\ m # 0
  OBVIOUS
<1>5. m - 1 \in Nat /\ m - 1 < m /\ (m - 1) + 1 = m
  BY <1>4
<1>6. m - 1 \in A
  <2>1. m - 1 \notin B
    BY <1>3, <1>4, <1>5, Zenon DEF OpToRel
  <2> QED
    BY <1>5, <2>1
<1> QED
  BY <1>5, <1>6

(* A family that holds the empty set, and with a part of S also that part   *)
(* with one more element, holds the finite set S.                           *)
LEMMA FiniteSetInduction ==
  ASSUME NEW S, IsFiniteSet(S), NEW A, {} \in A,
         \A T \in SUBSET S : T \in A => \A x \in S \ T : T \cup {x} \in A
  PROVE  S \in A
<1> DEFINE N == {n \in Nat : \A T \in SUBSET S : Cardinality(T) = n => T \in A}
<1>1. 0 \in N
  <2>1. ASSUME NEW T \in SUBSET S, Cardinality(T) = 0 PROVE T = {}
    BY <2>1, FS_Subset, FS_EmptySet
  <2> QED
    BY <2>1, Zenon
<1>2. ASSUME NEW n \in Nat, n \in N PROVE n + 1 \in N
  <2>1. SUFFICES ASSUME NEW T \in SUBSET S, Cardinality(T) = n + 1 PROVE T \in A
    OBVIOUS
  <2>2. IsFiniteSet(T)
    BY FS_Subset
  <2>3. PICK x : x \in T
    BY <2>1, <2>2, FS_EmptySet
  <2>4. Cardinality(T \ {x}) = n
    <3>1. Cardinality(T \ {x}) = Cardinality(T) - 1
      BY <2>2, <2>3, FS_RemoveElement, Zenon
    <3> QED
      BY <2>1, <3>1
  <2>5. T \ {x} \in A /\ T \ {x} \in SUBSET S /\ x \in S \ (T \ {x})
    BY <1>2, <2>3, <2>4
  <2>6. (T \ {x}) \cup {x} = T
    BY <2>3
  <2> QED
    BY <2>5, <2>6
<1>3. \A n \in Nat : n \in N
  <2> HIDE DEF N
  <2> QED
    BY <1>1, <1>2, SetInduction
<1>4. Cardinality(S) \in Nat
  BY FS_CardinalityType
<1> QED
  BY <1>3, <1>4

(* A nonempty finite set of numbers has a greatest one.                     *)
LEMMA GreatestExists ==
  ASSUME NEW S \in SUBSET Int, IsFiniteSet(S), S # {}
  PROVE  \E x \in S : \A y \in S : x >= y
<1> DEFINE Has(T) == \E x \in T : \A y \in T : x >= y
           A == {T \in SUBSET S : T = {} \/ Has(T)}
<1>1. {} \in A
  OBVIOUS
<1>2. ASSUME NEW T \in SUBSET S, T \in A, NEW x \in S \ T PROVE T \cup {x} \in A
  <2>1. CASE T = {}
    <3>1. Has(T \cup {x})
      BY <2>1
    <3> QED
      BY <3>1
  <2>2. CASE T # {}
    <3>1. PICK m \in T : \A y \in T : m >= y
      BY <1>2, <2>2, Zenon
    <3>2. CASE m >= x
      <4>1. Has(T \cup {x})
        BY <3>1, <3>2
      <4> QED
        BY <4>1
    <3>3. CASE ~(m >= x)
      <4>1. \A y \in T \cup {x} : x >= y
        BY <3>1, <3>3
      <4>2. Has(T \cup {x})
        BY <4>1
      <4> QED
        BY <4>2
    <3> QED
      BY <3>2, <3>3
  <2> QED
    BY <2>1, <2>2
<1>3. S \in A
  <2> HIDE DEF A
  <2> QED
    BY <1>1, <1>2, FiniteSetInduction, Zenon
<1> QED
  BY <1>3, Zenon

-----------------------------------------------------------------------------
(* SumFunctionOnSet folds the chosen elements away one after the other;     *)
(* SumTo is the function from the parts of S to their sums that the fold is *)
(* defined by.                                                              *)
Chosen(s) == CHOOSE x \in s : TRUE

SumRule(f, S, g) ==
  g = [s \in SUBSET S |-> IF s = {} THEN 0 ELSE f[Chosen(s)] + g[s \ {Chosen(s)}]]

SumTo(f, S) == CHOOSE g : SumRule(f, S, g)

(* The sum is what the fold computes for the whole set.                     *)
LEMMA SumIsAFold ==
  ASSUME NEW f, NEW S
  PROVE  SumFunctionOnSet(f, S) = SumTo(f, S)[S]
BY Zenon DEF SumFunctionOnSet, FoldFunctionOnSet, MapThenFoldSet, SumRule, Chosen, SumTo

(* The element chosen of a nonempty set is in it.                           *)
LEMMA ChosenIsIn ==
  ASSUME NEW s, s # {}
  PROVE  Chosen(s) \in s
BY DEF Chosen

(* A part of a finite set without one of its elements is a smaller part.    *)
LEMMA LessOne ==
  ASSUME NEW S, IsFiniteSet(S), NEW x \in S
  PROVE  /\ IsFiniteSet(S \ {x})
         /\ Cardinality(S \ {x}) \in Nat
         /\ Cardinality(S) = Cardinality(S \ {x}) + 1
<1>1. IsFiniteSet(S \ {x}) /\ Cardinality(S \ {x}) = Cardinality(S) - 1
  BY FS_RemoveElement
<1>2. Cardinality(S) \in Nat /\ Cardinality(S \ {x}) \in Nat
  BY <1>1, FS_CardinalityType
<1> QED
  BY <1>1, <1>2

(* c chooses an element of every nonempty part of S, step takes the value   *)
(* of the part without it to the value of the part, and g is the function   *)
(* this defines.                                                            *)
ChoosesFrom(S, c) == \A s \in SUBSET S : s # {} => c[s] \in s

StepsIn(S, V, step) == \A s \in SUBSET S : s # {} => \A v \in V : step[s][v] \in V

Follows(S, V, b, c, step, g) ==
  /\ g \in [SUBSET S -> V]
  /\ \A s \in SUBSET S : g[s] = IF s = {} THEN b ELSE step[s][g[s \ {c[s]}]]

(* Recursion over the parts of a finite set: by induction on the size of    *)
(* the parts, a function that follows the rule on the parts up to n is      *)
(* extended to those of n + 1.                                              *)
LEMMA SubsetRecursion ==
  ASSUME NEW S, IsFiniteSet(S), NEW V, NEW b \in V,
         NEW c, ChoosesFrom(S, c), NEW step, StepsIn(S, V, step)
  PROVE  \E g : Follows(S, V, b, c, step, g)
<1> DEFINE Step(g, s) == IF s = {} THEN b ELSE step[s][g[s \ {c[s]}]]
           UpTo(g, n) == \A s \in SUBSET S : Cardinality(s) <= n => g[s] = Step(g, s)
           N == {n \in Nat : \E g \in [SUBSET S -> V] : UpTo(g, n)}
<1>1. \A s \in SUBSET S : IsFiniteSet(s) /\ Cardinality(s) \in Nat
  BY FS_Subset, FS_CardinalityType
<1>2. \A s \in SUBSET S : s # {} => /\ s \ {c[s]} \in SUBSET S
                                    /\ Cardinality(s) = Cardinality(s \ {c[s]}) + 1
                                    /\ Cardinality(s \ {c[s]}) \in Nat
  <2> SUFFICES ASSUME NEW s \in SUBSET S, s # {}
               PROVE  /\ s \ {c[s]} \in SUBSET S
                      /\ Cardinality(s) = Cardinality(s \ {c[s]}) + 1
                      /\ Cardinality(s \ {c[s]}) \in Nat
    OBVIOUS
  <2>1. c[s] \in s /\ IsFiniteSet(s)
    BY <1>1, Zenon DEF ChoosesFrom
  <2>2. Cardinality(s) = Cardinality(s \ {c[s]}) + 1 /\ Cardinality(s \ {c[s]}) \in Nat
    BY <2>1, LessOne
  <2> QED
    BY <2>2
<1>3. 0 \in N
  <2>1. [s \in SUBSET S |-> b] \in [SUBSET S -> V]
    OBVIOUS
  <2>2. UpTo([s \in SUBSET S |-> b], 0)
    <3>1. ASSUME NEW s \in SUBSET S, Cardinality(s) <= 0 PROVE s = {}
      <4>1. Cardinality(s) = 0
        BY <1>1, <3>1
      <4> QED
        BY <1>1, <4>1, FS_EmptySet
    <3> QED
      BY <3>1
  <2> QED
    BY <2>1, <2>2, Zenon
<1>4. ASSUME NEW n \in Nat, n \in N PROVE n + 1 \in N
  <2>1. PICK g \in [SUBSET S -> V] : UpTo(g, n)
    BY <1>4, Zenon
  <2> DEFINE h == [s \in SUBSET S |-> IF Cardinality(s) = n + 1 THEN Step(g, s) ELSE g[s]]
  <2>2. \A s \in SUBSET S : Step(g, s) \in V
    <3> SUFFICES ASSUME NEW s \in SUBSET S PROVE Step(g, s) \in V
      OBVIOUS
    <3>1. CASE s # {}
      <4>1. s \ {c[s]} \in SUBSET S
        BY <1>2, <3>1
      <4>2. g[s \ {c[s]}] \in V
        BY <4>1
      <4> QED
        BY <4>2, <3>1, Zenon DEF StepsIn
    <3> QED
      BY <3>1, Zenon
  <2>3. h \in [SUBSET S -> V]
    BY <2>2
  <2>4. ASSUME NEW s \in SUBSET S, Cardinality(s) <= n + 1 PROVE h[s] = Step(h, s)
    <3>1. CASE s = {}
      <4>1. Cardinality(s) = 0
        BY <3>1, FS_EmptySet
      <4>2. 0 # n + 1 /\ 0 <= n
        BY SMT
      <4>3. h[s] = g[s] /\ g[s] = Step(g, s)
        BY <4>1, <4>2, <2>1, Zenon
      <4> QED
        BY <3>1, <4>3
    <3>2. CASE s # {}
      <4>1. /\ s \ {c[s]} \in SUBSET S
            /\ Cardinality(s) = Cardinality(s \ {c[s]}) + 1
            /\ Cardinality(s \ {c[s]}) \in Nat
        BY <1>2, <3>2, Zenon
      <4>2. Cardinality(s \ {c[s]}) # n + 1
        BY <2>4, <4>1
      <4>3. h[s \ {c[s]}] = g[s \ {c[s]}]
        BY <4>1, <4>2
      <4>4. Step(h, s) = Step(g, s)
        BY <4>3, Zenon
      <4>5. h[s] = Step(g, s)
        <5>1. CASE Cardinality(s) = n + 1
          BY <5>1
        <5>2. CASE Cardinality(s) # n + 1
          <6>1. Cardinality(s) <= n
            BY <5>2, <2>4, <1>1
          <6> QED
            BY <6>1, <5>2, <2>1
        <5> QED
          BY <5>1, <5>2
      <4> QED
        BY <4>4, <4>5, Zenon
    <3> QED
      BY <3>1, <3>2, Zenon
  <2>5. UpTo(h, n + 1)
    BY <2>4, Zenon
  <2> HIDE DEF h, UpTo
  <2> QED
    BY <2>3, <2>5
<1>5. \A n \in Nat : n \in N
  <2> HIDE DEF N
  <2> QED
    BY <1>3, <1>4, SetInduction
<1>6. PICK g \in [SUBSET S -> V] : UpTo(g, Cardinality(S))
  <2>1. Cardinality(S) \in N
    BY <1>1, <1>5, Zenon
  <2> QED
    BY <2>1, Zenon
<1>7. \A s \in SUBSET S : g[s] = Step(g, s)
  <2>1. \A s \in SUBSET S : Cardinality(s) <= Cardinality(S)
    BY FS_Subset
  <2> QED
    BY <1>6, <2>1
<1> QED
  BY <1>7, Zenon DEF Follows

(* There is a function that follows the rule of the sums.                   *)
LEMMA SumToExists ==
  ASSUME NEW S, IsFiniteSet(S), NEW f, \A x \in S : f[x] \in Int
  PROVE  \E g \in [SUBSET S -> Int] : SumRule(f, S, g)
<1>1. PICK c : c = [s \in SUBSET S |-> Chosen(s)]
  BY Zenon
<1>2. PICK step : step = [s \in SUBSET S |-> [v \in Int |-> f[Chosen(s)] + v]]
  BY Zenon
<1>3. \A s \in SUBSET S : s # {} => c[s] = Chosen(s) /\ c[s] \in s
  BY <1>1, ChosenIsIn
<1>4. \A s \in SUBSET S : \A v \in Int : step[s][v] = f[Chosen(s)] + v
  BY <1>2
<1>5. \A s \in SUBSET S : s # {} => \A v \in Int : step[s][v] \in Int
  <2> SUFFICES ASSUME NEW s \in SUBSET S, s # {}, NEW v \in Int PROVE step[s][v] \in Int
    OBVIOUS
  <2>1. f[Chosen(s)] \in Int
    BY <1>3
  <2> QED
    BY <1>4, <2>1
<1>6. PICK g \in [SUBSET S -> Int] :
        \A s \in SUBSET S : g[s] = IF s = {} THEN 0 ELSE step[s][g[s \ {c[s]}]]
  <2>1. 0 \in Int
    OBVIOUS
  <2>2. ChoosesFrom(S, c) /\ StepsIn(S, Int, step)
    BY <1>3, <1>5, Zenon DEF ChoosesFrom, StepsIn
  <2>3. \E g : Follows(S, Int, 0, c, step, g)
    BY <2>1, <2>2, SubsetRecursion, Zenon
  <2> QED
    BY <2>3, Zenon DEF Follows
<1>7. ASSUME NEW s \in SUBSET S
      PROVE  g[s] = IF s = {} THEN 0 ELSE f[Chosen(s)] + g[s \ {Chosen(s)}]
  <2>1. CASE s = {}
    BY <1>6, <2>1
  <2>2. CASE s # {}
    <3>1. g[s] = step[s][g[s \ {Chosen(s)}]]
      BY <1>3, <1>6, <2>2
    <3>2. g[s \ {Chosen(s)}] \in Int
      OBVIOUS
    <3> QED
      BY <1>4, <2>2, <3>1, <3>2
  <2> QED
    BY <2>1, <2>2
<1>8. g = [s \in SUBSET S |-> IF s = {} THEN 0 ELSE f[Chosen(s)] + g[s \ {Chosen(s)}]]
  BY <1>7
<1> QED
  BY <1>8, Zenon DEF SumRule

(* The chosen function follows the rule.                                    *)
LEMMA SumToRule ==
  ASSUME NEW S, IsFiniteSet(S), NEW f, \A x \in S : f[x] \in Int
  PROVE  \A s \in SUBSET S :
           SumTo(f, S)[s] = IF s = {} THEN 0
                            ELSE f[Chosen(s)] + SumTo(f, S)[s \ {Chosen(s)}]
<1>1. \E g : SumRule(f, S, g)
  BY SumToExists, Zenon
<1>2. SumRule(f, S, SumTo(f, S))
  BY <1>1, Zenon DEF SumTo
<1> QED
  BY <1>2, Zenon DEF SumRule

(* Two functions whose values agree on S have the same sums, and the sums   *)
(* are integers.                                                            *)
LEMMA SumToUnique ==
  ASSUME NEW S, IsFiniteSet(S), NEW f, \A x \in S : f[x] \in Int,
         NEW R \in SUBSET S, NEW e, \A x \in R : e[x] = f[x]
  PROVE  \A s \in SUBSET R : SumTo(e, R)[s] = SumTo(f, S)[s] /\ SumTo(f, S)[s] \in Int
<1> DEFINE Good(s) == SumTo(e, R)[s] = SumTo(f, S)[s] /\ SumTo(f, S)[s] \in Int
           N == {n \in Nat : \A s \in SUBSET R : Cardinality(s) = n => Good(s)}
<1>0. IsFiniteSet(R)
  BY FS_Subset
<1>1. \A s \in SUBSET R : IsFiniteSet(s) /\ Cardinality(s) \in Nat
  BY <1>0, FS_Subset, FS_CardinalityType
<1>2. 0 \in N
  <2>1. SUFFICES ASSUME NEW s \in SUBSET R, Cardinality(s) = 0 PROVE Good(s)
    OBVIOUS
  <2>2. s = {}
    BY <1>1, <2>1, FS_EmptySet
  <2>3. SumTo(e, R)[s] = 0 /\ SumTo(f, S)[s] = 0
    <3>1. \A x \in R : e[x] \in Int
      OBVIOUS
    <3>2. s \in SUBSET S
      OBVIOUS
    <3> QED
      BY <2>2, <1>0, <3>1, <3>2, SumToRule, Zenon
  <2> QED
    BY <2>3
<1>3. ASSUME NEW n \in Nat, n \in N PROVE n + 1 \in N
  <2>1. SUFFICES ASSUME NEW s \in SUBSET R, Cardinality(s) = n + 1 PROVE Good(s)
    OBVIOUS
  <2>2. s # {}
    <3>1. Cardinality({}) = 0
      BY FS_EmptySet
    <3>2. n + 1 # 0
      OBVIOUS
    <3> QED
      BY <2>1, <3>1, <3>2, Zenon
  <2>3. PICK x \in s : x = Chosen(s)
    BY <2>2, ChosenIsIn
  <2>4. Cardinality(s \ {x}) \in Nat /\ Cardinality(s) = Cardinality(s \ {x}) + 1
    BY <1>1, LessOne
  <2>5. Cardinality(s \ {x}) = n /\ s \ {x} \in SUBSET R
    BY <2>1, <2>4
  <2>6. Good(s \ {x})
    BY <1>3, <2>5
  <2>7. SumTo(e, R)[s] = e[x] + SumTo(e, R)[s \ {x}]
    <3>1. \A y \in R : e[y] \in Int
      OBVIOUS
    <3> QED
      BY <1>0, <2>2, <2>3, <3>1, SumToRule, Zenon
  <2>8. SumTo(f, S)[s] = f[x] + SumTo(f, S)[s \ {x}]
    <3>1. s \in SUBSET S
      OBVIOUS
    <3> QED
      BY <2>2, <2>3, <3>1, SumToRule, ZenonT(30)
  <2>9. e[x] = f[x] /\ f[x] \in Int
    OBVIOUS
  <2> QED
    BY <2>6, <2>7, <2>8, <2>9
<1>4. \A n \in Nat : n \in N
  <2> HIDE DEF N
  <2> QED
    BY <1>2, <1>3, SetInduction
<1> QED
  <2> SUFFICES ASSUME NEW s \in SUBSET R PROVE Good(s)
    OBVIOUS
  <2>1. Cardinality(s) \in N
    BY <1>1, <1>4
  <2> QED
    BY <2>1

-----------------------------------------------------------------------------
(* The sum over no index is zero.                                          *)
LEMMA SumOfNone ==
  ASSUME NEW f
  PROVE  SumFunctionOnSet(f, {}) = 0
<1>1. IsFiniteSet({})
  BY FS_EmptySet
<1>2. SumTo(f, {})[{}] = 0
  BY <1>1, SumToRule
<1> QED
  BY <1>2, SumIsAFold

(* The sum over a finite set depends on the values over that set only, and  *)
(* is an integer when they are.                                             *)
LEMMA SumOfSame ==
  ASSUME NEW S, IsFiniteSet(S), NEW f, \A x \in S : f[x] \in Int,
         NEW e, \A x \in S : e[x] = f[x]
  PROVE  SumFunctionOnSet(e, S) = SumFunctionOnSet(f, S) /\ SumFunctionOnSet(f, S) \in Int
<1>1. S \in SUBSET S
  OBVIOUS
<1>2. SumTo(e, S)[S] = SumTo(f, S)[S] /\ SumTo(f, S)[S] \in Int
  BY <1>1, SumToUnique
<1> QED
  BY <1>2, SumIsAFold

(* Whichever element is taken away first, the sum of a part is its value    *)
(* plus the sum of the others: the order of the fold does not matter.       *)
LEMMA SumToWithout ==
  ASSUME NEW S, IsFiniteSet(S), NEW f, \A x \in S : f[x] \in Int
  PROVE  \A s \in SUBSET S : \A x \in s : SumTo(f, S)[s] = f[x] + SumTo(f, S)[s \ {x}]
<1> DEFINE g == SumTo(f, S)
           Good(s) == \A x \in s : g[s] = f[x] + g[s \ {x}]
           N == {n \in Nat : \A s \in SUBSET S : Cardinality(s) = n => Good(s)}
<1>1. \A s \in SUBSET S : IsFiniteSet(s) /\ Cardinality(s) \in Nat
  BY FS_Subset, FS_CardinalityType
<1>2. \A s \in SUBSET S : g[s] \in Int
  <2>1. S \in SUBSET S
    OBVIOUS
  <2> QED
    BY <2>1, SumToUnique
<1>3. \A s \in SUBSET S : s # {} => g[s] = f[Chosen(s)] + g[s \ {Chosen(s)}]
  BY SumToRule
<1> HIDE DEF g
<1>4. 0 \in N
  <2>1. \A s \in SUBSET S : Cardinality(s) = 0 => s = {}
    BY <1>1, FS_EmptySet
  <2> QED
    BY <2>1
<1>5. ASSUME NEW n \in Nat, n \in N PROVE n + 1 \in N
  <2>1. SUFFICES ASSUME NEW s \in SUBSET S, Cardinality(s) = n + 1, NEW x \in s
                 PROVE  g[s] = f[x] + g[s \ {x}]
    OBVIOUS
  <2>2. PICK c \in s : c = Chosen(s)
    BY ChosenIsIn
  <2>3. g[s] = f[c] + g[s \ {c}]
    BY <1>3, <2>2
  <2>4. CASE x = c
    BY <2>3, <2>4
  <2>5. CASE x # c
    <3>1. \A y \in s : Cardinality(s \ {y}) = n
      <4> SUFFICES ASSUME NEW y \in s PROVE Cardinality(s \ {y}) = n
        OBVIOUS
      <4>1. Cardinality(s \ {y}) \in Nat /\ Cardinality(s) = Cardinality(s \ {y}) + 1
        BY <1>1, LessOne
      <4> QED
        BY <2>1, <4>1
    <3>2. s \ {c} \in SUBSET S /\ s \ {x} \in SUBSET S /\ x \in s \ {c} /\ c \in s \ {x}
      BY <2>5
    <3>3. g[s \ {c}] = f[x] + g[(s \ {c}) \ {x}]
      BY <1>5, <3>1, <3>2, Zenon
    <3>4. g[s \ {x}] = f[c] + g[(s \ {x}) \ {c}]
      BY <1>5, <3>1, <3>2
    <3>5. (s \ {x}) \ {c} = (s \ {c}) \ {x}
      OBVIOUS
    <3>6. PICK r \in Int : r = g[(s \ {x}) \ {c}]
      <4>1. (s \ {x}) \ {c} \in SUBSET S
        OBVIOUS
      <4> QED
        BY <1>2, <4>1
    <3>7. g[s] = f[c] + (f[x] + r) /\ g[s \ {x}] = f[c] + r
      BY <2>3, <3>3, <3>4, <3>5, <3>6, Zenon
    <3>8. f[c] \in Int /\ f[x] \in Int
      OBVIOUS
    <3> QED
      BY <3>7, <3>8
  <2> QED
    BY <2>4, <2>5
<1>6. \A n \in Nat : n \in N
  <2> HIDE DEF N
  <2> QED
    BY <1>4, <1>5, SetInduction
<1>7. ASSUME NEW s \in SUBSET S PROVE Good(s)
  <2>1. Cardinality(s) \in N
    BY <1>1, <1>6
  <2> QED
    BY <2>1
<1> QED
  BY <1>7 DEF g

(* The sum over a finite set is the value of any element plus the sum over  *)
(* the rest.                                                                *)
LEMMA SumWithout ==
  ASSUME NEW S, IsFiniteSet(S), NEW f, \A x \in S : f[x] \in Int, NEW x \in S
  PROVE  SumFunctionOnSet(f, S) = f[x] + SumFunctionOnSet(f, S \ {x})
<1>1. SumTo(f, S)[S] = f[x] + SumTo(f, S)[S \ {x}]
  <2>1. S \in SUBSET S
    OBVIOUS
  <2> QED
    BY <2>1, SumToWithout
<1>2. SumTo(f, S \ {x})[S \ {x}] = SumTo(f, S)[S \ {x}]
  <2>1. S \ {x} \in SUBSET S /\ S \ {x} \in SUBSET (S \ {x})
    OBVIOUS
  <2> QED
    BY <2>1, SumToUnique
<1> QED
  BY <1>1, <1>2, SumIsAFold

(* A sum of natural numbers is one.                                         *)
LEMMA SumIsNat ==
  ASSUME NEW S, IsFiniteSet(S), NEW f, \A x \in S : f[x] \in Nat
  PROVE  SumFunctionOnSet(f, S) \in Nat
<1> DEFINE A == {T \in SUBSET S : SumFunctionOnSet(f, T) \in Nat}
<1>1. {} \in A
  BY SumOfNone
<1>2. ASSUME NEW T \in SUBSET S, T \in A, NEW x \in S \ T PROVE T \cup {x} \in A
  <2>1. IsFiniteSet(T \cup {x})
    BY FS_Subset
  <2>2. (T \cup {x}) \ {x} = T
    OBVIOUS
  <2>3. \A y \in T \cup {x} : f[y] \in Int
    OBVIOUS
  <2>4. SumFunctionOnSet(f, T \cup {x}) = f[x] + SumFunctionOnSet(f, (T \cup {x}) \ {x})
    BY <2>1, <2>3, SumWithout
  <2>5. SumFunctionOnSet(f, T \cup {x}) = f[x] + SumFunctionOnSet(f, T)
    BY <2>2, <2>4
  <2> QED
    BY <1>2, <2>5
<1>3. S \in A
  <2> HIDE DEF A
  <2> QED
    BY <1>1, <1>2, FiniteSetInduction, Zenon
<1> QED
  BY <1>3

(* When at most x enters or leaves a finite set, the sum over it changes by *)
(* the value of x.                                                          *)
LEMMA SumMoves ==
  ASSUME NEW S, NEW T, NEW x, IsFiniteSet(S), \A y : y # x => (y \in S <=> y \in T),
         NEW f, \A y \in S \cup T : f[y] \in Int
  PROVE  /\ SumFunctionOnSet(f, S) \in Int
         /\ (x \in S <=> x \in T) => SumFunctionOnSet(f, T) = SumFunctionOnSet(f, S)
         /\ x \notin S /\ x \in T => SumFunctionOnSet(f, T) = SumFunctionOnSet(f, S) + f[x]
         /\ x \in S /\ x \notin T => SumFunctionOnSet(f, T) = SumFunctionOnSet(f, S) - f[x]
<1>1. SumFunctionOnSet(f, S) \in Int
  BY SumOfSame
<1>2. ASSUME x \in S <=> x \in T PROVE SumFunctionOnSet(f, T) = SumFunctionOnSet(f, S)
  <2>1. \A y : y \in S <=> y \in T
    BY <1>2, Zenon
  <2>2. S = T
    BY <2>1
  <2> QED BY <2>2
<1>3. ASSUME x \notin S, x \in T PROVE SumFunctionOnSet(f, T) = SumFunctionOnSet(f, S) + f[x]
  <2>1. T = S \cup {x} /\ T \ {x} = S
    BY <1>3, Zenon
  <2>2. IsFiniteSet(T)
    BY <2>1, FS_AddElement
  <2>3. SumFunctionOnSet(f, T) = f[x] + SumFunctionOnSet(f, T \ {x})
    BY <1>3, <2>2, SumWithout
  <2>4. PICK a \in Int, b \in Int : a = f[x] /\ b = SumFunctionOnSet(f, S)
    BY <1>1, <1>3, Zenon
  <2>5. SumFunctionOnSet(f, T) = a + b
    BY <2>1, <2>3, <2>4, Zenon
  <2>6. a + b = b + a
    OBVIOUS
  <2> QED BY <2>4, <2>5, <2>6, Zenon
<1>4. ASSUME x \in S, x \notin T PROVE SumFunctionOnSet(f, T) = SumFunctionOnSet(f, S) - f[x]
  <2>1. S \ {x} = T /\ T \in SUBSET S
    BY <1>4, Zenon
  <2>2. IsFiniteSet(T)
    BY <2>1, FS_Subset
  <2>3. SumFunctionOnSet(f, S) = f[x] + SumFunctionOnSet(f, S \ {x})
    BY <1>4, SumWithout
  <2>4. SumFunctionOnSet(f, T) \in Int
    BY <2>2, SumOfSame
  <2>5. PICK a \in Int, b \in Int : a = f[x] /\ b = SumFunctionOnSet(f, T)
    BY <1>4, <2>4, Zenon
  <2>6. SumFunctionOnSet(f, S) = a + b
    BY <2>1, <2>3, <2>5, Zenon
  <2>7. b = (a + b) - a
    OBVIOUS
  <2> QED BY <2>5, <2>6, <2>7, Zenon
<1> QED BY <1>1, <1>2, <1>3, <1>4

(* Two sets that differ in x at most.                                       *)
LEMMA CountMoves ==
  ASSUME NEW S, NEW T, NEW x, IsFiniteSet(S), \A y : y # x => (y \in S <=> y \in T)
  PROVE  /\ Cardinality(S) \in Nat
         /\ (x \in S <=> x \in T) => Cardinality(T) = Cardinality(S)
         /\ x \notin S /\ x \in T => Cardinality(T) = Cardinality(S) + 1
         /\ x \in S /\ x \notin T => Cardinality(T) = Cardinality(S) - 1 /\ Cardinality(S) > 0
<1>1. Cardinality(S) \in Nat
  BY FS_CardinalityType
<1>2. ASSUME x \in S <=> x \in T PROVE Cardinality(T) = Cardinality(S)
  <2>1. \A y : y \in S <=> y \in T
    BY <1>2, Zenon
  <2>2. S = T
    BY <2>1
  <2> QED BY <2>2
<1>3. ASSUME x \notin S, x \in T PROVE Cardinality(T) = Cardinality(S) + 1
  <2>1. T = S \cup {x}
    BY <1>3, Zenon
  <2> QED BY <1>3, <2>1, FS_AddElement
<1>4. ASSUME x \in S, x \notin T PROVE Cardinality(T) = Cardinality(S) - 1 /\ Cardinality(S) > 0
  <2>1. S = T \cup {x} /\ T \in SUBSET S
    BY <1>4, Zenon
  <2>2. IsFiniteSet(T)
    BY <2>1, FS_Subset
  <2>3. Cardinality(S) = Cardinality(T) + 1 /\ Cardinality(T) \in Nat
    BY <1>4, <2>1, <2>2, FS_AddElement, FS_CardinalityType
  <2> QED BY <2>3
<1> QED BY <1>1, <1>2, <1>3, <1>4

-----------------------------------------------------------------------------
(* g counts up from b: step[i] takes its value at i - 1 to the one at i.    *)
StepsUp(n, V, step) == \A i \in 1 .. n : \A v \in V : step[i][v] \in V

CountsUp(n, V, b, step, g) ==
  /\ g \in [0 .. n -> V]
  /\ g[0] = b
  /\ \A i \in 1 .. n : g[i] = step[i][g[i - 1]]

(* Recursion along the numbers up to n.                                     *)
LEMMA UpwardRecursion ==
  ASSUME NEW n \in Nat, NEW V, NEW b \in V, NEW step, StepsUp(n, V, step)
  PROVE  \E g : CountsUp(n, V, b, step, g)
<1> DEFINE A == {k \in Nat : k <= n => \E g : CountsUp(k, V, b, step, g)}
<1>1. 0 \in A
  <2>1. CountsUp(0, V, b, step, [i \in 0 .. 0 |-> b])
    BY SMT DEF CountsUp
  <2> QED
    BY <2>1
<1>2. ASSUME NEW k \in Nat, k \in A PROVE k + 1 \in A
  <2>1. SUFFICES ASSUME k + 1 <= n PROVE \E g : CountsUp(k + 1, V, b, step, g)
    OBVIOUS
  <2>2. PICK g : CountsUp(k, V, b, step, g)
    BY <1>2, <2>1
  <2> DEFINE h == [i \in 0 .. k + 1 |-> IF i <= k THEN g[i] ELSE step[k + 1][g[k]]]
  <2>3. step[k + 1][g[k]] \in V
    BY <2>1, <2>2 DEF CountsUp, StepsUp
  <2>4. h \in [0 .. k + 1 -> V] /\ h[0] = b
    BY <2>2, <2>3 DEF CountsUp
  <2>5. ASSUME NEW i \in 1 .. k + 1 PROVE h[i] = step[i][h[i - 1]]
    <3>1. CASE i <= k
      <4>1. h[i] = g[i] /\ h[i - 1] = g[i - 1] /\ i \in 1 .. k
        BY <3>1
      <4> QED
        BY <2>2, <4>1 DEF CountsUp
    <3>2. CASE i = k + 1
      <4>1. h[i] = step[k + 1][g[k]] /\ h[i - 1] = g[k]
        BY <3>2
      <4> QED
        BY <3>2, <4>1
    <3> QED
      BY <3>1, <3>2
  <2>6. CountsUp(k + 1, V, b, step, h)
    BY <2>4, <2>5 DEF CountsUp
  <2> QED
    BY <2>6
<1>3. \A k \in Nat : k \in A
  <2> HIDE DEF A
  <2> QED
    BY <1>1, <1>2, SetInduction
<1> QED
  BY <1>3
=============================================================================
