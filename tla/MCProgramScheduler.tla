-------------------------- MODULE MCProgramScheduler --------------------------
(* Instances of ProgramScheduler for TLC.                                  *)
EXTENDS ProgramScheduler

CONSTANTS a, b, P, Q, pool, other, i, j

OnePool == [k \in Keys |-> pool]

AllServe == [p \in Pools |-> Targets]

(* The configurations of the router.                                       *)
RankLocal == [bindingOnly |-> FALSE, globalQueue |-> FALSE, capacity |-> FALSE, gated |-> FALSE]
Limited == [RankLocal EXCEPT !.capacity = TRUE, !.gated = TRUE]
Bound == [RankLocal EXCEPT !.bindingOnly = TRUE]
Global == [RankLocal EXCEPT !.globalQueue = TRUE]

GatedLocal == [RankLocal EXCEPT !.gated = TRUE]
GatedGlobal == [Global EXCEPT !.gated = TRUE]

FairConfigs == {RankLocal, GatedLocal, GatedGlobal}

EveryConfig == {RankLocal, Limited, Bound, Global, GatedGlobal}

(* Targets come and go, or stay as they are where more requests arrive.     *)
EveryView == [c \in Configs |-> CASE c = Limited -> {{a}}
                                  [] c = Bound -> {{}, {a}}
                                  [] c = Global -> {{a, b}}
                                  [] c = GatedGlobal -> {{b}, {a, b}}
                                  [] OTHER -> {{}, {a}, {a, b}}]
(* The target stays, or comes and goes.                                     *)
FairView == [c \in Configs |-> IF c = GatedGlobal THEN {{}, {a}} ELSE {{a}}]

FairCount == [c \in Configs |-> CASE c = RankLocal -> 3 [] c = GatedLocal -> 2 [] OTHER -> 1]

EveryCount == [c \in Configs |-> IF c \in {Global, Bound} THEN 3 ELSE 2]

Symmetry == Permutations(Tasks) \cup Permutations(Keys)
=============================================================================
