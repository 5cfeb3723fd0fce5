---------------------------- MODULE IdealLimiter ---------------------------
(* What the concurrency limit promises: a level that time raises to the    *)
(* capacity and no further, and requests that run only on a token they     *)
(* took from it and give back at most once.                                *)
EXTENDS Integers

CONSTANTS Requests, Capacity, One, Rate

VARIABLES level, held

vars == <<level, held>>

Init == level = Capacity /\ held = {}

Take(r) ==
  /\ r \notin held
  /\ level >= One
  /\ level' = level - One
  /\ held' = held \union {r}

GiveBack(r) ==
  /\ r \in held
  /\ level' = IF level + One > Capacity THEN Capacity ELSE level + One
  /\ held' = held \ {r}

(* A client that goes away takes its token along: the clock makes up for   *)
(* it.                                                                     *)
Lose(r) ==
  /\ r \in held
  /\ held' = held \ {r}
  /\ UNCHANGED level

(* A token granted to a client that is gone.                               *)
Waste ==
  /\ level >= One
  /\ level' = level - One
  /\ UNCHANGED held

Tick ==
  /\ level' = IF level + Rate > Capacity THEN Capacity ELSE level + Rate
  /\ UNCHANGED held

Next ==
  \/ \E r \in Requests : Take(r) \/ GiveBack(r) \/ Lose(r)
  \/ Waste
  \/ Tick

Spec == Init /\ [][Next]_vars
=============================================================================
