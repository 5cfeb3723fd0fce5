--------------------------- MODULE ProgramLifecycle ---------------------------
(***************************************************************************)
(* What the Program runtime promises, without generations, epochs or       *)
(* counters: every Program has a set of retained requests, served oldest   *)
(* first, and the set of its requests that run on its current target.  A   *)
(* completion removes its own request from that set and has no other       *)
(* effect; a Program is paused or forgotten only when the sets are empty.  *)
(***************************************************************************)
EXTENDS Integers

CONSTANTS Keys, Targets, NoTarget

VARIABLES
  phase,    \* "absent", "paused" or "active"
  place,    \* target of an active Program
  waiting,  \* ids of the retained requests
  running,  \* ids of the requests running on the current target
  arrived   \* number of requests that ever arrived

vars == <<phase, place, waiting, running, arrived>>

Init ==
  /\ phase = [k \in Keys |-> "absent"]
  /\ place = [k \in Keys |-> NoTarget]
  /\ waiting = [k \in Keys |-> {}]
  /\ running = [k \in Keys |-> {}]
  /\ arrived = 0

Oldest(k, id) == id \in waiting[k] /\ \A other \in waiting[k] : id <= other

Arrive(k) ==
  /\ arrived' = arrived + 1
  /\ waiting' = [waiting EXCEPT ![k] = @ \cup {arrived + 1}]
  /\ phase' = [phase EXCEPT ![k] = IF @ = "absent" THEN "paused" ELSE @]
  /\ UNCHANGED <<place, running>>

(* A paused Program with work gets a target; nothing runs on it yet.       *)
Start(k, t) ==
  /\ phase[k] = "paused" /\ waiting[k] # {}
  /\ phase' = [phase EXCEPT ![k] = "active"]
  /\ place' = [place EXCEPT ![k] = t]
  /\ UNCHANGED <<waiting, running, arrived>>

(* The oldest request of an active Program runs on the Program's target.   *)
Run(k, id) ==
  /\ phase[k] = "active" /\ Oldest(k, id)
  /\ waiting' = [waiting EXCEPT ![k] = @ \ {id}]
  /\ running' = [running EXCEPT ![k] = @ \cup {id}]
  /\ UNCHANGED <<phase, place, arrived>>

(* Start and Run in one step.                                              *)
StartAndRun(k, t, id) ==
  /\ phase[k] = "paused" /\ Oldest(k, id)
  /\ phase' = [phase EXCEPT ![k] = "active"]
  /\ place' = [place EXCEPT ![k] = t]
  /\ waiting' = [waiting EXCEPT ![k] = @ \ {id}]
  /\ running' = [running EXCEPT ![k] = {id}]
  /\ UNCHANGED arrived

Finish(k, id) ==
  /\ id \in running[k]
  /\ running' = [running EXCEPT ![k] = @ \ {id}]
  /\ UNCHANGED <<phase, place, waiting, arrived>>

(* A retained request is withdrawn; the last one of an idle Program takes  *)
(* the target with it.                                                     *)
Withdraw(k, id) ==
  LET idle == running[k] = {} /\ waiting[k] = {id} IN
  /\ id \in waiting[k]
  /\ waiting' = [waiting EXCEPT ![k] = @ \ {id}]
  /\ phase' = [phase EXCEPT ![k] = IF idle THEN "paused" ELSE @]
  /\ place' = [place EXCEPT ![k] = IF idle THEN NoTarget ELSE @]
  /\ UNCHANGED <<running, arrived>>

Pause(k) ==
  /\ phase[k] = "active" /\ running[k] = {}
  /\ phase' = [phase EXCEPT ![k] = "paused"]
  /\ place' = [place EXCEPT ![k] = NoTarget]
  /\ UNCHANGED <<waiting, running, arrived>>

Forget(k) ==
  /\ phase[k] # "absent" /\ running[k] = {} /\ waiting[k] = {}
  /\ phase' = [phase EXCEPT ![k] = "absent"]
  /\ place' = [place EXCEPT ![k] = NoTarget]
  /\ UNCHANGED <<waiting, running, arrived>>

(* The target disappears with everything that ran there.                   *)
LoseTarget(k) ==
  /\ phase[k] = "active"
  /\ phase' = [phase EXCEPT ![k] = "paused"]
  /\ place' = [place EXCEPT ![k] = NoTarget]
  /\ running' = [running EXCEPT ![k] = {}]
  /\ UNCHANGED <<waiting, arrived>>

Next == \E k \in Keys :
  \/ Arrive(k) \/ Pause(k) \/ Forget(k) \/ LoseTarget(k)
  \/ \E t \in Targets : Start(k, t) \/ \E id \in waiting[k] : StartAndRun(k, t, id)
  \/ \E id \in waiting[k] : Run(k, id) \/ Withdraw(k, id)
  \/ \E id \in running[k] : Finish(k, id)

Spec == Init /\ [][Next]_vars
=============================================================================
