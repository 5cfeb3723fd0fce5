------------------------------ MODULE PdProofs ------------------------------
(***************************************************************************)
(* Proofs about the prefill-decode router: its requests and its servers.   *)
(***************************************************************************)
EXTENDS PdPath, Induction, SequenceTheorems

-----------------------------------------------------------------------------
(* What is left of a request                                                 *)

MainOps == {"enter", "encode", "prefill", "read", "params", "decode", "join", "settle",
            "deliver", "body", "end"}
ProfileOps == {"post", "spawn", "insert", "abort", "unpost"}
PdSteps == (MainOps \cup ProfileOps) \X Stages

(* Profiling calls, then one step of the handler; a call that was made is    *)
(* followed by its second half, and a worker is registered at most once.     *)
Program(t) ==
  /\ t \in Seq(PdSteps) /\ Len(t) >= 1 /\ t[Len(t)][1] \in MainOps
  /\ \A i \in 1 .. Len(t) - 1 :
       /\ t[i][1] \in ProfileOps
       /\ t[i][1] = "post" => t[i + 1] = <<"spawn", t[i][2]>>
       /\ t[i][1] = "abort" => t[i + 1] = <<"unpost", t[i][2]>>
  /\ \A i, j \in 1 .. Len(t) - 1 : i < j /\ t[i][1] = "insert" => t[j] # t[i]

Goal(t) == t[Len(t)][1]
Pends(t, w) == \E i \in 1 .. Len(t) - 1 : t[i] = <<"insert", w>>

(* A task is registered for the step that needs its worker.                  *)
Registers(t) ==
  /\ Pends(t, "p") => Goal(t) \in {"prefill", "join"}
  /\ Pends(t, "d") => Goal(t) \in {"decode", "join"}

PdState ==
  [todo : Seq(PdSteps), held : SUBSET Stages, together : BOOLEAN,
   kv : {"none", "push", "halfpush", "pull", "junk"}, by : 0 .. MaxEngines,
   params : {"none", "identity", "built", "answer"}, decoding : BOOLEAN, prefilled : BOOLEAN,
   armed : SUBSET Media, given : SUBSET Media, cancelled : SUBSET Media]

Phased(o) ==
  /\ o.held = Stages => o.together
  /\ "d" \in o.held => o.together \/ o.prefilled
  /\ scene.direct /\ o.together => o.params # "none"

(* Ended: nothing is held, and every transfer was handed over or cancelled.  *)
Closed(o) ==
  /\ o.held = {} /\ ~o.together /\ o.armed = {}
  /\ o.prefilled => o.cancelled \cap o.given = {}
  /\ o.prefilled /\ scene.epd /\ scene.direct => o.cancelled \cup o.given = Media
  /\ ~o.prefilled => o.given \subseteq o.cancelled

(* Before the dispatch: the guard has every transfer the encoder announced.  *)
Early(o) ==
  /\ o.held = {} /\ ~o.together /\ ~o.prefilled /\ o.given = {} /\ o.cancelled = {}
  /\ Goal(o.todo) = "enter" => o.armed = {}
  /\ Goal(o.todo) = "encode" => o.armed = Media /\ scene.direct /\ scene.epd

(* After it: the transfers were parted, and the guard has the ones in use    *)
(* until prefill took them.                                                  *)
Handed(o) ==
  /\ o.cancelled \cap o.given = {}
  /\ scene.epd /\ scene.direct => o.cancelled \cup o.given = Media
  /\ o.prefilled => o.armed = {}
  /\ ~o.prefilled => o.armed = o.given
  /\ ~scene.direct => o.armed = {} /\ o.given = {}

Late(o) ==
  /\ Handed(o)
  /\ Goal(o.todo) \in {"prefill", "read"} => ~o.together
  /\ Goal(o.todo) = "params" /\ scene.direct => o.prefilled /\ ~o.together

Local(o) ==
  /\ o \in PdState /\ Phased(o)
  /\ o.todo = <<>> => Closed(o)
  /\ o.todo # <<>> =>
       /\ Program(o.todo) /\ Registers(o.todo)
       /\ Goal(o.todo) \in {"enter", "encode"} => Early(o)
       /\ Goal(o.todo) \notin {"enter", "encode"} => Late(o)

(* The request has yet to register its timeout task for the worker w.        *)
Unstarted(o, w) ==
  /\ o.todo # <<>>
  /\ \/ Pends(o.todo, w)
     \/ Goal(o.todo) \in {"enter", "encode"}
     \/ w = "d" /\ Goal(o.todo) \in {"prefill", "read", "params"}
     \/ w = "p" /\ Goal(o.todo) = "params" /\ o.together

TasksAreLate ==
  \A w \in Stages : tasks[w] # NoTimer =>
    \E r \in PdRequests : tasks[w] = <<r, w>> /\ ~Unstarted(pd[r], w)

PathTypes ==
  /\ scene \in Scene /\ profiled \in SUBSET Stages /\ orphans \in SUBSET Stages
  /\ tasks \in [Stages -> Timers \cup {NoTimer}]
  /\ timers \in [Timers -> {"none", "asleep", "stopping"}]
  /\ tasksLock \in PdRequests \cup {"free"}
  /\ nixl \in 0 .. MaxEngines /\ engine \in 1 .. MaxEngines

Holders(w) == {r \in PdRequests : w \in pd[r].held}

PathInv ==
  /\ PathTypes
  /\ pd \in [PdRequests -> PdState] /\ \A r \in PdRequests : Local(pd[r])
  /\ pdLoad = [w \in Stages |-> Cardinality(Holders(w))]
  /\ TasksAreLate /\ ProfileHasAnEnd
-----------------------------------------------------------------------------
(* Programs                                                                  *)

(* Steps of the handler are no profiling calls.                              *)
LEMMA OpsApart == \A op \in MainOps : op \notin ProfileOps
BY DEF MainOps, ProfileOps

(* Short sequences.                                                          *)
LEMMA OneStep ==
  ASSUME NEW S, NEW a \in S
  PROVE  <<a>> \in Seq(S) /\ Len(<<a>>) = 1 /\ <<a>>[1] = a
OBVIOUS

(* Two steps as a sequence.                                                  *)
LEMMA TwoSteps ==
  ASSUME NEW S, NEW a \in S, NEW b \in S
  PROVE  \E s \in Seq(S) : s = <<a, b>> /\ Len(s) = 2 /\ s[1] = a /\ s[2] = b
<1>1. <<a, b>> \in Seq(S) /\ Len(<<a, b>>) = 2 /\ <<a, b>>[1] = a /\ <<a, b>>[2] = b
  OBVIOUS
<1> QED BY <1>1, Zenon

(* Three steps as a sequence.                                                *)
LEMMA ThreeSteps ==
  ASSUME NEW S, NEW a \in S, NEW b \in S, NEW c \in S
  PROVE  \E s \in Seq(S) : s = <<a, b, c>> /\ Len(s) = 3 /\ s[1] = a /\ s[2] = b /\ s[3] = c
<1>1. /\ <<a, b, c>> \in Seq(S) /\ Len(<<a, b, c>>) = 3
      /\ <<a, b, c>>[1] = a /\ <<a, b, c>>[2] = b /\ <<a, b, c>>[3] = c
  OBVIOUS
<1> QED BY <1>1, Zenon

(* A handler step by itself.                                                 *)
LEMMA DoProgram ==
  ASSUME NEW op \in MainOps
  PROVE  Program(Do(op)) /\ Goal(Do(op)) = op /\ \A w : ~Pends(Do(op), w)
<1>1. <<op, "p">> \in PdSteps
  BY Zenon DEF PdSteps, Stages
<1>2. PICK x \in PdSteps : x = <<op, "p">> /\ x[1] = op
  BY <1>1
<1>3. PICK t \in Seq(PdSteps) : t = <<x>> /\ Len(t) = 1 /\ t[1] = x
  BY OneStep, Zenon
<1>4. 1 .. Len(t) - 1 = {}
  BY <1>3
<1>5. t = Do(op)
  BY <1>2, <1>3, Zenon DEF Do
<1>6. Len(t) >= 1
  BY <1>3
<1> QED BY <1>2, <1>3, <1>4, <1>5, <1>6, Zenon DEF Program, Goal, Pends

(* Steps put in front.                                                       *)
Before(s, t, u, n) ==
  /\ u \in Seq(PdSteps) /\ Len(u) = n + Len(t) /\ Len(t) \in Nat
  /\ \A i \in 1 .. n : u[i] = s[i]
  /\ \A i \in 1 .. Len(t) : u[n + i] = t[i]

(* Where the steps of a list are once another one stands before it.          *)
LEMMA InFront ==
  ASSUME NEW s \in Seq(PdSteps), NEW t \in Seq(PdSteps)
  PROVE  Before(s, t, s \o t, Len(s))
<1> HIDE DEF PdSteps
<1>1. Len(s) \in Nat /\ Len(t) \in Nat
  OBVIOUS
<1>2. PICK u : u = s \o t
  BY Zenon
<1>3. u \in Seq(PdSteps) /\ Len(u) = Len(s) + Len(t)
  BY <1>2, ConcatProperties, Zenon
<1>4. \A i \in 1 .. Len(s) + Len(t) : u[i] = IF i <= Len(s) THEN s[i] ELSE t[i - Len(s)]
  BY <1>2, ConcatProperties, Zenon
<1>5. ASSUME NEW i \in 1 .. Len(s) PROVE u[i] = s[i]
  BY <1>1, <1>4
<1>6. ASSUME NEW i \in 1 .. Len(t) PROVE u[Len(s) + i] = t[i]
  <2>1. Len(s) + i \in 1 .. Len(s) + Len(t) /\ ~(Len(s) + i <= Len(s)) /\ (Len(s) + i) - Len(s) = i
    BY <1>1
  <2> QED BY <1>4, <2>1, Zenon
<1> QED BY <1>1, <1>2, <1>3, <1>5, <1>6, Zenon DEF Before

(* start_profiling in front of a program that does not register the worker.  *)
LEMMA StartProgram ==
  ASSUME NEW w \in Stages, NEW t, Program(t), ~Pends(t, w)
  PROVE  /\ Program(StartSteps(w) \o t) /\ Goal(StartSteps(w) \o t) = Goal(t)
         /\ \A v : Pends(StartSteps(w) \o t, v) => v = w \/ Pends(t, v)
<1>0. t \in Seq(PdSteps) /\ Len(t) >= 1 /\ Len(t) \in Nat
  <2>1. t \in Seq(PdSteps) /\ Len(t) >= 1
    BY Zenon DEF Program
  <2> HIDE DEF PdSteps
  <2> QED BY <2>1
<1>1. CASE ~scene.profile
  <2>1. StartSteps(w) \o t = t
    BY <1>0, <1>1, ConcatEmptySeq, Zenon DEF StartSteps
  <2> QED BY <2>1, Zenon
<1>2. CASE scene.profile
  <2>1. PICK a, b, c : a = <<"post", w>> /\ b = <<"spawn", w>> /\ c = <<"insert", w>>
    BY Zenon
  <2>2. a \in PdSteps /\ b \in PdSteps /\ c \in PdSteps
    BY <2>1, Zenon DEF PdSteps, ProfileOps
  <2>3. PICK s \in Seq(PdSteps) : s = <<a, b, c>> /\ Len(s) = 3 /\ s[1] = a /\ s[2] = b /\ s[3] = c
    BY <2>2, ThreeSteps
  <2>4. s = StartSteps(w)
    BY <1>2, <2>1, <2>3, Zenon DEF StartSteps
  <2>5. PICK u : u = s \o t
    BY Zenon
  <2>6. Before(s, t, u, 3)
    BY <1>0, <2>3, <2>5, InFront, Zenon
  <2>7. /\ u \in Seq(PdSteps) /\ Len(u) = 3 + Len(t) /\ u[1] = a /\ u[2] = b /\ u[3] = c
        /\ \A i \in 1 .. Len(t) : u[3 + i] = t[i]
    <3> HIDE DEF PdSteps
    <3> QED BY <2>3, <2>6 DEF Before
  <2>8. ASSUME NEW i \in 1 .. Len(u) - 1
        PROVE  i \in {1, 2, 3} \/ (i - 3 \in 1 .. Len(t) - 1 /\ u[i] = t[i - 3] /\ u[i + 1] = t[(i - 3) + 1])
    <3>1. Len(u) = 3 + Len(t) /\ Len(t) \in Nat /\ i \in Int
      BY <1>0, <2>7
    <3>2. CASE i > 3
      <4>1. i - 3 \in 1 .. Len(t) - 1 /\ i - 3 \in 1 .. Len(t) /\ (i - 3) + 1 \in 1 .. Len(t)
        BY <3>1, <3>2
      <4>2. 3 + (i - 3) = i /\ 3 + ((i - 3) + 1) = i + 1
        BY <3>1
      <4> QED BY <2>7, <4>1, <4>2, Zenon
    <3> QED BY <3>1, <3>2
  <2>9. u[Len(u)] = t[Len(t)] /\ Len(u) >= 1
    <3>1. Len(t) \in 1 .. Len(t) /\ 3 + Len(t) = Len(u) /\ Len(u) >= 1
      BY <1>0, <2>7
    <3> QED BY <2>7, <3>1, Zenon
  <2>10. a[1] = "post" /\ a[2] = w /\ b[1] = "spawn" /\ c[1] = "insert" /\ c[2] = w
    BY <2>1
  <2>11. ASSUME NEW i \in 1 .. Len(u) - 1
         PROVE  /\ u[i][1] \in ProfileOps
                /\ u[i][1] = "post" => u[i + 1] = <<"spawn", u[i][2]>>
                /\ u[i][1] = "abort" => u[i + 1] = <<"unpost", u[i][2]>>
    <3>0. 1 + 1 = 2 /\ 2 + 1 = 3
      OBVIOUS
    <3>1. CASE i = 1
      BY <2>1, <2>7, <2>10, <3>0, <3>1, Zenon DEF ProfileOps
    <3>2. CASE i = 2
      BY <2>1, <2>7, <2>10, <3>0, <3>2, Zenon DEF ProfileOps
    <3>3. CASE i = 3
      BY <2>1, <2>7, <2>10, <3>3, Zenon DEF ProfileOps
    <3>4. CASE i - 3 \in 1 .. Len(t) - 1 /\ u[i] = t[i - 3] /\ u[i + 1] = t[(i - 3) + 1]
      BY <3>4, Zenon DEF Program
    <3> QED BY <2>8, <3>1, <3>2, <3>3, <3>4, Zenon
  <2>12. ASSUME NEW i \in 1 .. Len(u) - 1, NEW j \in 1 .. Len(u) - 1, i < j, u[i][1] = "insert"
         PROVE  u[j] # u[i]
    <3>1. CASE i \in {1, 2}
      BY <2>7, <2>10, <2>12, <3>1, Zenon
    <3>2. CASE i = 3
      <4>1. j - 3 \in 1 .. Len(t) - 1 /\ u[j] = t[j - 3]
        <5>1. j \notin {1, 2, 3}
          BY <2>12, <3>2
        <5> QED BY <2>8, <5>1, Zenon
      <4> QED BY <2>1, <2>7, <3>2, <4>1, Zenon DEF Pends
    <3>3. CASE i - 3 \in 1 .. Len(t) - 1 /\ u[i] = t[i - 3]
      <4>1. j \notin {1, 2, 3}
        BY <2>12, <3>3, <1>0, <2>7
      <4>2. j - 3 \in 1 .. Len(t) - 1 /\ u[j] = t[j - 3]
        BY <2>8, <4>1, Zenon
      <4>3. i - 3 < j - 3
        BY <2>12, <3>3, <1>0, <2>7
      <4> QED BY <2>12, <3>3, <4>2, <4>3, Zenon DEF Program
    <3> QED BY <2>8, <3>1, <3>2, <3>3, Zenon
  <2>13. Program(u)
    <3>1. t[Len(t)][1] \in MainOps
      BY Zenon DEF Program
    <3> QED BY <2>7, <2>9, <2>11, <2>12, <3>1, Zenon DEF Program
  <2>14. Goal(u) = Goal(t)
    BY <2>9, Zenon DEF Goal
  <2>15. ASSUME NEW v, Pends(u, v) PROVE v = w \/ Pends(t, v)
    <3>1. PICK i \in 1 .. Len(u) - 1 : u[i] = <<"insert", v>>
      BY <2>15, Zenon DEF Pends
    <3>2. u[i][1] = "insert" /\ u[i][2] = v
      BY <3>1
    <3>3. CASE i \in {1, 2, 3}
      BY <2>7, <2>10, <3>2, <3>3, Zenon
    <3>4. CASE i - 3 \in 1 .. Len(t) - 1 /\ u[i] = t[i - 3]
      BY <3>1, <3>4, Zenon DEF Pends
    <3> QED BY <2>8, <3>3, <3>4, Zenon
  <2> QED BY <2>4, <2>5, <2>13, <2>14, <2>15, Zenon
<1> QED BY <1>1, <1>2, Zenon

(* stop_profiling in front of a program.                                     *)
LEMMA StopProgram ==
  ASSUME NEW w \in Stages, NEW t, Program(t)
  PROVE  /\ Program(StopSteps(w) \o t) /\ Goal(StopSteps(w) \o t) = Goal(t)
         /\ \A v : Pends(StopSteps(w) \o t, v) => Pends(t, v)
<1>0. t \in Seq(PdSteps) /\ Len(t) >= 1 /\ Len(t) \in Nat
  <2>1. t \in Seq(PdSteps) /\ Len(t) >= 1
    BY Zenon DEF Program
  <2> HIDE DEF PdSteps
  <2> QED BY <2>1
<1>1. CASE ~scene.profile
  <2>1. StopSteps(w) \o t = t
    BY <1>0, <1>1, ConcatEmptySeq, Zenon DEF StopSteps
  <2> QED BY <2>1, Zenon
<1>2. CASE scene.profile
  <2>1. PICK a, b : a = <<"abort", w>> /\ b = <<"unpost", w>>
    BY Zenon
  <2>2. a \in PdSteps /\ b \in PdSteps
    BY <2>1, Zenon DEF PdSteps, ProfileOps
  <2>3. PICK s \in Seq(PdSteps) : s = <<a, b>> /\ Len(s) = 2 /\ s[1] = a /\ s[2] = b
    BY <2>2, TwoSteps
  <2>4. s = StopSteps(w)
    BY <1>2, <2>1, <2>3, Zenon DEF StopSteps
  <2>5. PICK u : u = s \o t
    BY Zenon
  <2>6. Before(s, t, u, 2)
    BY <1>0, <2>3, <2>5, InFront, Zenon
  <2>7. /\ u \in Seq(PdSteps) /\ Len(u) = 2 + Len(t) /\ u[1] = a /\ u[2] = b
        /\ \A i \in 1 .. Len(t) : u[2 + i] = t[i]
    <3> HIDE DEF PdSteps
    <3> QED BY <2>3, <2>6 DEF Before
  <2>8. ASSUME NEW i \in 1 .. Len(u) - 1
        PROVE  i \in {1, 2} \/ (i - 2 \in 1 .. Len(t) - 1 /\ u[i] = t[i - 2] /\ u[i + 1] = t[(i - 2) + 1])
    <3>1. Len(u) = 2 + Len(t) /\ Len(t) \in Nat /\ i \in Int
      BY <1>0, <2>7
    <3>2. CASE i > 2
      <4>1. i - 2 \in 1 .. Len(t) - 1 /\ i - 2 \in 1 .. Len(t) /\ (i - 2) + 1 \in 1 .. Len(t)
        BY <3>1, <3>2
      <4>2. 2 + (i - 2) = i /\ 2 + ((i - 2) + 1) = i + 1
        BY <3>1
      <4> QED BY <2>7, <4>1, <4>2, Zenon
    <3> QED BY <3>1, <3>2
  <2>9. u[Len(u)] = t[Len(t)] /\ Len(u) >= 1
    <3>1. Len(t) \in 1 .. Len(t) /\ 2 + Len(t) = Len(u) /\ Len(u) >= 1
      BY <1>0, <2>7
    <3> QED BY <2>7, <3>1, Zenon
  <2>10. a[1] = "abort" /\ a[2] = w /\ b[1] = "unpost"
    BY <2>1
  <2>11. ASSUME NEW i \in 1 .. Len(u) - 1
         PROVE  /\ u[i][1] \in ProfileOps
                /\ u[i][1] = "post" => u[i + 1] = <<"spawn", u[i][2]>>
                /\ u[i][1] = "abort" => u[i + 1] = <<"unpost", u[i][2]>>
    <3>0. 1 + 1 = 2
      OBVIOUS
    <3>1. CASE i = 1
      BY <2>1, <2>7, <2>10, <3>0, <3>1, Zenon DEF ProfileOps
    <3>2. CASE i = 2
      BY <2>1, <2>7, <2>10, <3>0, <3>2, Zenon DEF ProfileOps
    <3>3. CASE i - 2 \in 1 .. Len(t) - 1 /\ u[i] = t[i - 2] /\ u[i + 1] = t[(i - 2) + 1]
      BY <3>3, Zenon DEF Program
    <3> QED BY <2>8, <3>1, <3>2, <3>3, Zenon
  <2>12. ASSUME NEW i \in 1 .. Len(u) - 1, NEW j \in 1 .. Len(u) - 1, i < j, u[i][1] = "insert"
         PROVE  u[j] # u[i]
    <3>1. CASE i \in {1, 2}
      BY <2>7, <2>10, <2>12, <3>1, Zenon
    <3>2. CASE i - 2 \in 1 .. Len(t) - 1 /\ u[i] = t[i - 2]
      <4>1. j \notin {1, 2}
        BY <2>12, <3>2, <1>0, <2>7
      <4>2. j - 2 \in 1 .. Len(t) - 1 /\ u[j] = t[j - 2]
        BY <2>8, <4>1, Zenon
      <4>3. i - 2 < j - 2
        BY <2>12, <3>2, <1>0, <2>7
      <4> QED BY <2>12, <3>2, <4>2, <4>3, Zenon DEF Program
    <3> QED BY <2>8, <3>1, <3>2, Zenon
  <2>13. Program(u)
    <3>1. t[Len(t)][1] \in MainOps
      BY Zenon DEF Program
    <3> QED BY <2>7, <2>9, <2>11, <2>12, <3>1, Zenon DEF Program
  <2>14. Goal(u) = Goal(t)
    BY <2>9, Zenon DEF Goal
  <2>15. ASSUME NEW v, Pends(u, v) PROVE Pends(t, v)
    <3>1. PICK i \in 1 .. Len(u) - 1 : u[i] = <<"insert", v>>
      BY <2>15, Zenon DEF Pends
    <3>2. u[i][1] = "insert" /\ u[i][2] = v
      BY <3>1
    <3>3. CASE i \in {1, 2}
      BY <2>7, <2>10, <3>2, <3>3, Zenon
    <3>4. CASE i - 2 \in 1 .. Len(t) - 1 /\ u[i] = t[i - 2]
      BY <3>1, <3>4, Zenon DEF Pends
    <3> QED BY <2>8, <3>3, <3>4, Zenon
  <2> QED BY <2>4, <2>5, <2>13, <2>14, <2>15, Zenon
<1> QED BY <1>1, <1>2, Zenon

(* A profiling call is over: the program goes on, and the second half of the *)
(* call comes next.                                                          *)
LEMMA TailProgram ==
  ASSUME NEW t, Program(t), Head(t)[1] \in ProfileOps
  PROVE  /\ Program(Tail(t)) /\ Goal(Tail(t)) = Goal(t) /\ Tail(t) # <<>>
         /\ \A v : Pends(Tail(t), v) => Pends(t, v)
         /\ Head(t)[1] = "insert" => Pends(t, Head(t)[2]) /\ ~Pends(Tail(t), Head(t)[2])
         /\ Head(t)[1] = "post" => Head(Tail(t)) = <<"spawn", Head(t)[2]>>
         /\ Head(t)[1] = "abort" => Head(Tail(t)) = <<"unpost", Head(t)[2]>>
         /\ Head(t) \in PdSteps
<1>0. t \in Seq(PdSteps) /\ Len(t) >= 1 /\ t[Len(t)][1] \in MainOps
  BY Zenon DEF Program
<1>1. Len(t) \in Nat /\ t # <<>> /\ Head(t) = t[1]
  <2> HIDE DEF PdSteps
  <2> QED BY <1>0
<1>2. Len(t) # 1
  BY <1>0, <1>1, OpsApart, Zenon
<1>3. PICK u : u = Tail(t)
  BY Zenon
<1>4. /\ u \in Seq(PdSteps) /\ Len(u) = Len(t) - 1
      /\ \A i \in 1 .. Len(u) : u[i] = t[i + 1]
  BY <1>0, <1>1, <1>3, HeadTailProperties
<1>5. Len(u) >= 1 /\ Len(u) \in Nat /\ Len(u) + 1 = Len(t) /\ Len(u) \in 1 .. Len(u) /\ 1 \in 1 .. Len(u)
  BY <1>0, <1>1, <1>2, <1>4
<1>6. u[Len(u)] = t[Len(t)] /\ u[1] = t[1 + 1]
  BY <1>4, <1>5, Zenon
<1>7. u # <<>> /\ Head(u) = u[1]
  <2> HIDE DEF PdSteps
  <2> QED BY <1>4, <1>5
<1>8. 1 \in 1 .. Len(t) - 1
  BY <1>1, <1>4, <1>5
<1>9. ASSUME NEW i \in 1 .. Len(u) - 1
      PROVE  i \in Nat /\ i + 1 \in 1 .. Len(t) - 1 /\ u[i] = t[i + 1] /\ u[i + 1] = t[(i + 1) + 1]
  <2>1. i \in Nat /\ i + 1 \in 1 .. Len(t) - 1 /\ i \in 1 .. Len(u) /\ i + 1 \in 1 .. Len(u)
    BY <1>5
  <2> QED BY <1>4, <2>1, Zenon
<1>10. ASSUME NEW i \in 1 .. Len(u) - 1
       PROVE  /\ u[i][1] \in ProfileOps
              /\ u[i][1] = "post" => u[i + 1] = <<"spawn", u[i][2]>>
              /\ u[i][1] = "abort" => u[i + 1] = <<"unpost", u[i][2]>>
  BY <1>9, Zenon DEF Program
<1>11. ASSUME NEW i \in 1 .. Len(u) - 1, NEW j \in 1 .. Len(u) - 1, i < j, u[i][1] = "insert"
       PROVE  u[j] # u[i]
  <2>1. i + 1 < j + 1
    BY <1>9, <1>11
  <2>2. PICK k, l \in 1 .. Len(t) - 1 : k < l /\ u[i] = t[k] /\ u[j] = t[l]
    BY <1>9, <2>1, Zenon
  <2> QED BY <1>11, <2>2, Zenon DEF Program
<1>12. Program(u)
  BY <1>0, <1>4, <1>5, <1>6, <1>10, <1>11, Zenon DEF Program
<1>13. Goal(u) = Goal(t)
  BY <1>6, Zenon DEF Goal
<1>14. ASSUME NEW v, Pends(u, v) PROVE Pends(t, v)
  BY <1>9, <1>14, Zenon DEF Pends
<1>15. Head(t) \in PdSteps
  BY <1>0, <1>1, HeadTailProperties, Zenon
<1>16. ASSUME Head(t)[1] = "insert" PROVE Pends(t, Head(t)[2]) /\ ~Pends(u, Head(t)[2])
  <2>1. Head(t) = <<"insert", Head(t)[2]>>
    BY <1>15, <1>16 DEF PdSteps
  <2>2. Pends(t, Head(t)[2])
    BY <1>1, <1>8, <2>1, Zenon DEF Pends
  <2>3. ASSUME NEW i \in 1 .. Len(u) - 1 PROVE u[i] # Head(t)
    <3>1. 1 < i + 1
      BY <1>9
    <3>2. PICK k \in 1 .. Len(t) - 1 : 1 < k /\ u[i] = t[k]
      BY <1>9, <3>1, Zenon
    <3> QED BY <1>1, <1>8, <1>16, <3>2, Zenon DEF Program
  <2> QED BY <2>1, <2>2, <2>3, Zenon DEF Pends
<1>17. Head(t)[1] = "post" => Head(u) = <<"spawn", Head(t)[2]>>
  BY <1>1, <1>6, <1>7, <1>8, Zenon DEF Program
<1>18. Head(t)[1] = "abort" => Head(u) = <<"unpost", Head(t)[2]>>
  BY <1>1, <1>6, <1>7, <1>8, Zenon DEF Program
<1> QED BY <1>3, <1>7, <1>12, <1>13, <1>14, <1>15, <1>16, <1>17, <1>18, Zenon

(* At a step of the handler nothing else is left.                            *)
LEMMA MainProgram ==
  ASSUME NEW t, Program(t), Head(t)[1] \in MainOps
  PROVE  Goal(t) = Head(t)[1]
<1>0. t \in Seq(PdSteps) /\ Len(t) >= 1
  BY Zenon DEF Program
<1>1. Len(t) \in Nat /\ t # <<>> /\ Head(t) = t[1]
  <2> HIDE DEF PdSteps
  <2> QED BY <1>0
<1>2. CASE Len(t) = 1
  BY <1>1, <1>2, Zenon DEF Goal
<1>3. CASE Len(t) # 1
  <2>1. 1 \in 1 .. Len(t) - 1
    <3>1. PICK n \in Nat : n = Len(t) /\ n >= 1 /\ n # 1
      BY <1>0, <1>1, <1>3, Zenon
    <3>2. 1 \in 1 .. n - 1
      BY <3>1
    <3> QED BY <3>1, <3>2, Zenon
  <2>2. t[1][1] \in ProfileOps
    BY <2>1, Zenon DEF Program
  <2> QED BY <1>1, <2>2, OpsApart, Zenon
<1> QED BY <1>2, <1>3, Zenon

-----------------------------------------------------------------------------
(* Requests                                                                  *)

(* A record's fields, but for the ones no property tells apart.              *)
Reads(q, todo, held, together, params, prefilled, armed, given, cancelled) ==
  /\ q \in PdState /\ q.todo = todo /\ q.held = held /\ q.together = together
  /\ q.params = params /\ q.prefilled = prefilled
  /\ q.armed = armed /\ q.given = given /\ q.cancelled = cancelled

(* Updates of a request's record.                                            *)
LEMMA ThenIs ==
  ASSUME NEW o \in PdState, NEW t \in Seq(PdSteps)
  PROVE  Reads(Then(o, t), t, o.held, o.together, o.params, o.prefilled, o.armed, o.given,
               o.cancelled)
BY Zenon DEF Then, PdState, Reads

(* Another set of guards.                                                    *)
LEMMA HeldIs ==
  ASSUME NEW o \in PdState, NEW H \in SUBSET Stages, NEW q, q = [o EXCEPT !.held = H]
  PROVE  Reads(q, o.todo, H, o.together, o.params, o.prefilled, o.armed, o.given, o.cancelled)
BY Zenon DEF PdState, Reads

(* Some guards are released.                                                 *)
LEMMA FreeIs ==
  ASSUME NEW o \in PdState, NEW S
  PROVE  Reads(Free(o, S), o.todo, o.held \ S, o.together, o.params, o.prefilled, o.armed, o.given,
               o.cancelled)
<1>1. o.held \in SUBSET Stages
  BY Zenon DEF PdState
<1>2. PICK H : H = o.held \ S
  BY Zenon
<1>3. H \in SUBSET Stages
  BY <1>1, <1>2, Zenon
<1>4. PICK q : q = [o EXCEPT !.held = H]
  BY Zenon
<1>5. q = Free(o, S)
  BY <1>2, <1>4, Zenon DEF Free
<1>6. Reads(q, o.todo, H, o.together, o.params, o.prefilled, o.armed, o.given, o.cancelled)
  BY <1>3, <1>4, HeldIs, Zenon
<1> QED BY <1>2, <1>5, <1>6, Zenon

(* The end drops the guards, and the transfers still armed are cancelled.    *)
LEMMA OverIs ==
  ASSUME NEW o \in PdState
  PROVE  Reads(Over(o), <<>>, {}, FALSE, "none", o.prefilled, {}, o.given,
               o.cancelled \cup o.armed)
<1>1. PICK a : a = [o EXCEPT !.held = {}]
  BY Zenon
<1>2. Reads(a, o.todo, {}, o.together, o.params, o.prefilled, o.armed, o.given, o.cancelled)
  <2>1. {} \in SUBSET Stages
    BY Zenon
  <2> QED BY <1>1, <2>1, HeldIs, Zenon
<1>3. a = Free(o, Stages)
  <2>1. o.held \ Stages = {}
    BY Zenon DEF PdState
  <2> QED BY <1>1, <2>1, Zenon DEF Free
<1>4. PICK b : b = [a EXCEPT !.armed = {}, !.cancelled = a.cancelled \cup a.armed]
  BY Zenon
<1>5. b \in PdState
  BY <1>2, <1>4, Zenon DEF PdState, Reads
<1>6. b.armed = {} /\ b.held = a.held /\ b.cancelled = a.cancelled \cup a.armed
      /\ b.given = a.given /\ b.prefilled = a.prefilled
  BY <1>2, <1>4, Zenon DEF PdState, Reads
<1>7. b = CancelArmed(a)
  BY <1>4, Zenon DEF CancelArmed
<1>8. PICK c : c = [b EXCEPT !.together = FALSE, !.kv = "none", !.by = 0, !.params = "none",
                             !.decoding = FALSE]
  BY Zenon
<1>9. 0 \in 0 .. MaxEngines
  BY PdAssumption
<1>10. c \in PdState
  BY <1>5, <1>8, <1>9, Zenon DEF PdState
<1>11. c.together = FALSE /\ c.params = "none" /\ c.armed = b.armed /\ c.held = b.held
  BY <1>5, <1>8, Zenon DEF PdState
<1>12. c.given = b.given /\ c.cancelled = b.cancelled /\ c.prefilled = b.prefilled
  BY <1>5, <1>8, Zenon DEF PdState
<1>13. <<>> \in Seq(PdSteps)
  BY EmptySeq, Zenon
<1>14. Over(o) = Then(c, <<>>)
  BY <1>3, <1>7, <1>8, Zenon DEF Over
<1>15. Reads(Then(c, <<>>), <<>>, c.held, c.together, c.params, c.prefilled, c.armed, c.given,
             c.cancelled)
  BY <1>10, <1>13, ThenIs, Zenon
<1> QED BY <1>2, <1>6, <1>11, <1>12, <1>14, <1>15, Zenon DEF Reads

(* The end closes a request wherever it comes.                               *)
LEMMA OverLocal ==
  ASSUME NEW o \in PdState, Early(o) \/ Handed(o)
  PROVE  Local(Over(o)) /\ \A w : ~Unstarted(Over(o), w)
<1>2. PICK q : /\ q = Over(o)
               /\ Reads(q, <<>>, {}, FALSE, "none", o.prefilled, {}, o.given,
                        o.cancelled \cup o.armed)
  BY OverIs, Zenon
<1>3. Phased(q)
  <2>1. {} # Stages
    BY DEF Stages
  <2> QED BY <1>2, <2>1, Zenon DEF Phased, Reads
<1>4. Closed(q)
  <2>1. o.prefilled \in BOOLEAN
    BY Zenon DEF PdState
  <2>2. CASE Early(o)
    BY <1>2, <2>1, <2>2, Zenon DEF Early, Closed, Reads
  <2>3. CASE Handed(o)
    <3>2. CASE o.prefilled
      <4>1. q.cancelled = o.cancelled
        BY <1>2, <2>3, <3>2, Zenon DEF Handed, Reads
      <4> QED BY <1>2, <2>3, <3>2, <4>1, Zenon DEF Handed, Closed, Reads
    <3>3. CASE ~o.prefilled
      BY <1>2, <2>3, <3>3, Zenon DEF Handed, Closed, Reads
    <3> QED BY <3>2, <3>3, Zenon
  <2> QED BY <2>2, <2>3, Zenon
<1>5. q \in PdState /\ q.todo = <<>>
  BY <1>2, Zenon DEF Reads
<1> QED BY <1>2, <1>3, <1>4, <1>5, Zenon DEF Local, Unstarted

(* Each counter follows the guards of the request that moves.                *)
LEMMA LoadsKept ==
  ASSUME PathInv, NEW r \in PdRequests, NEW o \in PdState, Become(r, o)
  PROVE  pdLoad' = [w \in Stages |-> Cardinality(Holders(w)')]
<1>1. pdLoad' = LoadsWith(r, o) /\ pd' = [pd EXCEPT ![r] = o]
  BY Zenon DEF Become
<1>2. ASSUME NEW w \in Stages PROVE LoadsWith(r, o)[w] = Cardinality(Holders(w)')
  <2>0. pd \in [PdRequests -> PdState]
    BY Zenon DEF PathInv
  <2>1. PICK S, T : S = Holders(w) /\ T = Holders(w)'
    BY Zenon
  <2>2. S \in SUBSET PdRequests /\ IsFiniteSet(S)
    <3>1. S \in SUBSET PdRequests
      BY <2>1, Zenon DEF Holders
    <3> QED BY <3>1, PdAssumption, FS_Subset, Zenon
  <2>3. \A y : y # r => (y \in S <=> y \in T)
    BY <1>1, <2>0, <2>1, Zenon DEF Holders
  <2>4. (r \in S <=> w \in pd[r].held) /\ (r \in T <=> w \in o.held)
    BY <1>1, <2>0, <2>1, Zenon DEF Holders
  <2>5. pdLoad[w] = Cardinality(S)
    BY <2>1, Zenon DEF PathInv
  <2>6. /\ Cardinality(S) \in Nat
        /\ (r \in S <=> r \in T) => Cardinality(T) = Cardinality(S)
        /\ r \notin S /\ r \in T => Cardinality(T) = Cardinality(S) + 1
        /\ r \in S /\ r \notin T => Cardinality(T) = Cardinality(S) - 1
    BY <2>2, <2>3, CountMoves, Zenon
  <2>7. PICK m, n : m = Cardinality(S) /\ n = Cardinality(T)
    BY Zenon
  <2>8. LoadsWith(r, o)[w] = m + (IF w \in o.held \ pd[r].held THEN 1 ELSE 0)
                               - (IF w \in pd[r].held \ o.held THEN 1 ELSE 0)
    BY <2>5, <2>7, Zenon DEF LoadsWith
  <2>9. m \in Nat
    BY <2>6, <2>7, Zenon
  <2>10. CASE w \in pd[r].held <=> w \in o.held
    <3>1. LoadsWith(r, o)[w] = m + 0 - 0 /\ n = m
      BY <2>4, <2>6, <2>7, <2>8, <2>10, Zenon
    <3>2. m + 0 - 0 = m
      BY <2>9
    <3> QED BY <2>1, <2>7, <3>1, <3>2, Zenon
  <2>11. CASE w \notin pd[r].held /\ w \in o.held
    <3>1. LoadsWith(r, o)[w] = m + 1 - 0 /\ n = m + 1
      BY <2>4, <2>6, <2>7, <2>8, <2>11, Zenon
    <3>2. m + 1 - 0 = m + 1
      BY <2>9
    <3> QED BY <2>1, <2>7, <3>1, <3>2, Zenon
  <2>12. CASE w \in pd[r].held /\ w \notin o.held
    <3>1. LoadsWith(r, o)[w] = m + 0 - 1 /\ n = m - 1
      BY <2>4, <2>6, <2>7, <2>8, <2>12, Zenon
    <3>2. m + 0 - 1 = m - 1
      BY <2>9
    <3> QED BY <2>1, <2>7, <3>1, <3>2, Zenon
  <2> QED BY <2>10, <2>11, <2>12, Zenon
<1> QED BY <1>1, <1>2, Zenon DEF LoadsWith

(* What a step of the handler says of the requests.                          *)
Requests ==
  /\ pd \in [PdRequests -> PdState] /\ \A r \in PdRequests : Local(pd[r])
  /\ pdLoad = [w \in Stages |-> Cardinality(Holders(w))]

(* One request moves on, and the counters with it: the part of the invariant *)
(* about requests holds.                                                     *)
LEMMA RequestsKept ==
  ASSUME PathInv, NEW r \in PdRequests, NEW o, Local(o), Become(r, o), UNCHANGED scene
  PROVE  Requests'
<1>1. o \in PdState /\ pd \in [PdRequests -> PdState] /\ pd' = [pd EXCEPT ![r] = o]
  BY Zenon DEF Local, PathInv, Become
<1>2. pd' \in [PdRequests -> PdState]
  BY <1>1, Zenon
<1>3. ASSUME NEW q, Local(q) PROVE Local(q)'
  BY <1>3, Zenon DEF Local, Phased, Closed, Early, Late, Handed
<1>4. ASSUME NEW s \in PdRequests PROVE Local(pd[s])'
  <2>1. CASE s = r
    BY <1>1, <1>3, <2>1, Zenon
  <2>2. CASE s # r
    <3>1. pd'[s] = pd[s] /\ Local(pd[s])
      BY <1>1, <2>2, Zenon DEF PathInv
    <3> QED BY <1>3, <3>1, Zenon
  <2> QED BY <2>1, <2>2, Zenon
<1>5. pdLoad' = [w \in Stages |-> Cardinality(Holders(w)')]
  BY <1>1, LoadsKept, Zenon
<1> QED BY <1>2, <1>4, <1>5, Zenon DEF Requests

(* The registered tasks stay the ones of requests that are past their start. *)
LEMMA TasksKept ==
  ASSUME PathInv, NEW r \in PdRequests, NEW o, pd' = [pd EXCEPT ![r] = o], UNCHANGED tasks,
         \A w \in Stages : Unstarted(o, w) => Unstarted(pd[r], w)
  PROVE  TasksAreLate'
<1>1. SUFFICES ASSUME NEW w \in Stages, tasks[w] # NoTimer
               PROVE  \E s \in PdRequests : tasks[w] = <<s, w>> /\ ~Unstarted(pd[s], w)'
  BY Zenon DEF TasksAreLate
<1>2. PICK s \in PdRequests : tasks[w] = <<s, w>> /\ ~Unstarted(pd[s], w)
  BY <1>1, Zenon DEF PathInv, TasksAreLate
<1>3. pd' [s] = IF s = r THEN o ELSE pd[s]
  BY Zenon DEF PathInv
<1>4. ~Unstarted(pd'[s], w)
  BY <1>2, <1>3, Zenon
<1> QED BY <1>2, <1>4, Zenon

(* A handler step.                                                           *)
LEMMA BecomeKeeps ==
  ASSUME PathInv, NEW r \in PdRequests, NEW o, Local(o), Become(r, o),
         \A w \in Stages : Unstarted(o, w) => Unstarted(pd[r], w),
         Head(pd[r].todo)[1] \in MainOps, UNCHANGED <<scene, profileVars, engine>>,
         nixl' \in 0 .. MaxEngines
  PROVE  PathInv'
<1>1. Requests'
  BY RequestsKept, Zenon
<1>2. pd' = [pd EXCEPT ![r] = o] /\ pd \in [PdRequests -> PdState]
  BY Zenon DEF Become, PathInv
<1>3. UNCHANGED <<scene, profiled, tasks, timers, tasksLock, orphans, engine>>
  BY Zenon DEF profileVars
<1>4. TasksAreLate'
  BY <1>2, <1>3, TasksKept, Zenon
<1>5. PathTypes'
  BY <1>3, Zenon DEF PathInv, PathTypes
<1>6. ProfileHasAnEnd'
  <2>1. SUFFICES ASSUME NEW w \in profiled \ orphans
                 PROVE  \/ \E s \in PdRequests : timers[<<s, w>>] = "asleep"
                        \/ \E s \in PdRequests : (At(s, "spawn") \/ At(s, "unpost"))' /\ Stage(s)' = w
    BY <1>3, Zenon DEF ProfileHasAnEnd
  <2>2. Head(pd[r].todo)[1] # "spawn" /\ Head(pd[r].todo)[1] # "unpost"
    BY OpsApart, Zenon DEF ProfileOps
  <2>3. ASSUME NEW s \in PdRequests, At(s, "spawn") \/ At(s, "unpost"), Stage(s) = w
        PROVE  (At(s, "spawn") \/ At(s, "unpost"))' /\ Stage(s)' = w
    <3>1. s # r
      BY <2>2, <2>3, Zenon DEF At
    <3>2. pd'[s] = pd[s]
      BY <1>2, <3>1, Zenon
    <3> QED BY <2>3, <3>2, Zenon DEF At, Stage
  <2> QED BY <2>1, <2>3, Zenon DEF PathInv, ProfileHasAnEnd
<1> QED BY <1>1, <1>4, <1>5, <1>6, Zenon DEF PathInv, Requests

-----------------------------------------------------------------------------
(* The handler                                                               *)

(* A program has a step.                                                     *)
LEMMA ProgramIsLong == ASSUME NEW t, Program(t) PROVE t # <<>> /\ t \in Seq(PdSteps)
<1>1. t \in Seq(PdSteps) /\ Len(t) >= 1
  BY Zenon DEF Program
<1>2. Len(<<>>) = 0
  BY EmptySeq, Zenon
<1>3. ~(0 >= 1)
  OBVIOUS
<1> QED BY <1>1, <1>2, <1>3, Zenon

(* Another program, and nothing else.                                        *)
LEMMA ThenReads ==
  ASSUME NEW a, NEW q, NEW t, Program(t), q = Then(a, t), NEW todo, NEW held, NEW together, NEW params,
         NEW prefilled, NEW armed, NEW given, NEW cancelled,
         Reads(a, todo, held, together, params, prefilled, armed, given, cancelled)
  PROVE  Reads(q, t, held, together, params, prefilled, armed, given, cancelled)
<1>1. t \in Seq(PdSteps) /\ a \in PdState
  BY ProgramIsLong, Zenon DEF Reads
<1>2. Reads(q, t, a.held, a.together, a.params, a.prefilled, a.armed, a.given, a.cancelled)
  BY <1>1, ThenIs, Zenon
<1> QED BY <1>2, Zenon DEF Reads

(* The handler is at one of its steps.                                       *)
LEMMA AtMain ==
  ASSUME PathInv, NEW r \in PdRequests, NEW op \in MainOps, At(r, op)
  PROVE  /\ pd[r] \in PdState /\ Phased(pd[r]) /\ pd[r].todo # <<>>
         /\ Head(pd[r].todo)[1] \in MainOps /\ Goal(pd[r].todo) = op
         /\ op \in {"enter", "encode"} => Early(pd[r])
         /\ op \notin {"enter", "encode"} => Late(pd[r])
<1>1. Local(pd[r]) /\ pd[r].todo # <<>> /\ Head(pd[r].todo)[1] = op
  BY Zenon DEF PathInv, At
<1>2. Program(pd[r].todo)
  BY <1>1, Zenon DEF Local
<1>3. Goal(pd[r].todo) = op
  BY <1>1, <1>2, MainProgram, Zenon
<1> QED BY <1>1, <1>3, Zenon DEF Local

(* Stops, then a step.                                                       *)
LEMMA StopDo ==
  ASSUME NEW w \in Stages, NEW op \in MainOps
  PROVE  /\ Program(StopSteps(w) \o Do(op)) /\ Goal(StopSteps(w) \o Do(op)) = op
         /\ \A v : ~Pends(StopSteps(w) \o Do(op), v)
BY DoProgram, StopProgram, Zenon

(* A start, then a step.                                                     *)
LEMMA StartDo ==
  ASSUME NEW w \in Stages, NEW op \in MainOps
  PROVE  /\ Program(StartSteps(w) \o Do(op)) /\ Goal(StartSteps(w) \o Do(op)) = op
         /\ \A v : Pends(StartSteps(w) \o Do(op), v) => v = w
BY DoProgram, StartProgram, Zenon

(* start_profiling and stop_profiling as lists of steps.                     *)
LEMMA StepLists ==
  ASSUME NEW w \in Stages
  PROVE  StartSteps(w) \in Seq(PdSteps) /\ StopSteps(w) \in Seq(PdSteps)
<1>0. <<>> \in Seq(PdSteps)
  BY EmptySeq, Zenon
<1>1. PICK a, b, c : a = <<"post", w>> /\ b = <<"spawn", w>> /\ c = <<"insert", w>>
  BY Zenon
<1>2. a \in PdSteps /\ b \in PdSteps /\ c \in PdSteps
  BY <1>1, Zenon DEF PdSteps, ProfileOps
<1>3. PICK d, e : d = <<"abort", w>> /\ e = <<"unpost", w>>
  BY Zenon
<1>4. d \in PdSteps /\ e \in PdSteps
  BY <1>3, Zenon DEF PdSteps, ProfileOps
<1>5. <<a, b, c>> \in Seq(PdSteps)
  BY <1>2
<1>6. <<d, e>> \in Seq(PdSteps)
  BY <1>4
<1>7. StartSteps(w) \in Seq(PdSteps)
  BY <1>0, <1>1, <1>5, Zenon DEF StartSteps
<1>8. StopSteps(w) \in Seq(PdSteps)
  BY <1>0, <1>3, <1>6, Zenon DEF StopSteps
<1> QED BY <1>7, <1>8, Zenon

(* Both workers are stopped, then a step.                                    *)
LEMMA StopBothDo ==
  LET t == StopSteps("p") \o StopSteps("d") \o Do("end")
  IN  Program(t) /\ Goal(t) = "end" /\ \A v : ~Pends(t, v)
<1>1. "p" \in Stages /\ "d" \in Stages /\ "end" \in MainOps
  BY Zenon DEF Stages, MainOps
<1>2. PICK x, y, z : x = StopSteps("p") /\ y = StopSteps("d") /\ z = Do("end")
  BY Zenon
<1>3. Program(z) /\ z \in Seq(PdSteps)
  BY <1>1, <1>2, DoProgram, ProgramIsLong, Zenon
<1>4. (x \o y) \o z = x \o (y \o z)
  <2>1. x \in Seq(PdSteps) /\ y \in Seq(PdSteps)
    BY <1>1, <1>2, StepLists, Zenon
  <2> QED BY <1>3, <2>1, ConcatAssociative
<1>5. Program(y \o z) /\ Goal(y \o z) = "end" /\ \A v : ~Pends(y \o z, v)
  BY <1>1, <1>2, StopDo, Zenon
<1>6. Program(x \o (y \o z)) /\ Goal(x \o (y \o z)) = "end" /\ \A v : ~Pends(x \o (y \o z), v)
  BY <1>1, <1>2, <1>5, StopProgram, Zenon
<1> QED BY <1>2, <1>4, <1>6, Zenon

(* Both workers are started, in either order, then joined.                   *)
LEMMA StartBothDo ==
  /\ LET t == StartSteps("p") \o StartSteps("d") \o Do("join") IN Program(t) /\ Goal(t) = "join"
  /\ LET t == StartSteps("d") \o (StartSteps("p") \o Do("join")) IN Program(t) /\ Goal(t) = "join"
<1>1. "p" \in Stages /\ "d" \in Stages /\ "p" # "d" /\ "join" \in MainOps
  BY Zenon DEF Stages, MainOps
<1>2. PICK x, y, z : x = StartSteps("p") /\ y = StartSteps("d") /\ z = Do("join")
  BY Zenon
<1>3. Program(z) /\ z \in Seq(PdSteps)
  BY <1>1, <1>2, DoProgram, ProgramIsLong, Zenon
<1>4. (x \o y) \o z = x \o (y \o z)
  <2>1. x \in Seq(PdSteps) /\ y \in Seq(PdSteps)
    BY <1>1, <1>2, StepLists, Zenon
  <2> QED BY <1>3, <2>1, ConcatAssociative
<1>5. Program(y \o z) /\ Goal(y \o z) = "join" /\ ~Pends(y \o z, "p")
  BY <1>1, <1>2, StartDo, Zenon
<1>6. Program(x \o z) /\ Goal(x \o z) = "join" /\ ~Pends(x \o z, "d")
  BY <1>1, <1>2, StartDo, Zenon
<1>7. Program(x \o (y \o z)) /\ Goal(x \o (y \o z)) = "join"
  BY <1>1, <1>2, <1>5, StartProgram, Zenon
<1>8. Program(y \o (x \o z)) /\ Goal(y \o (x \o z)) = "join"
  BY <1>1, <1>2, <1>6, StartProgram, Zenon
<1> QED BY <1>2, <1>4, <1>7, <1>8, Zenon

(* What a handler step leaves alone.                                         *)
Elsewhere == UNCHANGED <<scene, profileVars, engine>> /\ nixl' \in 0 .. MaxEngines

(* A handler step that leaves the profiling and the engines alone.           *)
LEMMA NothingElse ==
  ASSUME PathInv, UNCHANGED <<scene, profileVars, nixl, engine>>
  PROVE  Elsewhere
BY Zenon DEF Elsewhere, PathInv, PathTypes

(* The handler ends.                                                         *)
LEMMA OverStep ==
  ASSUME PathInv, NEW r \in PdRequests, NEW op \in MainOps, At(r, op), Become(r, Over(pd[r])),
         UNCHANGED <<scene, profileVars, nixl, engine>>
  PROVE  PathInv'
<1>1. pd[r] \in PdState /\ Head(pd[r].todo)[1] \in MainOps /\ (Early(pd[r]) \/ Handed(pd[r]))
  BY AtMain, Zenon DEF Late
<1>2. PICK o : o = Over(pd[r]) /\ Local(o) /\ \A w : ~Unstarted(o, w)
  BY <1>1, OverLocal, Zenon
<1>3. Elsewhere
  BY NothingElse, Zenon
<1> QED BY <1>1, <1>2, <1>3, BecomeKeeps, Zenon DEF Elsewhere

(* The steps q may have left, and what it may still start.                   *)
Continues(q, o) ==
  /\ Program(q.todo) /\ Registers(q.todo) /\ Goal(q.todo) \notin {"enter", "encode"}
  /\ Goal(q.todo) \in {"prefill", "read"} => ~q.together
  /\ Goal(q.todo) = "params" /\ scene.direct => q.prefilled /\ ~q.together
  /\ \A w \in Stages : Unstarted(q, w) => Unstarted(o, w)

(* After the dispatch, a request that continues is as the invariant wants    *)
(* it.                                                                       *)
LEMMA LateLocal ==
  ASSUME NEW o, NEW q \in PdState, Phased(q), Handed(q), Continues(q, o)
  PROVE  Local(q)
<1>1. q.todo # <<>>
  BY ProgramIsLong, Zenon DEF Continues
<1> QED BY <1>1, Zenon DEF Local, Late, Continues

(* The handler goes on.                                                      *)
LEMMA LateStep ==
  ASSUME PathInv, NEW r \in PdRequests, Head(pd[r].todo)[1] \in MainOps,
         NEW q \in PdState, Phased(q), Handed(q), Continues(q, pd[r]), Become(r, q), Elsewhere
  PROVE  PathInv'
<1>1. Local(q)
  BY LateLocal, Zenon
<1> QED BY <1>1, BecomeKeeps, Zenon DEF Elsewhere, Continues

(* Programs that start nothing.                                              *)
LEMMA QuietContinues ==
  ASSUME NEW o, NEW q, Program(q.todo), \A v : ~Pends(q.todo, v),
         Goal(q.todo) \in {"decode", "join", "settle", "deliver", "body", "end"}
  PROVE  Continues(q, o)
<1>1. Goal(q.todo) \notin {"enter", "encode", "prefill", "read", "params"}
  BY Zenon
<1> QED BY <1>1, Zenon DEF Continues, Unstarted, Registers

(* prepare_two_stage: both at once, in turn, or nobody to ask.               *)
LEMMA DispatchLocal ==
  ASSUME NEW o \in PdState, o.held = {}, ~o.together, ~o.prefilled, Handed(o),
         nixl \in 0 .. MaxEngines
  PROVE  Local(Dispatch(o))
<1>0. "p" \in Stages /\ "d" \in Stages /\ "p" # "d" /\ Stages # {"p"} /\ {"p"} \in SUBSET Stages /\ Stages \in SUBSET Stages
  BY DEF Stages
<1>1. "join" \in MainOps /\ "prefill" \in MainOps /\ "params" \in MainOps
  BY Zenon DEF MainOps
<1>2. CASE ~scene.direct
  <2>1. CASE Together
    <3>1. PICK t : t = Do("params") /\ Program(t) /\ Goal(t) = "params" /\ Registers(t) /\ t \in Seq(PdSteps) /\ t # <<>>
      BY <1>1, DoProgram, ProgramIsLong, Zenon DEF Registers
    <3>2. PICK a : a = [o EXCEPT !.together = TRUE]
      BY Zenon
    <3>3. Reads(a, o.todo, o.held, TRUE, o.params, o.prefilled, o.armed, o.given, o.cancelled)
      BY <3>2, Zenon DEF PdState, Reads
    <3>4. PICK q : q = Then(a, t)
      BY Zenon
    <3>5. Reads(q, t, o.held, TRUE, o.params, o.prefilled, o.armed, o.given, o.cancelled)
      BY <3>1, <3>3, <3>4, ThenIs, Zenon DEF Reads
    <3>6. q = Dispatch(o)
      BY <1>2, <2>1, <3>1, <3>2, <3>4, Zenon DEF Dispatch, DispatchDiscovered
    <3>7. Phased(q) /\ Handed(q)
      BY <1>2, <3>5, Zenon DEF Phased, Handed, Reads
    <3> QED BY <1>2, <3>1, <3>5, <3>6, <3>7, Zenon DEF Local, Late, Reads
  <2>2. CASE ~Together
    <3>1. PICK t : /\ t = StartSteps("p") \o Do("prefill") /\ Program(t) /\ Goal(t) = "prefill"
                   /\ Registers(t) /\ t \in Seq(PdSteps) /\ t # <<>>
      BY <1>0, <1>1, StartDo, ProgramIsLong, Zenon DEF Registers
    <3>4. PICK q : q = Then(o, t)
      BY Zenon
    <3>5. Reads(q, t, o.held, o.together, o.params, o.prefilled, o.armed, o.given, o.cancelled)
      BY <3>1, <3>4, ThenIs, Zenon
    <3>6. q = Dispatch(o)
      BY <1>2, <2>2, <3>1, <3>4, Zenon DEF Dispatch, DispatchDiscovered
    <3>7. Phased(q) /\ Handed(q)
      BY <1>0, <3>5, Zenon DEF Phased, Handed, Reads
    <3> QED BY <3>1, <3>5, <3>6, <3>7, Zenon DEF Local, Late, Reads
  <2> QED BY <2>1, <2>2, Zenon
<1>3. CASE scene.direct /\ Together
  <2>1. PICK t : /\ t = StartSteps("p") \o StartSteps("d") \o Do("join") /\ Program(t)
                 /\ Goal(t) = "join" /\ Registers(t) /\ t \in Seq(PdSteps) /\ t # <<>>
    BY StartBothDo, ProgramIsLong, Zenon DEF Registers
  <2>2. PICK a : a = [o EXCEPT !.held = Stages]
    BY Zenon
  <2>3. Reads(a, o.todo, Stages, o.together, o.params, o.prefilled, o.armed, o.given, o.cancelled)
    BY <1>0, <2>2, HeldIs, Zenon
  <2>4. a = Hold(o, Stages)
    <3>1. o.held \cup Stages = Stages
      BY Zenon
    <3> QED BY <2>2, <3>1, Zenon DEF Hold
  <2>5. PICK b : b = [a EXCEPT !.together = TRUE, !.params = "identity", !.by = nixl]
    BY Zenon
  <2>6. Reads(b, o.todo, Stages, TRUE, "identity", o.prefilled, o.armed, o.given, o.cancelled)
    BY <2>3, <2>5, Zenon DEF PdState, Reads
  <2>7. PICK q : q = Then(b, t)
    BY Zenon
  <2>8. Reads(q, t, Stages, TRUE, "identity", o.prefilled, o.armed, o.given, o.cancelled)
    BY <2>1, <2>6, <2>7, ThenIs, Zenon DEF Reads
  <2>9. q = Dispatch(o)
    BY <1>3, <2>1, <2>4, <2>5, <2>7, Zenon DEF Dispatch, DispatchTogether
  <2>10. Phased(q) /\ Handed(q)
    BY <2>8, Zenon DEF Phased, Handed, Reads
  <2> QED BY <2>1, <2>8, <2>9, <2>10, Zenon DEF Local, Late, Reads
<1>4. CASE scene.direct /\ ~Together /\ NoTransferMode
  <2>1. Dispatch(o) = Over(o)
    BY <1>4, Zenon DEF Dispatch, DispatchInTurn
  <2> QED BY <2>1, OverLocal, Zenon
<1>5. CASE scene.direct /\ ~Together /\ ~NoTransferMode
  <2>1. PICK t : /\ t = StartSteps("p") \o Do("prefill") /\ Program(t) /\ Goal(t) = "prefill"
                 /\ Registers(t) /\ t \in Seq(PdSteps) /\ t # <<>>
    BY <1>0, <1>1, StartDo, ProgramIsLong, Zenon DEF Registers
  <2>2. PICK a : a = [o EXCEPT !.held = {"p"}]
    BY Zenon
  <2>3. Reads(a, o.todo, {"p"}, o.together, o.params, o.prefilled, o.armed, o.given, o.cancelled)
    BY <1>0, <2>2, HeldIs, Zenon
  <2>4. a = Hold(o, {"p"})
    <3>1. o.held \cup {"p"} = {"p"}
      BY Zenon
    <3> QED BY <2>2, <3>1, Zenon DEF Hold
  <2>7. PICK q : q = Then(a, t)
    BY Zenon
  <2>8. Reads(q, t, {"p"}, o.together, o.params, o.prefilled, o.armed, o.given, o.cancelled)
    BY <2>1, <2>3, <2>7, ThenIs, Zenon DEF Reads
  <2>9. q = Dispatch(o)
    BY <1>5, <2>1, <2>4, <2>7, Zenon DEF Dispatch, DispatchInTurn
  <2>10. Phased(q) /\ Handed(q)
    <3>1. "d" \notin {"p"}
      BY Zenon
    <3> QED BY <1>0, <2>8, <3>1, Zenon DEF Phased, Handed, Reads
  <2> QED BY <2>1, <2>8, <2>9, <2>10, Zenon DEF Local, Late, Reads
<1> QED BY <1>2, <1>3, <1>4, <1>5, Zenon

(* "enter": the end, the encoder stage, or the dispatch.                     *)
LEMMA EnterStep == ASSUME PathInv, NEW r \in PdRequests, Enter(r) PROVE PathInv'
<1>0. "enter" \in MainOps /\ "encode" \in MainOps /\ "enter" # "encode"
  BY Zenon DEF MainOps
<1>1. At(r, "enter") /\ UNCHANGED <<scene, profileVars, nixl, engine>>
  BY Zenon DEF Enter
<1>2. /\ pd[r] \in PdState /\ Phased(pd[r]) /\ Early(pd[r]) /\ pd[r].todo # <<>>
      /\ Head(pd[r].todo)[1] \in MainOps /\ Goal(pd[r].todo) = "enter"
  BY <1>0, <1>1, AtMain, Zenon
<1>3. \A w : Unstarted(pd[r], w)
  BY <1>2, Zenon DEF Unstarted
<1>4. Elsewhere
  BY <1>1, NothingElse, Zenon
<1>5. CASE Become(r, Over(pd[r]))
  BY <1>0, <1>1, <1>5, OverStep, Zenon
<1>6. CASE scene.direct /\ scene.epd /\ Become(r, Then([pd[r] EXCEPT !.armed = Media], Do("encode")))
  <2>1. PICK t : t = Do("encode") /\ Program(t) /\ Goal(t) = "encode" /\ Registers(t) /\ t \in Seq(PdSteps) /\ t # <<>>
    BY <1>0, DoProgram, ProgramIsLong, Zenon DEF Registers
  <2>2. PICK o : o = pd[r]
    BY Zenon
  <2>3. PICK a : a = [o EXCEPT !.armed = Media]
    BY Zenon
  <2>4. Reads(a, o.todo, o.held, o.together, o.params, o.prefilled, Media, o.given, o.cancelled)
    BY <1>2, <2>2, <2>3, Zenon DEF PdState, Reads
  <2>5. PICK q : q = Then(a, t)
    BY Zenon
  <2>6. Reads(q, t, o.held, o.together, o.params, o.prefilled, Media, o.given, o.cancelled)
    BY <2>1, <2>4, <2>5, ThenIs, Zenon DEF Reads
  <2>7. Phased(q)
    BY <1>2, <2>2, <2>6, Zenon DEF Phased, Reads
  <2>8. Early(q)
    BY <1>0, <1>2, <1>6, <2>1, <2>2, <2>6, Zenon DEF Early, Reads
  <2>9. Local(q)
    BY <2>1, <2>6, <2>7, <2>8, Zenon DEF Local, Reads
  <2>10. Become(r, q)
    BY <1>6, <2>1, <2>2, <2>3, <2>5, Zenon
  <2> QED BY <1>2, <1>3, <1>4, <2>9, <2>10, BecomeKeeps, Zenon DEF Elsewhere
<1>7. CASE ~(scene.direct /\ scene.epd) /\ Become(r, Dispatch(pd[r]))
  <2>1. Handed(pd[r])
    BY <1>2, <1>7, Zenon DEF Early, Handed
  <2>2. nixl \in 0 .. MaxEngines
    BY Zenon DEF PathInv, PathTypes
  <2>3. Local(Dispatch(pd[r]))
    BY <1>2, <2>1, <2>2, DispatchLocal, Zenon DEF Early
  <2> QED BY <1>2, <1>3, <1>4, <1>7, <2>3, BecomeKeeps, Zenon DEF Elsewhere
<1> QED BY <1>5, <1>6, <1>7, Zenon DEF Enter

(* "encode": the end, or the dispatch with the transfers the body uses.      *)
LEMMA EncodeStep == ASSUME PathInv, NEW r \in PdRequests, Encode(r) PROVE PathInv'
<1>0. "encode" \in MainOps /\ "enter" # "encode"
  BY Zenon DEF MainOps
<1>1. At(r, "encode") /\ UNCHANGED <<scene, profileVars, nixl, engine>>
  BY Zenon DEF Encode
<1>2. /\ pd[r] \in PdState /\ Phased(pd[r]) /\ Early(pd[r]) /\ pd[r].todo # <<>>
      /\ Head(pd[r].todo)[1] \in MainOps /\ Goal(pd[r].todo) = "encode"
  BY <1>0, <1>1, AtMain, Zenon
<1>3. \A w : Unstarted(pd[r], w)
  BY <1>2, Zenon DEF Unstarted
<1>4. Elsewhere
  BY <1>1, NothingElse, Zenon
<1>5. CASE Become(r, Over(pd[r]))
  BY <1>0, <1>1, <1>5, OverStep, Zenon
<1>6. ASSUME NEW used \in SUBSET Media, Become(r, Dispatch(Retain(pd[r], used))) PROVE PathInv'
  <2>1. PICK o : o = pd[r]
    BY Zenon
  <2>2. o.armed = Media /\ scene.direct /\ scene.epd
    BY <1>2, <2>1, Zenon DEF Early
  <2>3. PICK a : a = [o EXCEPT !.armed = used, !.given = used, !.cancelled = Media \ used]
    BY Zenon
  <2>4. a = Retain(o, used)
    BY <2>2, <2>3, Zenon DEF Retain
  <2>5. Media \ used \in SUBSET Media
    BY Zenon
  <2>6. Reads(a, o.todo, o.held, o.together, o.params, o.prefilled, used, used, Media \ used)
    BY <1>2, <2>1, <2>3, <2>5, Zenon DEF PdState, Reads
  <2>7. Handed(a)
    <3>1. (Media \ used) \cap used = {} /\ (Media \ used) \cup used = Media
      BY Zenon
    <3> QED BY <1>2, <2>1, <2>2, <2>6, <3>1, Zenon DEF Handed, Reads, Early
  <2>8. nixl \in 0 .. MaxEngines
    BY Zenon DEF PathInv, PathTypes
  <2>9. a \in PdState /\ a.held = {} /\ ~a.together /\ ~a.prefilled
    BY <1>2, <2>1, <2>6, Zenon DEF Early, Reads
  <2>10. Local(Dispatch(a))
    BY <2>7, <2>8, <2>9, DispatchLocal, Zenon
  <2>11. Become(r, Dispatch(a))
    BY <1>6, <2>1, <2>4, Zenon
  <2> QED BY <1>2, <1>3, <1>4, <2>10, <2>11, BecomeKeeps, Zenon DEF Elsewhere
<1> QED BY <1>5, <1>6, Zenon DEF Encode

(* "prefill" in direct mode: unreachable, refused, or an answer to read.     *)
LEMMA PrefillStep == ASSUME PathInv, NEW r \in PdRequests, Prefill(r) PROVE PathInv'
<1>0. {"prefill", "read", "end"} \subseteq MainOps /\ "prefill" \notin {"enter", "encode"} /\ "p" \in Stages
  BY Zenon DEF MainOps, Stages
<1>1. At(r, "prefill") /\ UNCHANGED <<scene, profileVars, nixl, engine>>
  BY Zenon DEF Prefill
<1>2. PICK o : o = pd[r] /\ o \in PdState /\ Phased(o) /\ Handed(o) /\ ~o.together /\ o.todo # <<>>
               /\ Head(o.todo)[1] \in MainOps /\ Goal(o.todo) = "prefill"
  BY <1>0, <1>1, AtMain, Zenon DEF Late
<1>3. Elsewhere /\ engine \in 0 .. MaxEngines
  <2>1. engine \in 1 .. MaxEngines
    BY Zenon DEF PathInv, PathTypes
  <2>2. engine \in 0 .. MaxEngines
    BY <2>1, PdAssumption
  <2> QED BY <1>1, <2>2, NothingElse, Zenon
<1>5. CASE Become(r, Over(pd[r]))
  BY <1>0, <1>1, <1>5, OverStep, Zenon
<1>6. CASE Become(r, Then(Free(pd[r], {"p"}), StopSteps("p") \o Do("end")))
  <2>1. PICK t : /\ t = StopSteps("p") \o Do("end") /\ Program(t) /\ Goal(t) = "end"
                 /\ \A v : ~Pends(t, v)
    BY <1>0, StopDo, Zenon
  <2>2. PICK H : H = o.held \ {"p"}
    BY Zenon
  <2>3. PICK a : a = Free(o, {"p"})
    BY Zenon
  <2>4. Reads(a, o.todo, H, o.together, o.params, o.prefilled, o.armed, o.given, o.cancelled)
    BY <1>2, <2>2, <2>3, FreeIs, Zenon
  <2>5. PICK q : q = Then(a, t)
    BY Zenon
  <2>6. Reads(q, t, H, o.together, o.params, o.prefilled, o.armed, o.given, o.cancelled)
    BY <2>1, <2>4, <2>5, ThenReads, Zenon
  <2>7. "d" \in H => "d" \in o.held
    BY <2>2, Zenon
  <2>8. H # Stages
    BY <1>0, <2>2, Zenon
  <2>9. q \in PdState /\ Phased(q) /\ Handed(q)
    BY <1>2, <2>6, <2>7, <2>8, Zenon DEF Phased, Handed, Reads
  <2>10. Continues(q, pd[r])
    BY <2>1, <2>6, QuietContinues, Zenon DEF Reads
  <2>11. Become(r, q)
    BY <1>2, <1>6, <2>1, <2>3, <2>5, Zenon
  <2> QED BY <1>2, <1>3, <2>9, <2>10, <2>11, LateStep, Zenon
<1>7. CASE Become(r, Then([pd[r] EXCEPT !.by = engine], Do("read")))
  <2>1. PICK t : t = Do("read") /\ Program(t) /\ Goal(t) = "read" /\ \A v : ~Pends(t, v)
    BY <1>0, DoProgram, Zenon
  <2>3. PICK a : a = [o EXCEPT !.by = engine]
    BY Zenon
  <2>4. Reads(a, o.todo, o.held, o.together, o.params, o.prefilled, o.armed, o.given, o.cancelled)
    BY <1>2, <1>3, <2>3, Zenon DEF PdState, Reads
  <2>5. PICK q : q = Then(a, t)
    BY Zenon
  <2>6. Reads(q, t, o.held, o.together, o.params, o.prefilled, o.armed, o.given, o.cancelled)
    BY <2>1, <2>4, <2>5, ThenReads, Zenon
  <2>9. q \in PdState /\ Phased(q) /\ Handed(q)
    BY <1>2, <2>6, Zenon DEF Phased, Handed, Reads
  <2>10. Continues(q, o)
    BY <1>2, <2>1, <2>6, Zenon DEF Continues, Unstarted, Reads, Registers
  <2>11. Become(r, q)
    BY <1>2, <1>7, <2>1, <2>3, <2>5, Zenon
  <2> QED BY <1>2, <1>3, <2>9, <2>10, <2>11, LateStep, Zenon
<1> QED BY <1>5, <1>6, <1>7, Zenon DEF Prefill

(* "prefill" in discovery mode.                                              *)
LEMMA PrefillDiscoveredStep ==
  ASSUME PathInv, NEW r \in PdRequests, PrefillDiscovered(r) PROVE PathInv'
<1>0. {"prefill", "params"} \subseteq MainOps /\ "prefill" \notin {"enter", "encode"} /\ "p" \in Stages
  BY Zenon DEF MainOps, Stages
<1>1. At(r, "prefill") /\ ~scene.direct /\ UNCHANGED <<scene, profileVars, nixl, engine>>
  BY Zenon DEF PrefillDiscovered
<1>2. PICK o : o = pd[r] /\ o \in PdState /\ Phased(o) /\ Handed(o) /\ ~o.together /\ o.todo # <<>>
               /\ Head(o.todo)[1] \in MainOps /\ Goal(o.todo) = "prefill"
  BY <1>0, <1>1, AtMain, Zenon DEF Late
<1>3. Elsewhere /\ engine \in 0 .. MaxEngines
  <2>1. engine \in 1 .. MaxEngines
    BY Zenon DEF PathInv, PathTypes
  <2>2. engine \in 0 .. MaxEngines
    BY <2>1, PdAssumption
  <2> QED BY <1>1, <2>2, NothingElse, Zenon
<1>5. CASE Become(r, Over(pd[r]))
  BY <1>0, <1>1, <1>5, OverStep, Zenon
<1>6. ASSUME NEW kv \in KvAnswers,
             Become(r, Then([pd[r] EXCEPT !.kv = kv, !.by = engine, !.prefilled = TRUE],
                            StopSteps("p") \o Do("params")))
      PROVE  PathInv'
  <2>1. PICK t : /\ t = StopSteps("p") \o Do("params") /\ Program(t) /\ Goal(t) = "params"
                 /\ \A v : ~Pends(t, v)
    BY <1>0, StopDo, Zenon
  <2>2. kv \in {"none", "push", "halfpush", "pull", "junk"}
    BY Zenon DEF KvAnswers
  <2>3. PICK a : a = [o EXCEPT !.kv = kv, !.by = engine, !.prefilled = TRUE]
    BY Zenon
  <2>4. Reads(a, o.todo, o.held, o.together, o.params, TRUE, o.armed, o.given, o.cancelled)
    BY <1>2, <1>3, <2>2, <2>3, Zenon DEF PdState, Reads
  <2>5. PICK q : q = Then(a, t)
    BY Zenon
  <2>6. Reads(q, t, o.held, o.together, o.params, TRUE, o.armed, o.given, o.cancelled)
    BY <2>1, <2>4, <2>5, ThenReads, Zenon
  <2>9. q \in PdState /\ Phased(q) /\ Handed(q)
    BY <1>1, <1>2, <2>6, Zenon DEF Phased, Handed, Reads
  <2>10. Continues(q, o)
    BY <1>1, <1>2, <2>1, <2>6, Zenon DEF Continues, Unstarted, Reads, Registers
  <2>11. Become(r, q)
    BY <1>2, <1>6, <2>1, <2>3, <2>5, Zenon
  <2> QED BY <1>2, <1>3, <2>9, <2>10, <2>11, LateStep, Zenon
<1> QED BY <1>5, <1>6, Zenon DEF PrefillDiscovered

(* The handler is past the dispatch.                                         *)
LEMMA AtLate ==
  ASSUME PathInv, NEW r \in PdRequests, NEW op \in MainOps, op \notin {"enter", "encode"}, At(r, op)
  PROVE  /\ pd[r] \in PdState /\ Phased(pd[r]) /\ Handed(pd[r]) /\ Late(pd[r]) /\ pd[r].todo # <<>>
         /\ Head(pd[r].todo)[1] \in MainOps /\ Goal(pd[r].todo) = op
BY AtMain, Zenon DEF Late

(* Engine numbers are in range.                                              *)
LEMMA EnginesAre ==
  ASSUME PathInv
  PROVE  engine \in 0 .. MaxEngines /\ nixl \in 0 .. MaxEngines /\ 0 \in 0 .. MaxEngines
<1>1. engine \in 1 .. MaxEngines /\ nixl \in 0 .. MaxEngines
  BY Zenon DEF PathInv, PathTypes
<1> QED BY <1>1, PdAssumption

(* The handler's steps by name.                                              *)
LEMMA OpsAre ==
  /\ {"enter", "encode", "prefill", "read", "params", "decode", "join"} \subseteq MainOps
  /\ {"settle", "deliver", "body", "end"} \subseteq MainOps
  /\ {"read", "params", "decode", "join", "settle", "deliver", "body", "end"} \cap {"enter", "encode"} = {}
  /\ "p" \in Stages /\ "d" \in Stages /\ "p" # "d"
BY DEF MainOps, Stages

(* "read": no JSON, refused, or the transfers are prefill's.                 *)
LEMMA ReadStep == ASSUME PathInv, NEW r \in PdRequests, Read(r) PROVE PathInv'
<1>0. "read" \in MainOps /\ "read" \notin {"enter", "encode"} /\ "end" \in MainOps /\ "params" \in MainOps
      /\ "p" \in Stages
  BY OpsAre, Zenon
<1>1. At(r, "read") /\ UNCHANGED <<scene, profileVars, nixl, engine>>
  BY Zenon DEF Read
<1>2. PICK o : o = pd[r] /\ o \in PdState /\ Phased(o) /\ Handed(o) /\ ~o.together /\ o.todo # <<>>
               /\ Head(o.todo)[1] \in MainOps /\ Goal(o.todo) = "read"
  BY <1>0, <1>1, AtLate, Zenon DEF Late
<1>3. Elsewhere
  BY <1>1, NothingElse, Zenon
<1>5. CASE Become(r, Over(pd[r]))
  BY <1>0, <1>1, <1>5, OverStep, Zenon
<1>6. CASE Become(r, Then(Free(pd[r], {"p"}), StopSteps("p") \o Do("end")))
  <2>1. PICK t : /\ t = StopSteps("p") \o Do("end") /\ Program(t) /\ Goal(t) = "end"
                 /\ \A v : ~Pends(t, v)
    BY <1>0, StopDo, Zenon
  <2>2. PICK H : H = o.held \ {"p"}
    BY Zenon
  <2>3. PICK a : a = Free(o, {"p"})
    BY Zenon
  <2>4. Reads(a, o.todo, H, o.together, o.params, o.prefilled, o.armed, o.given, o.cancelled)
    BY <1>2, <2>2, <2>3, FreeIs, Zenon
  <2>5. PICK q : q = Then(a, t)
    BY Zenon
  <2>6. Reads(q, t, H, o.together, o.params, o.prefilled, o.armed, o.given, o.cancelled)
    BY <2>1, <2>4, <2>5, ThenReads, Zenon
  <2>7. "d" \in H => "d" \in o.held
    BY <2>2, Zenon
  <2>8. H # Stages
    BY <1>0, <2>2, Zenon
  <2>9. q \in PdState /\ Phased(q) /\ Handed(q)
    BY <1>2, <2>6, <2>7, <2>8, Zenon DEF Phased, Handed, Reads
  <2>10. Continues(q, pd[r])
    BY <2>1, <2>6, QuietContinues, Zenon DEF Reads
  <2>11. Become(r, q)
    BY <1>2, <1>6, <2>1, <2>3, <2>5, Zenon
  <2> QED BY <1>2, <1>3, <2>9, <2>10, <2>11, LateStep, Zenon
<1>7. ASSUME NEW kv \in KvAnswers,
             Become(r, Then([Disarm(pd[r]) EXCEPT !.kv = kv], StopSteps("p") \o Do("params")))
      PROVE  PathInv'
  <2>1. PICK t : /\ t = StopSteps("p") \o Do("params") /\ Program(t) /\ Goal(t) = "params"
                 /\ \A v : ~Pends(t, v)
    BY <1>0, StopDo, Zenon
  <2>2. kv \in {"none", "push", "halfpush", "pull", "junk"}
    BY Zenon DEF KvAnswers
  <2>3. PICK a : a = Disarm(o)
    BY Zenon
  <2>4. Reads(a, o.todo, o.held, o.together, o.params, TRUE, {}, o.given, o.cancelled)
    BY <1>2, <2>3, Zenon DEF PdState, Reads, Disarm
  <2>5. PICK b : b = [a EXCEPT !.kv = kv]
    BY Zenon
  <2>6. Reads(b, o.todo, o.held, o.together, o.params, TRUE, {}, o.given, o.cancelled)
    BY <2>2, <2>4, <2>5, Zenon DEF PdState, Reads
  <2>7. PICK q : q = Then(b, t)
    BY Zenon
  <2>8. Reads(q, t, o.held, o.together, o.params, TRUE, {}, o.given, o.cancelled)
    BY <2>1, <2>6, <2>7, ThenReads, Zenon
  <2>9. q \in PdState /\ Phased(q) /\ Handed(q)
    BY <1>2, <2>8, Zenon DEF Phased, Handed, Reads
  <2>10. Continues(q, o)
    BY <1>2, <2>1, <2>8, Zenon DEF Continues, Unstarted, Reads, Registers
  <2>11. Become(r, q)
    BY <1>2, <1>7, <2>1, <2>3, <2>5, <2>7, Zenon
  <2> QED BY <1>2, <1>3, <2>9, <2>10, <2>11, LateStep, Zenon
<1> QED BY <1>5, <1>6, <1>7, Zenon DEF Read

(* The decode parameters, and the identity that is stored with them.         *)
LEMMA IdentityIs ==
  ASSUME PathInv, NEW o \in PdState
  PROVE  /\ Identity(o) \in 0 .. MaxEngines /\ Cached(o) \in 0 .. MaxEngines
         /\ (IF Pushes(o) THEN Identity(o) ELSE nixl) \in 0 .. MaxEngines
<1>1. o.by \in 0 .. MaxEngines
  BY Zenon DEF PdState
<1>2. engine \in 0 .. MaxEngines /\ nixl \in 0 .. MaxEngines /\ 0 \in 0 .. MaxEngines
  BY EnginesAre, Zenon
<1> QED BY <1>1, <1>2, Zenon DEF Identity, Cached

(* The decode parameters are set, and nothing else.                          *)
LEMMA WithParamsIs ==
  ASSUME PathInv, NEW o \in PdState, NEW p \in {"none", "identity", "built", "answer"}
  PROVE  Reads(WithParams(o, p), o.todo, o.held, o.together, p, o.prefilled, o.armed, o.given,
               o.cancelled)
<1>2. PICK b : b = IF Pushes(o) THEN Identity(o) ELSE o.by
  BY Zenon
<1>3. b \in 0 .. MaxEngines
  <2>1. o.by \in 0 .. MaxEngines
    BY Zenon DEF PdState
  <2> QED BY <1>2, <2>1, IdentityIs, Zenon
<1>4. PICK q : q = [o EXCEPT !.params = p, !.by = b]
  BY Zenon
<1>5. q = WithParams(o, p)
  BY <1>2, <1>4, Zenon DEF WithParams
<1>6. Reads(q, o.todo, o.held, o.together, p, o.prefilled, o.armed, o.given, o.cancelled)
  BY <1>3, <1>4, Zenon DEF PdState, Reads
<1> QED BY <1>5, <1>6, Zenon

(* The parameters a decode request may get.                                  *)
LEMMA ParamsAre ==
  ASSUME NEW o
  PROVE  ParamsFor(o) \subseteq {"none", "identity", "built", "answer"}
BY DEF ParamsFor

(* "params" in direct mode: the guards change places.                        *)
LEMMA ParamsStep == ASSUME PathInv, NEW r \in PdRequests, Params(r) PROVE PathInv'
<1>0. "params" \in MainOps /\ "params" \notin {"enter", "encode"} /\ "decode" \in MainOps /\ "d" \in Stages
      /\ "p" \in Stages /\ "p" # "d"
  BY OpsAre, Zenon
<1>1. /\ At(r, "params") /\ scene.direct
      /\ \E x \in ParamsFor(pd[r]) :
           Become(r, Then(WithParams(Swap(pd[r]), x), StartSteps("d") \o Do("decode")))
      /\ nixl' = (IF Pushes(pd[r]) THEN Identity(pd[r]) ELSE nixl)
      /\ UNCHANGED <<scene, profileVars, engine>>
  BY Zenon DEF Params
<1>1a. PICK p \in {"none", "identity", "built", "answer"} :
         Become(r, Then(WithParams(Swap(pd[r]), p), StartSteps("d") \o Do("decode")))
  BY <1>1, ParamsAre, Zenon
<1>2. PICK o : o = pd[r] /\ o \in PdState /\ Phased(o) /\ Handed(o) /\ o.prefilled /\ ~o.together
               /\ o.todo # <<>> /\ Head(o.todo)[1] \in MainOps /\ Goal(o.todo) = "params"
  BY <1>0, <1>1, AtLate, Zenon DEF Late
<1>3. Elsewhere
  BY <1>1, <1>2, IdentityIs, Zenon DEF Elsewhere
<1>4. PICK t : t = StartSteps("d") \o Do("decode")
  BY Zenon
<1>4a. Program(t) /\ Goal(t) = "decode" /\ \A v : Pends(t, v) => v = "d"
  BY <1>0, <1>4, StartDo, Zenon
<1>5. PICK a, H : a = Free(o, {"p"}) /\ H = o.held \ {"p"}
  BY Zenon
<1>6. Reads(a, o.todo, H, o.together, o.params, o.prefilled, o.armed, o.given, o.cancelled)
  <2>1. o \in PdState
    BY <1>2, Zenon
  <2> QED BY <1>5, <2>1, FreeIs, Zenon
<1>7. PICK G : G = H \cup {"d"}
  BY Zenon
<1>8. G \in SUBSET Stages /\ G # Stages
  <2>1. o.held \in SUBSET Stages
    BY <1>2, Zenon DEF PdState
  <2>2. "p" \notin G
    BY <1>0, <1>5, <1>7, Zenon
  <2> QED BY <1>0, <1>5, <1>7, <2>1, <2>2, Zenon
<1>9. PICK b : b = [a EXCEPT !.held = G]
  BY Zenon
<1>10. b = Swap(o)
  <2>1. a.held = H
    BY <1>6, Zenon DEF Reads
  <2> QED BY <1>5, <1>7, <1>9, <2>1, Zenon DEF Swap, Hold
<1>11. Reads(b, a.todo, G, a.together, a.params, a.prefilled, a.armed, a.given, a.cancelled)
  <2>1. a \in PdState
    BY <1>6, Zenon DEF Reads
  <2> QED BY <1>8, <1>9, <2>1, HeldIs, Zenon
<1>12. PICK c : /\ c = WithParams(b, p)
                /\ Reads(c, b.todo, b.held, b.together, p, b.prefilled, b.armed, b.given, b.cancelled)
  <2>1. b \in PdState
    BY <1>11, Zenon DEF Reads
  <2> QED BY <2>1, WithParamsIs, Zenon
<1>13. Reads(c, o.todo, G, o.together, p, o.prefilled, o.armed, o.given, o.cancelled)
  BY <1>6, <1>11, <1>12, Zenon DEF Reads
<1>14. PICK q : q = Then(c, t)
  BY Zenon
<1>15. Reads(q, t, G, o.together, p, o.prefilled, o.armed, o.given, o.cancelled)
  BY <1>13, <1>14, <1>4a, ThenReads, Zenon
<1>16. q \in PdState /\ Phased(q) /\ Handed(q)
  BY <1>2, <1>8, <1>15, Zenon DEF Phased, Handed, Reads
<1>17. Continues(q, o)
  BY <1>2, <1>15, <1>4a, Zenon DEF Continues, Unstarted, Reads, Registers
<1>18. Become(r, q)
  BY <1>1a, <1>2, <1>4, <1>10, <1>12, <1>14, Zenon
<1> QED BY <1>2, <1>3, <1>16, <1>17, <1>18, LateStep, Zenon

(* "params" in discovery mode: the decode request alone, or both.            *)
LEMMA ParamsDiscoveredStep ==
  ASSUME PathInv, NEW r \in PdRequests, ParamsDiscovered(r) PROVE PathInv'
<1>0. "params" \in MainOps /\ "params" \notin {"enter", "encode"} /\ "decode" \in MainOps /\ "d" \in Stages
      /\ "p" \in Stages /\ "p" # "d"
  BY OpsAre, Zenon
<1>1. /\ At(r, "params") /\ ~scene.direct
      /\ \E x \in ParamsFor(pd[r]) :
           Become(r, Then(WithParams(pd[r], x),
                          StartSteps("d") \o (IF pd[r].together THEN StartSteps("p") \o Do("join")
                                              ELSE Do("decode"))))
      /\ nixl' = (IF Pushes(pd[r]) THEN Identity(pd[r]) ELSE nixl)
      /\ UNCHANGED <<scene, profileVars, engine>>
  BY Zenon DEF ParamsDiscovered
<1>1a. PICK p \in {"none", "identity", "built", "answer"} :
         Become(r, Then(WithParams(pd[r], p),
                        StartSteps("d") \o (IF pd[r].together THEN StartSteps("p") \o Do("join")
                                            ELSE Do("decode"))))
  BY <1>1, ParamsAre, Zenon
<1>2. PICK o : o = pd[r] /\ o \in PdState /\ Phased(o) /\ Handed(o)
               /\ o.todo # <<>> /\ Head(o.todo)[1] \in MainOps /\ Goal(o.todo) = "params"
  BY <1>0, <1>1, AtLate, Zenon
<1>3. Elsewhere
  BY <1>1, <1>2, IdentityIs, Zenon DEF Elsewhere
<1>4. PICK t : t = StartSteps("d") \o (IF o.together THEN StartSteps("p") \o Do("join") ELSE Do("decode"))
  BY Zenon
<1>5. /\ Program(t) /\ Goal(t) \in {"join", "decode"} /\ (o.together => Goal(t) = "join")
      /\ ~o.together => \A v : Pends(t, v) => v = "d"
  <2>1. CASE o.together
    BY <1>4, <2>1, StartBothDo, Zenon
  <2>2. CASE ~o.together
    BY <1>0, <1>4, <2>2, StartDo, Zenon
  <2> QED BY <2>1, <2>2, Zenon
<1>12. PICK c : /\ c = WithParams(o, p)
                /\ Reads(c, o.todo, o.held, o.together, p, o.prefilled, o.armed, o.given, o.cancelled)
  BY <1>2, WithParamsIs, Zenon
<1>14. PICK q : q = Then(c, t)
  BY Zenon
<1>15. Reads(q, t, o.held, o.together, p, o.prefilled, o.armed, o.given, o.cancelled)
  BY <1>5, <1>12, <1>14, ThenReads, Zenon
<1>16. q \in PdState /\ Phased(q) /\ Handed(q)
  BY <1>1, <1>2, <1>15, Zenon DEF Phased, Handed, Reads
<1>17. Continues(q, o)
  <2>1. ASSUME NEW w \in Stages, Unstarted(q, w) PROVE Unstarted(o, w)
    <3>1. Pends(t, w)
      BY <1>5, <1>15, <2>1, Zenon DEF Unstarted, Reads
    <3>2. w = "d" \/ (w = "p" /\ o.together)
      BY <1>5, <3>1, Zenon DEF Stages
    <3> QED BY <1>2, <3>2, Zenon DEF Unstarted
  <2>2. Registers(t)
    BY <1>0, <1>5, Zenon DEF Registers
  <2> QED BY <1>5, <1>15, <2>1, <2>2, Zenon DEF Continues, Reads
<1>18. Become(r, q)
  BY <1>1a, <1>2, <1>4, <1>12, <1>14, Zenon
<1> QED BY <1>2, <1>3, <1>16, <1>17, <1>18, LateStep, Zenon

(* The decode worker answered; the reply is delivered once it is stopped.    *)
LEMMA DecodingStep ==
  ASSUME PathInv, NEW r \in PdRequests, NEW op \in MainOps, op \notin {"enter", "encode"}, At(r, op),
         Become(r, Then([pd[r] EXCEPT !.decoding = TRUE], StopSteps("d") \o Do("deliver"))),
         UNCHANGED <<scene, profileVars, nixl, engine>>
  PROVE  PathInv'
<1>2. PICK o : o = pd[r] /\ o \in PdState /\ Phased(o) /\ Handed(o) /\ Head(o.todo)[1] \in MainOps
  BY AtLate, Zenon
<1>3. Elsewhere
  BY NothingElse, Zenon
<1>4. PICK t : /\ t = StopSteps("d") \o Do("deliver") /\ Program(t) /\ Goal(t) = "deliver"
               /\ \A v : ~Pends(t, v)
  BY OpsAre, StopDo, Zenon
<1>5. PICK a : a = [o EXCEPT !.decoding = TRUE]
  BY Zenon
<1>6. Reads(a, o.todo, o.held, o.together, o.params, o.prefilled, o.armed, o.given, o.cancelled)
  BY <1>2, <1>5, Zenon DEF PdState, Reads
<1>7. PICK q : q = Then(a, t)
  BY Zenon
<1>8. Reads(q, t, o.held, o.together, o.params, o.prefilled, o.armed, o.given, o.cancelled)
  BY <1>4, <1>6, <1>7, ThenReads, Zenon
<1>9. q \in PdState /\ Phased(q) /\ Handed(q)
  BY <1>2, <1>8, Zenon DEF Phased, Handed, Reads
<1>10. Continues(q, pd[r])
  BY <1>4, <1>8, QuietContinues, Zenon DEF Reads
<1>11. Become(r, q)
  BY <1>2, <1>4, <1>5, <1>7, Zenon
<1> QED BY <1>2, <1>3, <1>9, <1>10, <1>11, LateStep, Zenon

(* The decode call, in either mode.                                          *)
LEMMA DecodeStep ==
  ASSUME PathInv, NEW r \in PdRequests, Decode(r) \/ DecodeDiscovered(r) PROVE PathInv'
<1>0. "decode" \in MainOps /\ "decode" \notin {"enter", "encode"}
  BY OpsAre, Zenon
<1>1. At(r, "decode") /\ UNCHANGED <<scene, profileVars, nixl, engine>>
  BY Zenon DEF Decode, DecodeDiscovered
<1>2. CASE Become(r, Over(pd[r]))
  BY <1>0, <1>1, <1>2, OverStep, Zenon
<1>3. CASE Become(r, Then([pd[r] EXCEPT !.decoding = TRUE], StopSteps("d") \o Do("deliver")))
  BY <1>0, <1>1, <1>3, DecodingStep, Zenon
<1> QED BY <1>2, <1>3, Zenon DEF Decode, DecodeDiscovered

(* "join": both are stopped, or the answers are settled.                     *)
LEMMA JoinStep ==
  ASSUME PathInv, NEW r \in PdRequests, Join(r) \/ JoinDiscovered(r) PROVE PathInv'
<1>0. "join" \in MainOps /\ "join" \notin {"enter", "encode"} /\ "settle" \in MainOps /\ "p" \in Stages
  BY OpsAre, Zenon
<1>1. At(r, "join") /\ UNCHANGED <<scene, profileVars, nixl, engine>>
  BY Zenon DEF Join, JoinDiscovered
<1>2. PICK o : o = pd[r] /\ o \in PdState /\ Phased(o) /\ Handed(o) /\ Head(o.todo)[1] \in MainOps
  BY <1>0, <1>1, AtLate, Zenon
<1>3. Elsewhere
  BY <1>1, NothingElse, Zenon
<1>4. CASE Become(r, Then(pd[r], StopSteps("p") \o StopSteps("d") \o Do("end")))
  <2>1. PICK t : /\ t = StopSteps("p") \o StopSteps("d") \o Do("end") /\ Program(t) /\ Goal(t) = "end"
                 /\ \A v : ~Pends(t, v)
    BY StopBothDo, Zenon
  <2>2. PICK q : q = Then(o, t)
    BY Zenon
  <2>3. Reads(q, t, o.held, o.together, o.params, o.prefilled, o.armed, o.given, o.cancelled)
    BY <1>2, <2>1, <2>2, ThenIs, ProgramIsLong, Zenon
  <2>4. q \in PdState /\ Phased(q) /\ Handed(q)
    BY <1>2, <2>3, Zenon DEF Phased, Handed, Reads
  <2>5. Continues(q, pd[r])
    BY <2>1, <2>3, QuietContinues, Zenon DEF Reads
  <2>6. Become(r, q)
    BY <1>2, <1>4, <2>1, <2>2, Zenon
  <2> QED BY <1>2, <1>3, <2>4, <2>5, <2>6, LateStep, Zenon
<1>5. ASSUME NEW kv \in KvAnswers \cup {"junk"},
             Become(r, Then([pd[r] EXCEPT !.kv = kv, !.by = engine], StopSteps("p") \o Do("settle")))
      PROVE  PathInv'
  <2>0. kv \in {"none", "push", "halfpush", "pull", "junk"} /\ engine \in 0 .. MaxEngines
    BY EnginesAre, Zenon DEF KvAnswers
  <2>1. PICK t : t = StopSteps("p") \o Do("settle")
    BY Zenon
  <2>2. Program(t) /\ Goal(t) = "settle" /\ \A v : ~Pends(t, v)
    BY <1>0, <2>1, StopDo, Zenon
  <2>3. PICK a : a = [o EXCEPT !.kv = kv, !.by = engine]
    BY Zenon
  <2>4. Reads(a, o.todo, o.held, o.together, o.params, o.prefilled, o.armed, o.given, o.cancelled)
    BY <1>2, <2>0, <2>3, Zenon DEF PdState, Reads
  <2>5. PICK q : q = Then(a, t)
    BY Zenon
  <2>6. Reads(q, t, o.held, o.together, o.params, o.prefilled, o.armed, o.given, o.cancelled)
    BY <2>2, <2>4, <2>5, ThenReads, Zenon
  <2>7. q \in PdState /\ Phased(q) /\ Handed(q)
    BY <1>2, <2>6, Zenon DEF Phased, Handed, Reads
  <2>8. Continues(q, pd[r])
    BY <2>2, <2>6, QuietContinues, Zenon DEF Reads
  <2>9. Become(r, q)
    BY <1>2, <1>5, <2>1, <2>3, <2>5, Zenon
  <2> QED BY <1>2, <1>3, <2>7, <2>8, <2>9, LateStep, Zenon
<1> QED BY <1>4, <1>5, Zenon DEF Join, JoinDiscovered

(* The answers of both are in: prefill has the transfers.                    *)
LEMMA SettledStep ==
  ASSUME PathInv, NEW r \in PdRequests, At(r, "settle"), NEW o, NEW H,
         Reads(o, pd[r].todo, H, pd[r].together, pd[r].params, TRUE, {}, pd[r].given, pd[r].cancelled),
         H \subseteq pd[r].held,
         \/ Become(r, Then(o, StopSteps("d") \o Do("end")))
         \/ Become(r, Then([o EXCEPT !.decoding = TRUE], StopSteps("d") \o Do("deliver"))),
         nixl' = Cached(pd[r]), UNCHANGED <<scene, profileVars, engine>>
  PROVE  PathInv'
<1>0. "settle" \in MainOps /\ "settle" \notin {"enter", "encode"} /\ "end" \in MainOps
      /\ "deliver" \in MainOps /\ "d" \in Stages
  BY OpsAre, Zenon
<1>2. PICK p : p = pd[r] /\ p \in PdState /\ Phased(p) /\ Handed(p) /\ Head(p.todo)[1] \in MainOps
  BY <1>0, AtLate, Zenon
<1>3. Elsewhere
  BY <1>2, IdentityIs, Zenon DEF Elsewhere
<1>4. PICK a, t, g : /\ Become(r, Then(a, t)) /\ t = StopSteps("d") \o Do(g) /\ g \in {"end", "deliver"}
                     /\ a = o \/ a = [o EXCEPT !.decoding = TRUE]
  BY Zenon
<1>5. Program(t) /\ Goal(t) = g /\ \A v : ~Pends(t, v)
  BY <1>0, <1>4, StopDo, Zenon
<1>6. Reads(a, p.todo, H, p.together, p.params, TRUE, {}, p.given, p.cancelled)
  <2>1. CASE a = o
    BY <1>2, <2>1, Zenon
  <2>2. CASE a = [o EXCEPT !.decoding = TRUE]
    BY <1>2, <2>2, Zenon DEF PdState, Reads
  <2> QED BY <1>4, <2>1, <2>2, Zenon
<1>7. PICK q : q = Then(a, t)
  BY Zenon
<1>8. Reads(q, t, H, p.together, p.params, TRUE, {}, p.given, p.cancelled)
  BY <1>5, <1>6, <1>7, ThenReads, Zenon
<1>9. H = Stages => p.held = Stages
  <2>1. p.held \in SUBSET Stages
    BY <1>2, Zenon DEF PdState
  <2> QED BY <1>2, <2>1, Zenon
<1>10. q \in PdState /\ Phased(q) /\ Handed(q)
  BY <1>2, <1>8, <1>9, Zenon DEF Phased, Handed, Reads
<1>11. Continues(q, pd[r])
  BY <1>4, <1>5, <1>8, QuietContinues, Zenon DEF Reads
<1>12. Become(r, q)
  BY <1>4, <1>7, Zenon
<1> QED BY <1>2, <1>3, <1>10, <1>11, <1>12, LateStep, Zenon

(* The joined calls are looked at, in direct mode.                           *)
LEMMA SettleStep ==
  ASSUME PathInv, NEW r \in PdRequests, Settle(r) PROVE PathInv'
<1>1. At(r, "settle") /\ nixl' = Cached(pd[r]) /\ UNCHANGED <<scene, profileVars, engine>>
  BY Zenon DEF Settle
<1>2. pd[r] \in PdState
  BY Zenon DEF PathInv
<1>3. PICK a, H : a = Free(pd[r], {"p"}) /\ H = pd[r].held \ {"p"}
  BY Zenon
<1>4. Reads(a, pd[r].todo, H, pd[r].together, pd[r].params, pd[r].prefilled, pd[r].armed,
            pd[r].given, pd[r].cancelled)
  BY <1>2, <1>3, FreeIs, Zenon
<1>5. PICK o : o = Disarm(a)
  BY Zenon
<1>6. Reads(o, pd[r].todo, H, pd[r].together, pd[r].params, TRUE, {}, pd[r].given, pd[r].cancelled)
  BY <1>4, <1>5, Zenon DEF Disarm, PdState, Reads
<1>7. \/ Become(r, Then(o, StopSteps("d") \o Do("end")))
      \/ Become(r, Then([o EXCEPT !.decoding = TRUE], StopSteps("d") \o Do("deliver")))
  BY <1>3, <1>5, Zenon DEF Settle
<1>8. H \subseteq pd[r].held
  BY <1>3, Zenon
<1> QED BY <1>1, <1>6, <1>7, <1>8, SettledStep, Zenon

(* The joined calls are looked at, in discovery mode.                        *)
LEMMA SettleDiscoveredStep ==
  ASSUME PathInv, NEW r \in PdRequests, SettleDiscovered(r) PROVE PathInv'
<1>0. "settle" \in MainOps /\ "settle" \notin {"enter", "encode"}
  BY OpsAre, Zenon
<1>1. /\ At(r, "settle") /\ ~scene.direct /\ nixl' = Cached(pd[r])
      /\ UNCHANGED <<scene, profileVars, engine>>
  BY Zenon DEF SettleDiscovered
<1>2. pd[r] \in PdState /\ pd[r].armed = {}
  BY <1>0, <1>1, AtLate, Zenon DEF Handed
<1>5. PICK o : o = [pd[r] EXCEPT !.prefilled = TRUE]
  BY Zenon
<1>6. Reads(o, pd[r].todo, pd[r].held, pd[r].together, pd[r].params, TRUE, {}, pd[r].given,
            pd[r].cancelled)
  BY <1>2, <1>5, Zenon DEF PdState, Reads
<1>7. \/ Become(r, Then(o, StopSteps("d") \o Do("end")))
      \/ Become(r, Then([o EXCEPT !.decoding = TRUE], StopSteps("d") \o Do("deliver")))
  BY <1>5, Zenon DEF SettleDiscovered
<1>8. pd[r].held \subseteq pd[r].held
  BY Zenon
<1> QED BY <1>1, <1>6, <1>7, <1>8, SettledStep, Zenon

(* The reply is read here, or becomes the body's stream.                     *)
LEMMA DeliverStep ==
  ASSUME PathInv, NEW r \in PdRequests, DeliverInTurn(r) \/ Deliver(r) PROVE PathInv'
<1>0. "deliver" \in MainOps /\ "deliver" \notin {"enter", "encode"} /\ "body" \in MainOps
  BY OpsAre, Zenon
<1>1. At(r, "deliver") /\ UNCHANGED <<scene, profileVars, nixl, engine>>
  BY Zenon DEF DeliverInTurn, Deliver
<1>2. PICK o : o = pd[r] /\ o \in PdState /\ Phased(o) /\ Handed(o) /\ Head(o.todo)[1] \in MainOps
  BY <1>0, <1>1, AtLate, Zenon
<1>3. Elsewhere
  BY <1>1, NothingElse, Zenon
<1>4. CASE Become(r, Over(pd[r]))
  BY <1>0, <1>1, <1>4, OverStep, Zenon
<1>5. CASE Become(r, Then(pd[r], Do("body")))
  <2>1. PICK t : t = Do("body") /\ Program(t) /\ Goal(t) = "body" /\ \A v : ~Pends(t, v)
    BY <1>0, DoProgram, Zenon
  <2>2. PICK q : q = Then(o, t)
    BY Zenon
  <2>3. Reads(q, t, o.held, o.together, o.params, o.prefilled, o.armed, o.given, o.cancelled)
    BY <1>2, <2>1, <2>2, ThenIs, ProgramIsLong, Zenon
  <2>4. q \in PdState /\ Phased(q) /\ Handed(q)
    BY <1>2, <2>3, Zenon DEF Phased, Handed, Reads
  <2>5. Continues(q, pd[r])
    BY <2>1, <2>3, QuietContinues, Zenon DEF Reads
  <2>6. Become(r, q)
    BY <1>2, <1>5, <2>1, <2>2, Zenon
  <2> QED BY <1>2, <1>3, <2>4, <2>5, <2>6, LateStep, Zenon
<1> QED BY <1>4, <1>5, Zenon DEF DeliverInTurn, Deliver

-----------------------------------------------------------------------------
(* Profiling                                                                 *)

(* A profiling call is over.                                                 *)
LEMMA AdvanceIs ==
  ASSUME PathInv, NEW r \in PdRequests, Advance(r), UNCHANGED scene,
         pd[r].todo # <<>>, Head(pd[r].todo)[1] \in ProfileOps
  PROVE  \E q : /\ pd' = [pd EXCEPT ![r] = q] /\ q.todo = Tail(pd[r].todo) /\ Requests'
                /\ q.together = pd[r].together /\ Program(pd[r].todo)
                /\ \A w \in Stages : Unstarted(q, w) => Unstarted(pd[r], w)
<1>1. PICK o : o = pd[r] /\ Local(o) /\ o \in PdState /\ Program(o.todo) /\ Registers(o.todo)
  BY Zenon DEF PathInv, Local
<1>2. PICK t : t = Tail(o.todo)
  BY Zenon
<1>3. Program(t) /\ Goal(t) = Goal(o.todo) /\ \A v : Pends(t, v) => Pends(o.todo, v)
  BY <1>1, <1>2, TailProgram, Zenon
<1>4. t # <<>> /\ t \in Seq(PdSteps)
  BY <1>3, ProgramIsLong, Zenon
<1>5. PICK q : q = Then(o, t)
  BY Zenon
<1>6. Reads(q, t, o.held, o.together, o.params, o.prefilled, o.armed, o.given, o.cancelled)
  BY <1>1, <1>4, <1>5, ThenIs, Zenon
<1>7. Phased(q)
  BY <1>1, <1>6, Zenon DEF Local, Phased, Reads
<1>8. Registers(t)
  BY <1>1, <1>3, Zenon DEF Registers
<1>9. Early(o) => Early(q)
  BY <1>3, <1>6, Zenon DEF Early, Reads
<1>10. Late(o) => Late(q)
  BY <1>3, <1>6, Zenon DEF Late, Handed, Reads
<1>11. Local(q)
  BY <1>1, <1>3, <1>4, <1>6, <1>7, <1>8, <1>9, <1>10, Zenon DEF Local, Reads
<1>12. pd' = [pd EXCEPT ![r] = q] /\ pdLoad' = pdLoad /\ pd \in [PdRequests -> PdState]
  BY <1>1, <1>2, <1>5, Zenon DEF Advance, Then, PathInv
<1>13. \A w : Holders(w)' = Holders(w)
  <2>1. q.held = pd[r].held
    BY <1>1, <1>6, Zenon DEF Reads
  <2>2. \A s \in PdRequests : pd'[s].held = pd[s].held
    BY <1>12, <2>1, Zenon
  <2> QED BY <2>2, Zenon DEF Holders
<1>14. pdLoad' = [w \in Stages |-> Cardinality(Holders(w)')]
  BY <1>12, <1>13, Zenon DEF PathInv
<1>15. ASSUME NEW p, Local(p) PROVE Local(p)'
  BY <1>15, Zenon DEF Local, Phased, Closed, Early, Late, Handed
<1>16. ASSUME NEW s \in PdRequests PROVE Local(pd[s])'
  <2>1. Local(pd'[s])
    BY <1>11, <1>12, Zenon DEF PathInv
  <2> QED BY <1>15, <2>1, Zenon
<1>17. pd' \in [PdRequests -> PdState]
  BY <1>6, <1>12, Zenon DEF Reads
<1>18. Requests'
  BY <1>14, <1>16, <1>17, Zenon DEF Requests
<1>19. \A w \in Stages : Unstarted(q, w) => Unstarted(o, w)
  BY <1>1, <1>3, <1>6, Zenon DEF Unstarted, Reads
<1> QED BY <1>1, <1>2, <1>6, <1>12, <1>18, <1>19, Zenon DEF Reads

(* The other requests stay where they are.                                   *)
LEMMA OthersStay ==
  ASSUME PathInv, NEW r \in PdRequests, NEW q, pd' = [pd EXCEPT ![r] = q],
         NEW s \in PdRequests, s # r
  PROVE  /\ At(s, "spawn")' <=> At(s, "spawn")
         /\ At(s, "unpost")' <=> At(s, "unpost")
         /\ Stage(s)' = Stage(s)
<1>1. pd'[s] = pd[s]
  BY Zenon DEF PathInv
<1> QED BY <1>1, Zenon DEF At, Stage

(* Someone will stop the worker.                                             *)
HasEnd(w) ==
  \/ \E r \in PdRequests : timers[<<r, w>>] = "asleep"
  \/ \E r \in PdRequests : (At(r, "spawn") \/ At(r, "unpost")) /\ Stage(r) = w

(* Who will stop the worker is still there after a step of a request that    *)
(* was not the one.                                                          *)
LEMMA HasEndKept ==
  ASSUME PathInv, NEW r \in PdRequests, NEW q, pd' = [pd EXCEPT ![r] = q], NEW w, HasEnd(w),
         (At(r, "spawn") \/ At(r, "unpost")) => Stage(r) # w,
         \A s \in PdRequests : timers[<<s, w>>] = "asleep" => timers'[<<s, w>>] = "asleep"
  PROVE  HasEnd(w)'
<1>1. ASSUME NEW s \in PdRequests, At(s, "spawn") \/ At(s, "unpost"), Stage(s) = w
      PROVE  HasEnd(w)'
  <2>1. s # r
    BY <1>1, Zenon
  <2> QED BY <1>1, <2>1, OthersStay, Zenon DEF HasEnd
<1>2. ASSUME NEW s \in PdRequests, timers[<<s, w>>] = "asleep" PROVE HasEnd(w)'
  BY <1>2, Zenon DEF HasEnd
<1> QED BY <1>1, <1>2, Zenon DEF HasEnd

(* The parts of the invariant put together.                                  *)
LEMMA PathParts ==
  ASSUME Requests', PathTypes', TasksAreLate', \A w \in profiled' \ orphans' : HasEnd(w)'
  PROVE  PathInv'
BY Zenon DEF PathInv, Requests, ProfileHasAnEnd, HasEnd

(* A worker that profiles has an end.                                        *)
LEMMA EndsBefore ==
  ASSUME PathInv, NEW w \in profiled, w \notin orphans
  PROVE  HasEnd(w)
BY Zenon DEF PathInv, ProfileHasAnEnd, HasEnd

(* The request is inside a profiling call about one of the workers.          *)
LEMMA AtProfile ==
  ASSUME PathInv, NEW r \in PdRequests, NEW op \in ProfileOps, At(r, op)
  PROVE  /\ pd[r].todo # <<>> /\ Head(pd[r].todo)[1] = op /\ Program(pd[r].todo)
         /\ Stage(r) \in Stages /\ Head(pd[r].todo)[2] = Stage(r)
         /\ \A other : At(r, other) => other = op
<1>1. pd[r].todo # <<>> /\ Head(pd[r].todo)[1] = op /\ Head(pd[r].todo)[2] = Stage(r)
  BY Zenon DEF At, Stage
<1>2. Program(pd[r].todo)
  BY <1>1, Zenon DEF PathInv, Local
<1>3. Head(pd[r].todo) \in PdSteps
  BY <1>1, <1>2, TailProgram, Zenon
<1>4. Stage(r) \in Stages
  BY <1>1, <1>3 DEF PdSteps
<1> QED BY <1>1, <1>2, <1>4, Zenon DEF At

(* The worker profiles, or the call failed; the request that asked goes on   *)
(* to spawn the task.                                                        *)
LEMMA PostStep == ASSUME PathInv, NEW r \in PdRequests, Post(r) PROVE PathInv'
<1>0. "post" \in ProfileOps /\ "post" # "spawn" /\ "post" # "unpost"
  BY Zenon DEF ProfileOps
<1>1. /\ At(r, "post") /\ Advance(r) /\ profiled' \in {profiled, profiled \cup {Stage(r)}}
      /\ UNCHANGED <<scene, tasks, timers, tasksLock, nixl, engine, orphans>>
  BY Zenon DEF Post
<1>2. /\ pd[r].todo # <<>> /\ Head(pd[r].todo)[1] = "post" /\ Program(pd[r].todo)
      /\ Stage(r) \in Stages /\ Head(pd[r].todo)[2] = Stage(r) /\ ~At(r, "spawn") /\ ~At(r, "unpost")
  BY <1>0, <1>1, AtProfile, Zenon
<1>3. PICK q : /\ pd' = [pd EXCEPT ![r] = q] /\ q.todo = Tail(pd[r].todo) /\ Requests'
               /\ \A w \in Stages : Unstarted(q, w) => Unstarted(pd[r], w)
  BY <1>0, <1>1, <1>2, AdvanceIs, Zenon
<1>4. TasksAreLate'
  BY <1>1, <1>3, TasksKept, Zenon
<1>5. PathTypes'
  BY <1>1, <1>2, Zenon DEF PathInv, PathTypes
<1>6. At(r, "spawn")' /\ Stage(r)' = Stage(r)
  <2>1. Head(q.todo) = <<"spawn", Stage(r)>> /\ q.todo # <<>>
    BY <1>0, <1>2, <1>3, TailProgram, Zenon
  <2>2. pd'[r] = q
    BY <1>3, Zenon DEF PathInv
  <2>3. Head(q.todo)[1] = "spawn" /\ Head(q.todo)[2] = Stage(r)
    BY <2>1
  <2> QED BY <2>1, <2>2, <2>3, Zenon DEF At, Stage
<1>7. ASSUME NEW w \in profiled' \ orphans' PROVE HasEnd(w)'
  <2>1. CASE w = Stage(r)
    BY <1>6, <2>1, Zenon DEF HasEnd
  <2>2. CASE w # Stage(r)
    <3>1. HasEnd(w)
      BY <1>1, <1>7, <2>2, EndsBefore, Zenon
    <3> QED BY <1>1, <1>2, <1>3, <3>1, HasEndKept, Zenon
  <2> QED BY <2>1, <2>2, Zenon
<1> QED BY <1>3, <1>4, <1>5, <1>7, PathParts, Zenon

(* The timeout task sleeps.                                                  *)
LEMMA SpawnStep == ASSUME PathInv, NEW r \in PdRequests, Spawn(r) PROVE PathInv'
<1>0. "spawn" \in ProfileOps
  BY Zenon DEF ProfileOps
<1>1. /\ At(r, "spawn") /\ Advance(r) /\ timers' = [timers EXCEPT ![<<r, Stage(r)>>] = "asleep"]
      /\ UNCHANGED <<scene, profiled, tasks, tasksLock, nixl, engine, orphans>>
  BY Zenon DEF Spawn
<1>2. pd[r].todo # <<>> /\ Head(pd[r].todo)[1] = "spawn" /\ Stage(r) \in Stages
  BY <1>0, <1>1, AtProfile, Zenon
<1>3. PICK q : /\ pd' = [pd EXCEPT ![r] = q] /\ q.todo = Tail(pd[r].todo) /\ Requests'
               /\ \A w \in Stages : Unstarted(q, w) => Unstarted(pd[r], w)
  BY <1>0, <1>1, <1>2, AdvanceIs, Zenon
<1>4. TasksAreLate'
  BY <1>1, <1>3, TasksKept, Zenon
<1>5. timers \in [Timers -> {"none", "asleep", "stopping"}] /\ <<r, Stage(r)>> \in Timers
  BY <1>2, Zenon DEF PathInv, PathTypes, Timers
<1>6. timers' \in [Timers -> {"none", "asleep", "stopping"}] /\ timers'[<<r, Stage(r)>>] = "asleep"
  BY <1>1, <1>5, Zenon
<1>7. PathTypes'
  BY <1>1, <1>6, Zenon DEF PathInv, PathTypes
<1>8. ASSUME NEW w \in profiled' \ orphans' PROVE HasEnd(w)'
  <2>1. CASE w = Stage(r)
    BY <1>6, <2>1, Zenon DEF HasEnd
  <2>2. CASE w # Stage(r)
    <3>1. HasEnd(w) /\ w \in Stages
      BY <1>1, <1>8, EndsBefore, Zenon DEF PathInv, PathTypes
    <3>2. ASSUME NEW s \in PdRequests, timers[<<s, w>>] = "asleep" PROVE timers'[<<s, w>>] = "asleep"
      <4>1. PICK x : x = <<s, w>> /\ x # <<r, Stage(r)>> /\ x \in Timers
        <5>1. <<s, w>> # <<r, Stage(r)>>
          BY <2>2
        <5>2. <<s, w>> \in Timers
          BY <3>1, Zenon DEF Timers
        <5> QED BY <5>1, <5>2, Zenon
      <4> QED BY <1>1, <1>5, <3>2, <4>1, Zenon
    <3> QED BY <1>3, <2>2, <3>1, <3>2, HasEndKept, Zenon
  <2> QED BY <2>1, <2>2, Zenon
<1> QED BY <1>3, <1>4, <1>7, <1>8, PathParts, Zenon

(* AbortHandle::abort touches the task it is called on.                      *)
LEMMA AbortedIs ==
  ASSUME PathInv, NEW w \in Stages, NEW f \in Aborted(tasks[w])
  PROVE  /\ f \in [Timers -> {"none", "asleep", "stopping"}]
         /\ \A x \in Timers : x # tasks[w] => f[x] = timers[x]
         /\ \A s : \A v : v # w => (<<s, v>> \in Timers => f[<<s, v>>] = timers[<<s, v>>])
<1>1. timers \in [Timers -> {"none", "asleep", "stopping"}] /\ tasks[w] \in Timers \cup {NoTimer}
  BY Zenon DEF PathInv, PathTypes
<1>2. PICK t : t = tasks[w]
  BY Zenon
<1>3. f = timers \/ (t \in Timers /\ f = [timers EXCEPT ![t] = "none"])
  BY <1>1, <1>2, Zenon DEF Aborted
<1>4. f \in [Timers -> {"none", "asleep", "stopping"}] /\ \A x \in Timers : x # t => f[x] = timers[x]
  BY <1>1, <1>3, Zenon
<1>5. ASSUME NEW s, NEW v, v # w, <<s, v>> \in Timers PROVE f[<<s, v>>] = timers[<<s, v>>]
  <2>1. CASE t = NoTimer
    BY <1>1, <1>2, <1>3, <2>1, PdAssumption, Zenon
  <2>2. CASE t # NoTimer
    <3>1. PICK u \in PdRequests : t = <<u, w>>
      BY <1>2, <2>2, Zenon DEF PathInv, TasksAreLate
    <3>2. <<s, v>> # t
      BY <1>5, <3>1
    <3> QED BY <1>4, <1>5, <3>2, Zenon
  <2> QED BY <2>1, <2>2, Zenon
<1> QED BY <1>2, <1>4, <1>5, Zenon

(* The task is registered in place of another one, which is aborted. It is   *)
(* never the request's own task that is: a request registers once for a      *)
(* worker.                                                                   *)
LEMMA InsertStep == ASSUME PathInv, NEW r \in PdRequests, Insert(r) PROVE PathInv'
<1>0. "insert" \in ProfileOps /\ "insert" # "spawn" /\ "insert" # "unpost"
  BY Zenon DEF ProfileOps
<1>1. /\ At(r, "insert") /\ Advance(r) /\ timers' \in Aborted(tasks[Stage(r)])
      /\ tasks' = [tasks EXCEPT ![Stage(r)] = <<r, Stage(r)>>]
      /\ orphans' = (IF timers[<<r, Stage(r)>>] = "asleep" THEN orphans ELSE orphans \cup {Stage(r)})
      /\ UNCHANGED <<scene, profiled, tasksLock, nixl, engine>>
  BY Zenon DEF Insert
<1>2. /\ pd[r].todo # <<>> /\ Head(pd[r].todo)[1] = "insert" /\ Program(pd[r].todo)
      /\ Stage(r) \in Stages /\ Head(pd[r].todo)[2] = Stage(r) /\ ~At(r, "spawn") /\ ~At(r, "unpost")
  BY <1>0, <1>1, AtProfile, Zenon
<1>3. PICK q : /\ pd' = [pd EXCEPT ![r] = q] /\ q.todo = Tail(pd[r].todo) /\ Requests'
               /\ \A w \in Stages : Unstarted(q, w) => Unstarted(pd[r], w)
  BY <1>0, <1>1, <1>2, AdvanceIs, Zenon
<1>4. PICK v : v = Stage(r) /\ v \in Stages
  BY <1>2, Zenon
<1>5. Pends(pd[r].todo, v) /\ ~Pends(q.todo, v) /\ Goal(q.todo) = Goal(pd[r].todo)
  BY <1>0, <1>2, <1>3, <1>4, TailProgram, Zenon
<1>6. ~Unstarted(q, v)
  <2>1. Registers(pd[r].todo)
    BY <1>2, Zenon DEF PathInv, Local
  <2>2. CASE v = "p"
    BY <1>5, <2>1, <2>2, Zenon DEF Registers, Unstarted
  <2>3. CASE v = "d"
    BY <1>5, <2>1, <2>3, Zenon DEF Registers, Unstarted
  <2> QED BY <1>4, <2>2, <2>3, Zenon DEF Stages
<1>7. tasks[v] # <<r, v>> /\ <<r, v>> \in Timers
  <2>1. <<r, v>> \in Timers
    BY <1>4, Zenon DEF Timers
  <2>2. ASSUME tasks[v] = <<r, v>> PROVE FALSE
    <3>1. PICK s \in PdRequests : tasks[v] = <<s, v>> /\ ~Unstarted(pd[s], v)
      BY <1>4, <2>1, <2>2, PdAssumption, Zenon DEF PathInv, TasksAreLate
    <3>2. s = r
      BY <2>2, <3>1
    <3> QED BY <1>2, <1>5, <3>1, <3>2, Zenon DEF Unstarted
  <2> QED BY <2>1, <2>2, Zenon
<1>8. /\ timers' \in [Timers -> {"none", "asleep", "stopping"}]
      /\ timers'[<<r, v>>] = timers[<<r, v>>]
      /\ \A s : \A w : w # v => (<<s, w>> \in Timers => timers'[<<s, w>>] = timers[<<s, w>>])
  <2>1. PICK f : f = timers' /\ f \in Aborted(tasks[v])
    BY <1>1, <1>4, Zenon
  <2> QED BY <1>4, <1>7, <2>1, AbortedIs, Zenon
<1>9. PathTypes'
  BY <1>1, <1>4, <1>7, <1>8, Zenon DEF PathInv, PathTypes
<1>10. TasksAreLate'
  <2>1. SUFFICES ASSUME NEW w \in Stages, tasks'[w] # NoTimer
                 PROVE  \E s \in PdRequests : tasks'[w] = <<s, w>> /\ ~Unstarted(pd[s], w)'
    BY Zenon DEF TasksAreLate
  <2>0. tasks \in [Stages -> Timers \cup {NoTimer}] /\ pd \in [PdRequests -> PdState]
    BY Zenon DEF PathInv, PathTypes
  <2>2. CASE w = v
    <3>1. tasks'[w] = <<r, w>> /\ pd'[r] = q
      BY <1>1, <1>3, <1>4, <2>0, <2>2, Zenon
    <3>2. ~Unstarted(pd'[r], w)
      BY <1>6, <2>2, <3>1, Zenon
    <3> QED BY <3>1, <3>2, Zenon
  <2>3. CASE w # v
    <3>1. tasks'[w] = tasks[w]
      BY <1>1, <1>4, <2>0, <2>3, Zenon
    <3>2. PICK s \in PdRequests : tasks[w] = <<s, w>> /\ ~Unstarted(pd[s], w)
      BY <2>1, <3>1, Zenon DEF PathInv, TasksAreLate
    <3>3. pd'[s] = IF s = r THEN q ELSE pd[s]
      BY <1>3, <2>0, Zenon
    <3>4. ~Unstarted(pd'[s], w)
      BY <1>3, <3>2, <3>3, Zenon
    <3> QED BY <3>1, <3>2, <3>4, Zenon
  <2> QED BY <2>2, <2>3, Zenon
<1>11. ASSUME NEW w \in profiled' \ orphans' PROVE HasEnd(w)'
  <2>0. w \in profiled /\ w \notin orphans /\ w \in Stages
    BY <1>1, <1>11, Zenon DEF PathInv, PathTypes
  <2>1. CASE w = v
    <3>1. timers[<<r, v>>] = "asleep"
      BY <1>1, <1>4, <1>11, <2>1, Zenon
    <3> QED BY <1>8, <2>1, <3>1, Zenon DEF HasEnd
  <2>2. CASE w # v
    <3>1. HasEnd(w)
      BY <2>0, EndsBefore, Zenon
    <3>2. \A s \in PdRequests : <<s, w>> \in Timers
      BY <2>0, Zenon DEF Timers
    <3> QED BY <1>2, <1>3, <1>8, <2>2, <3>1, <3>2, HasEndKept, Zenon
  <2> QED BY <2>1, <2>2, Zenon
<1> QED BY <1>3, <1>9, <1>10, <1>11, PathParts, Zenon

(* The task is gone, and the request that aborted it asks the worker itself. *)
LEMMA AbortStep == ASSUME PathInv, NEW r \in PdRequests, Abort(r) PROVE PathInv'
<1>0. "abort" \in ProfileOps /\ "abort" # "spawn" /\ "abort" # "unpost"
  BY Zenon DEF ProfileOps
<1>1. /\ At(r, "abort") /\ Advance(r) /\ timers' \in Aborted(tasks[Stage(r)])
      /\ tasks' = [tasks EXCEPT ![Stage(r)] = NoTimer] /\ tasksLock' = r
      /\ UNCHANGED <<scene, profiled, nixl, engine, orphans>>
  BY Zenon DEF Abort
<1>2. /\ pd[r].todo # <<>> /\ Head(pd[r].todo)[1] = "abort" /\ Program(pd[r].todo)
      /\ Stage(r) \in Stages /\ Head(pd[r].todo)[2] = Stage(r) /\ ~At(r, "spawn") /\ ~At(r, "unpost")
  BY <1>0, <1>1, AtProfile, Zenon
<1>3. PICK q : /\ pd' = [pd EXCEPT ![r] = q] /\ q.todo = Tail(pd[r].todo) /\ Requests'
               /\ \A w \in Stages : Unstarted(q, w) => Unstarted(pd[r], w)
  BY <1>0, <1>1, <1>2, AdvanceIs, Zenon
<1>4. PICK v : v = Stage(r) /\ v \in Stages
  BY <1>2, Zenon
<1>5. tasks \in [Stages -> Timers \cup {NoTimer}] /\ pd \in [PdRequests -> PdState]
  BY Zenon DEF PathInv, PathTypes
<1>6. /\ timers' \in [Timers -> {"none", "asleep", "stopping"}]
      /\ \A s : \A w : w # v => (<<s, w>> \in Timers => timers'[<<s, w>>] = timers[<<s, w>>])
  <2>1. PICK f : f = timers' /\ f \in Aborted(tasks[v])
    BY <1>1, <1>4, Zenon
  <2> QED BY <1>4, <2>1, AbortedIs, Zenon
<1>7. PathTypes'
  BY <1>1, <1>4, <1>5, <1>6, Zenon DEF PathInv, PathTypes
<1>8. TasksAreLate'
  <2>1. SUFFICES ASSUME NEW w \in Stages, tasks'[w] # NoTimer
                 PROVE  \E s \in PdRequests : tasks'[w] = <<s, w>> /\ ~Unstarted(pd[s], w)'
    BY Zenon DEF TasksAreLate
  <2>2. tasks'[w] = tasks[w]
    BY <1>1, <1>4, <1>5, <2>1, Zenon
  <2>3. PICK s \in PdRequests : tasks[w] = <<s, w>> /\ ~Unstarted(pd[s], w)
    BY <2>1, <2>2, Zenon DEF PathInv, TasksAreLate
  <2>4. pd'[s] = IF s = r THEN q ELSE pd[s]
    BY <1>3, <1>5, Zenon
  <2>5. ~Unstarted(pd'[s], w)
    BY <1>3, <2>3, <2>4, Zenon
  <2> QED BY <2>2, <2>3, <2>5, Zenon
<1>9. At(r, "unpost")' /\ Stage(r)' = v
  <2>1. Head(q.todo) = <<"unpost", v>> /\ q.todo # <<>>
    BY <1>0, <1>2, <1>3, <1>4, TailProgram, Zenon
  <2>2. pd'[r] = q
    BY <1>3, <1>5, Zenon
  <2>3. Head(q.todo)[1] = "unpost" /\ Head(q.todo)[2] = v
    BY <2>1
  <2> QED BY <2>1, <2>2, <2>3, Zenon DEF At, Stage
<1>10. ASSUME NEW w \in profiled' \ orphans' PROVE HasEnd(w)'
  <2>0. w \in profiled /\ w \notin orphans /\ w \in Stages
    BY <1>1, <1>10, Zenon DEF PathInv, PathTypes
  <2>1. CASE w = v
    BY <1>9, <2>1, Zenon DEF HasEnd
  <2>2. CASE w # v
    <3>1. HasEnd(w)
      BY <2>0, EndsBefore, Zenon
    <3>2. \A s \in PdRequests : <<s, w>> \in Timers
      BY <2>0, Zenon DEF Timers
    <3> QED BY <1>2, <1>3, <1>6, <2>2, <3>1, <3>2, HasEndKept, Zenon
  <2> QED BY <2>1, <2>2, Zenon
<1> QED BY <1>3, <1>7, <1>8, <1>10, PathParts, Zenon

(* After a call to stop worker v: it has stopped, or it is an orphan.        *)
LEMMA StopCallIs ==
  ASSUME PathInv, NEW v \in Stages, StopCall(v)
  PROVE  /\ profiled' \in SUBSET Stages /\ orphans' \in SUBSET Stages
         /\ \A w \in profiled' \ orphans' : w \in profiled /\ w \notin orphans /\ w # v
<1>1. CASE profiled' = profiled \ {v} /\ orphans' = orphans \ {v}
  BY <1>1, Zenon DEF PathInv, PathTypes
<1>2. CASE profiled' = profiled /\ orphans' = orphans \cup {v}
  BY <1>2, Zenon DEF PathInv, PathTypes
<1> QED BY <1>1, <1>2, Zenon DEF StopCall

(* The worker has stopped, or the call failed.                               *)
LEMMA UnpostStep == ASSUME PathInv, NEW r \in PdRequests, Unpost(r) PROVE PathInv'
<1>0. "unpost" \in ProfileOps
  BY Zenon DEF ProfileOps
<1>1. /\ At(r, "unpost") /\ Advance(r) /\ StopCall(Stage(r)) /\ tasksLock' = "free"
      /\ UNCHANGED <<scene, tasks, timers, nixl, engine>>
  BY Zenon DEF Unpost
<1>2. pd[r].todo # <<>> /\ Head(pd[r].todo)[1] = "unpost" /\ Stage(r) \in Stages
  BY <1>0, <1>1, AtProfile, Zenon
<1>3. PICK q : /\ pd' = [pd EXCEPT ![r] = q] /\ q.todo = Tail(pd[r].todo) /\ Requests'
               /\ \A w \in Stages : Unstarted(q, w) => Unstarted(pd[r], w)
  BY <1>0, <1>1, <1>2, AdvanceIs, Zenon
<1>4. TasksAreLate'
  BY <1>1, <1>3, TasksKept, Zenon
<1>5. PathTypes'
  BY <1>1, <1>2, StopCallIs, Zenon DEF PathInv, PathTypes
<1>6. ASSUME NEW w \in profiled' \ orphans' PROVE HasEnd(w)'
  <2>1. w \in profiled /\ w \notin orphans /\ w # Stage(r)
    BY <1>1, <1>2, <1>6, StopCallIs, Zenon
  <2>2. HasEnd(w)
    BY <2>1, EndsBefore, Zenon
  <2> QED BY <1>1, <1>3, <2>1, <2>2, HasEndKept, Zenon
<1> QED BY <1>3, <1>4, <1>5, <1>6, PathParts, Zenon

(* The client goes away: whoever it was inside a profiling call for is an    *)
(* orphan, and the other workers keep their end.                             *)
LEMMA DropStep == ASSUME PathInv, NEW r \in PdRequests, DropPd(r) PROVE PathInv'
<1>0. {"post", "spawn", "unpost"} \subseteq ProfileOps
  BY Zenon DEF ProfileOps
<1>1. /\ pd[r].todo # <<>> /\ Become(r, Over(pd[r])) /\ tasksLock' \in {"free", tasksLock}
      /\ orphans' = (IF InTheCall(r) THEN orphans \cup {Stage(r)} ELSE orphans)
      /\ profiled' \in {profiled, profiled \cup {Stage(r)}, profiled \ {Stage(r)}}
      /\ profiled' # profiled => InTheCall(r)
      /\ UNCHANGED <<scene, tasks, timers, nixl, engine>>
  BY Zenon DEF DropPd, InTheCall
<1>2. pd[r] \in PdState /\ (Early(pd[r]) \/ Handed(pd[r]))
  BY <1>1, Zenon DEF PathInv, Local, Late
<1>3. PICK o : o = Over(pd[r]) /\ Local(o) /\ \A w : ~Unstarted(o, w)
  BY <1>2, OverLocal, Zenon
<1>4. Become(r, o) /\ pd' = [pd EXCEPT ![r] = o]
  BY <1>1, <1>3, Zenon DEF Become
<1>5. Requests'
  BY <1>1, <1>3, <1>4, RequestsKept, Zenon
<1>6. TasksAreLate'
  BY <1>1, <1>3, <1>4, TasksKept, Zenon
<1>7. InTheCall(r) => Stage(r) \in Stages
  BY <1>0, AtProfile, Zenon DEF InTheCall
<1>8. profiled' \in SUBSET Stages /\ orphans' \in SUBSET Stages
  BY <1>1, <1>7, Zenon DEF PathInv, PathTypes
<1>9. PathTypes'
  BY <1>1, <1>8, Zenon DEF PathInv, PathTypes
<1>10. ASSUME NEW w \in profiled' \ orphans' PROVE HasEnd(w)'
  <2>1. w \in profiled /\ w \notin orphans /\ (InTheCall(r) => w # Stage(r))
    BY <1>1, <1>10, Zenon
  <2>2. HasEnd(w)
    BY <2>1, EndsBefore, Zenon
  <2>3. (At(r, "spawn") \/ At(r, "unpost")) => Stage(r) # w
    BY <2>1, Zenon DEF InTheCall
  <2> QED BY <1>1, <1>4, <2>2, <2>3, HasEndKept, Zenon
<1> QED BY <1>5, <1>6, <1>9, <1>10, PathParts, Zenon

-----------------------------------------------------------------------------
(* Timeout tasks, evictions, restarts                                        *)

(* Steps that leave the requests alone.                                      *)
LEMMA RequestsRest ==
  ASSUME PathInv, UNCHANGED <<scene, pd, pdLoad>>
  PROVE  /\ Requests'
         /\ \A r \in PdRequests : \A w : Unstarted(pd[r], w)' <=> Unstarted(pd[r], w)
         /\ \A r \in PdRequests : /\ At(r, "spawn")' <=> At(r, "spawn")
                                  /\ At(r, "unpost")' <=> At(r, "unpost")
                                  /\ Stage(r)' = Stage(r)
<1>1. ASSUME NEW r \in PdRequests PROVE Local(pd[r])'
  <2>1. Local(pd[r])
    BY Zenon DEF PathInv
  <2> QED BY <2>1, Zenon DEF Local, Phased, Closed, Early, Late, Handed
<1>2. \A w : Holders(w)' = Holders(w)
  BY Zenon DEF Holders
<1>3. Requests'
  BY <1>1, <1>2, Zenon DEF PathInv, Requests
<1> QED BY <1>3, Zenon DEF Unstarted, At, Stage

(* The task asks the worker to stop.                                         *)
LEMMA TimeoutStep == ASSUME PathInv, NEW t \in Timers, Timeout(t) PROVE PathInv'
<1>1. /\ timers' = [timers EXCEPT ![t] = "stopping"] /\ StopCall(t[2])
      /\ UNCHANGED <<scene, pd, pdLoad, tasks, tasksLock, nixl, engine>>
  BY Zenon DEF Timeout
<1>1a. t[2] \in Stages
  BY DEF Timers
<1>2. Requests'
  BY <1>1, RequestsRest, Zenon
<1>3. timers \in [Timers -> {"none", "asleep", "stopping"}]
  BY Zenon DEF PathInv, PathTypes
<1>4. PathTypes'
  BY <1>1, <1>1a, <1>3, StopCallIs, Zenon DEF PathInv, PathTypes
<1>5. TasksAreLate'
  BY <1>1, RequestsRest, Zenon DEF PathInv, TasksAreLate
<1>6. ASSUME NEW w \in profiled' \ orphans' PROVE HasEnd(w)'
  <2>1. w \in profiled /\ w \notin orphans /\ w # t[2] /\ w \in Stages
    BY <1>1, <1>1a, <1>6, StopCallIs, Zenon DEF PathInv, PathTypes
  <2>2. HasEnd(w)
    BY <2>1, EndsBefore, Zenon
  <2>3. ASSUME NEW s \in PdRequests, timers[<<s, w>>] = "asleep" PROVE timers'[<<s, w>>] = "asleep"
    <3>1. <<s, w>> # t
      BY <2>1
    <3>2. <<s, w>> \in Timers
      BY <2>1, Zenon DEF Timers
    <3> QED BY <1>1, <1>3, <2>3, <3>1, <3>2, Zenon
  <2> QED BY <1>1, <2>2, <2>3, RequestsRest, Zenon DEF HasEnd
<1> QED BY <1>2, <1>4, <1>5, <1>6, PathParts, Zenon

(* The task leaves the map.                                                  *)
LEMMA UnlistStep == ASSUME PathInv, NEW t \in Timers, Unlist(t) PROVE PathInv'
<1>1. /\ timers[t] = "stopping" /\ timers' = [timers EXCEPT ![t] = "none"]
      /\ tasks' = [tasks EXCEPT ![t[2]] = NoTimer]
      /\ UNCHANGED <<scene, pd, pdLoad, profiled, tasksLock, nixl, engine, orphans>>
  BY Zenon DEF Unlist
<1>2. Requests'
  BY <1>1, RequestsRest, Zenon
<1>3. /\ timers \in [Timers -> {"none", "asleep", "stopping"}]
      /\ tasks \in [Stages -> Timers \cup {NoTimer}]
  BY Zenon DEF PathInv, PathTypes
<1>4. /\ timers' \in [Timers -> {"none", "asleep", "stopping"}]
      /\ tasks' \in [Stages -> Timers \cup {NoTimer}]
      /\ \A w \in Stages : tasks'[w] \in {tasks[w], NoTimer}
  BY <1>1, <1>3, Zenon
<1>5. PathTypes'
  BY <1>1, <1>4, Zenon DEF PathInv, PathTypes
<1>6. TasksAreLate'
  <2>1. SUFFICES ASSUME NEW w \in Stages, tasks'[w] # NoTimer
                 PROVE  \E s \in PdRequests : tasks'[w] = <<s, w>> /\ ~Unstarted(pd[s], w)'
    BY Zenon DEF TasksAreLate
  <2>2. tasks'[w] = tasks[w]
    BY <1>4, <2>1, Zenon
  <2>3. PICK s \in PdRequests : tasks[w] = <<s, w>> /\ ~Unstarted(pd[s], w)
    BY <2>1, <2>2, Zenon DEF PathInv, TasksAreLate
  <2> QED BY <1>1, <2>2, <2>3, RequestsRest, Zenon
<1>7. ASSUME NEW w \in profiled' \ orphans' PROVE HasEnd(w)'
  <2>1. w \in profiled /\ w \notin orphans /\ w \in Stages
    BY <1>1, <1>7, Zenon DEF PathInv, PathTypes
  <2>2. HasEnd(w)
    BY <2>1, EndsBefore, Zenon
  <2>3. ASSUME NEW s \in PdRequests, timers[<<s, w>>] = "asleep" PROVE timers'[<<s, w>>] = "asleep"
    <3>1. <<s, w>> # t
      BY <1>1, <2>3, Zenon
    <3>2. <<s, w>> \in Timers
      BY <2>1, Zenon DEF Timers
    <3> QED BY <1>1, <1>3, <2>3, <3>1, <3>2, Zenon
  <2> QED BY <1>1, <2>2, <2>3, RequestsRest, Zenon DEF HasEnd
<1> QED BY <1>2, <1>5, <1>6, <1>7, PathParts, Zenon

(* The cached identity and the engine behind it are the business of nobody   *)
(* who is under way.                                                         *)
LEMMA EngineStep ==
  ASSUME PathInv, UNCHANGED <<scene, pd, pdLoad, profileVars>>,
         nixl' \in 0 .. MaxEngines, engine' \in 1 .. MaxEngines
  PROVE  PathInv'
<1>1. UNCHANGED <<profiled, tasks, timers, tasksLock, orphans>>
  BY Zenon DEF profileVars
<1>2. Requests'
  BY RequestsRest, Zenon
<1>3. PathTypes'
  BY <1>1, Zenon DEF PathInv, PathTypes
<1>4. TasksAreLate'
  BY <1>1, RequestsRest, Zenon DEF PathInv, TasksAreLate
<1>5. ASSUME NEW w \in profiled' \ orphans' PROVE HasEnd(w)'
  <2>1. HasEnd(w)
    BY <1>1, <1>5, EndsBefore, Zenon
  <2> QED BY <1>1, <2>1, RequestsRest, Zenon DEF HasEnd
<1> QED BY <1>2, <1>3, <1>4, <1>5, PathParts, Zenon

-----------------------------------------------------------------------------
(* The request path as a whole                                               *)

(* The router starts.                                                        *)
LEMMA PathStarts == ASSUME PdInit PROVE PathInv
<1>1. /\ scene \in Scene /\ pd = [r \in PdRequests |-> NewPd] /\ pdLoad = [w \in Stages |-> 0]
      /\ profiled = {} /\ tasks = [w \in Stages |-> NoTimer] /\ timers = [t \in Timers |-> "none"]
      /\ tasksLock = "free" /\ nixl = 0 /\ engine = 1 /\ orphans = {}
  BY PdAssumption, Zenon DEF PdInit
<1>2. 0 \in 0 .. MaxEngines /\ 1 \in 1 .. MaxEngines
  BY PdAssumption
<1>3. PathTypes
  BY <1>1, <1>2, Zenon DEF PathTypes
<1>4. "enter" \in MainOps
  BY Zenon DEF MainOps
<1>5. PICK t : t = Do("enter") /\ Program(t) /\ Goal(t) = "enter" /\ \A w : ~Pends(t, w)
  BY <1>4, DoProgram, Zenon
<1>6. t \in Seq(PdSteps) /\ t # <<>>
  BY <1>5, ProgramIsLong, Zenon
<1>7. PICK o : o = [todo |-> t, held |-> {}, together |-> FALSE, kv |-> "none", by |-> 0,
                    params |-> "none", decoding |-> FALSE, prefilled |-> FALSE,
                    armed |-> {}, given |-> {}, cancelled |-> {}]
  BY Zenon
<1>8. o = NewPd
  BY <1>5, <1>7, Zenon DEF NewPd, Do
<1>9. Reads(o, t, {}, FALSE, "none", FALSE, {}, {}, {})
  BY <1>2, <1>6, <1>7, Zenon DEF Reads, PdState
<1>10. {} # Stages
  BY DEF Stages
<1>11. Phased(o)
  BY <1>9, <1>10, Zenon DEF Phased, Reads
<1>12. Early(o)
  BY <1>5, <1>9, Zenon DEF Early, Reads
<1>13. Registers(t)
  BY <1>5, Zenon DEF Registers
<1>14. Local(o)
  BY <1>5, <1>6, <1>9, <1>11, <1>12, <1>13, Zenon DEF Local, Reads
<1>15. pd \in [PdRequests -> PdState] /\ \A r \in PdRequests : Local(pd[r])
  BY <1>1, <1>8, <1>9, <1>14, Zenon DEF Reads
<1>16. \A w : Holders(w) = {}
  <2>1. \A r \in PdRequests : pd[r].held = {}
    BY <1>1, <1>8, <1>9, Zenon DEF Reads
  <2> QED BY <2>1, Zenon DEF Holders
<1>17. Cardinality({}) = 0
  BY FS_EmptySet, Zenon
<1>18. pdLoad = [w \in Stages |-> Cardinality(Holders(w))]
  BY <1>1, <1>16, <1>17, Zenon
<1>19. TasksAreLate
  BY <1>1, Zenon DEF TasksAreLate
<1>20. ProfileHasAnEnd
  BY <1>1, Zenon DEF ProfileHasAnEnd
<1> QED BY <1>3, <1>15, <1>18, <1>19, <1>20, Zenon DEF PathInv

(* Every step of a handler keeps the invariant.                              *)
LEMMA HandlerKeeps == ASSUME PathInv, NEW r \in PdRequests, HandlerStep(r) PROVE PathInv'
<1>1. {"enter", "body", "end"} \subseteq MainOps
  BY Zenon DEF MainOps
<1>2. CASE NoPair(r)
  BY <1>1, <1>2, OverStep, Zenon DEF NoPair
<1>3. CASE Body(r)
  BY <1>1, <1>3, OverStep, Zenon DEF Body
<1>4. CASE EndPd(r)
  BY <1>1, <1>4, OverStep, Zenon DEF EndPd
<1>5. CASE Enter(r) \/ Encode(r)
  BY <1>5, EnterStep, EncodeStep, Zenon
<1>6. CASE Prefill(r) \/ PrefillDiscovered(r) \/ Read(r)
  BY <1>6, PrefillStep, PrefillDiscoveredStep, ReadStep, Zenon
<1>7. CASE Params(r) \/ ParamsDiscovered(r)
  BY <1>7, ParamsStep, ParamsDiscoveredStep, Zenon
<1>8. CASE Decode(r) \/ DecodeDiscovered(r)
  BY <1>8, DecodeStep, Zenon
<1>9. CASE Join(r) \/ JoinDiscovered(r)
  BY <1>9, JoinStep, Zenon
<1>10. CASE Settle(r) \/ SettleDiscovered(r)
  BY <1>10, SettleStep, SettleDiscoveredStep, Zenon
<1>11. CASE DeliverInTurn(r) \/ Deliver(r)
  BY <1>11, DeliverStep, Zenon
<1>12. CASE Post(r) \/ Spawn(r) \/ Insert(r) \/ Abort(r) \/ Unpost(r)
  BY <1>12, PostStep, SpawnStep, InsertStep, AbortStep, UnpostStep, Zenon
<1> QED
  BY <1>2, <1>3, <1>4, <1>5, <1>6, <1>7, <1>8, <1>9, <1>10, <1>11, <1>12, Zenon DEF HandlerStep

(* Every step of the router keeps the invariant.                             *)
LEMMA PathGoesOn == ASSUME PathInv, [PdNext]_pdVars PROVE PathInv'
<1>1. CASE \E r \in PdRequests : HandlerStep(r) \/ DropPd(r)
  BY <1>1, HandlerKeeps, DropStep, Zenon
<1>2. CASE \E t \in Timers : TimerStep(t)
  BY <1>2, TimeoutStep, UnlistStep, Zenon DEF TimerStep
<1>3. nixl \in 0 .. MaxEngines /\ engine \in 1 .. MaxEngines
  BY Zenon DEF PathInv, PathTypes
<1>4. CASE Evict
  <2>1. nixl' = 0 /\ engine' = engine /\ UNCHANGED <<scene, pd, pdLoad, profileVars>>
    BY <1>4, Zenon DEF Evict
  <2>2. 0 \in 0 .. MaxEngines
    BY PdAssumption
  <2> QED BY <1>3, <2>1, <2>2, EngineStep, Zenon
<1>5. CASE Restart
  <2>1. /\ engine < MaxEngines /\ engine' = engine + 1 /\ nixl' = nixl
        /\ UNCHANGED <<scene, pd, pdLoad, profileVars>>
    BY <1>5, Zenon DEF Restart
  <2>2. engine + 1 \in 1 .. MaxEngines
    BY <1>3, <2>1, PdAssumption
  <2> QED BY <1>3, <2>1, <2>2, EngineStep, Zenon
<1>6. CASE UNCHANGED pdVars
  <2>1. UNCHANGED <<scene, pd, pdLoad, profileVars, nixl, engine>>
    BY <1>6, Zenon DEF pdVars, profileVars
  <2> QED BY <1>3, <2>1, EngineStep, Zenon
<1> QED BY <1>1, <1>2, <1>4, <1>5, <1>6, Zenon DEF PdNext

(* What the invariant says about requests.                                   *)
LEMMA PathIsSound ==
  ASSUME PathInv
  PROVE  PdTypeOK /\ LoadsFollowThePhase /\ TransfersEndOnce /\ ProfileHasAnEnd
         /\ ConcurrentDecodeIsFed
<1>1. pdLoad \in [Stages -> 0 .. Cardinality(PdRequests)]
  <2>1. ASSUME NEW w \in Stages PROVE Cardinality(Holders(w)) \in 0 .. Cardinality(PdRequests)
    <3>1. Holders(w) \subseteq PdRequests
      BY Zenon DEF Holders
    <3>2. /\ IsFiniteSet(Holders(w)) /\ Cardinality(Holders(w)) <= Cardinality(PdRequests)
      BY <3>1, PdAssumption, FS_Subset, Zenon
    <3>3. Cardinality(Holders(w)) \in Nat /\ Cardinality(PdRequests) \in Nat
      BY <3>2, PdAssumption, FS_CardinalityType, Zenon
    <3> QED BY <3>2, <3>3
  <2> QED BY <2>1, Zenon DEF PathInv
<1>2. PdTypeOK
  BY <1>1, Zenon DEF PathInv, PathTypes, PdTypeOK
<1>3. \A r \in PdRequests : Phased(pd[r]) /\ (Ended(r) => Closed(pd[r]))
  BY Zenon DEF PathInv, Local, Ended
<1>4. \A w \in Stages : pdLoad[w] = Cardinality({r \in PdRequests : w \in pd[r].held})
  BY Zenon DEF PathInv, Holders
<1>5. LoadsFollowThePhase
  BY <1>3, <1>4, Zenon DEF LoadsFollowThePhase, Phased, Closed
<1>6. TransfersEndOnce
  BY <1>3, Zenon DEF TransfersEndOnce, Closed
<1>7. ConcurrentDecodeIsFed
  BY <1>3, Zenon DEF ConcurrentDecodeIsFed, Phased
<1> QED BY <1>2, <1>5, <1>6, <1>7, Zenon DEF PathInv

-----------------------------------------------------------------------------
(* The servers                                                               *)

PdCall ==
  [op : {"idle", "size", "register", "remove", "drop"}, url : PdUrls \cup {NoUrl},
   type : PdTypes \cup {NoType}, todo : SUBSET PdUrls]

Adding == {"size", "register"}
AtWork == {"size", "register", "remove", "drop"}

(* A call works on the URLs of its host.                                     *)
OnItsHost(k) ==
  /\ k.op # "idle" => k.url \in PdUrls /\ \A u \in k.todo : u[1] = k.url[1]
  /\ k.op \in Adding => k.type \in PdTypes

(* Where no calls overlapped, the index has every worker under its type and  *)
(* nowhere else, and what an addition has left to register is not served.    *)
IndexIsExact == \A u \in PdUrls : u[1] \notin mixed => \A t \in PdTypes : u \in byType[t] <=> served[u] = t

AddsAreNew ==
  \A c \in PdCalls : calls[c].op = "register" /\ calls[c].url[1] \notin mixed =>
    \A u \in calls[c].todo : served[u] = NoType

AddsAreAlone ==
  \A c, d \in PdCalls :
    c # d /\ calls[c].op \in Adding /\ calls[d].op \in AtWork /\ calls[c].url[1] = calls[d].url[1]
    => calls[c].url[1] \in mixed

ServersInv ==
  /\ served \in [PdUrls -> PdTypes \cup {NoType}] /\ byType \in [PdTypes -> SUBSET PdUrls]
  /\ calls \in [PdCalls -> PdCall] /\ \A c \in PdCalls : OnItsHost(calls[c])
  /\ IndexIsExact /\ AddsAreNew /\ AddsAreAlone

(* NoType is no type.                                                        *)
LEMMA TypesAre == NoType \notin PdTypes /\ "decode" \in PdTypes /\ "decode" # NoType
BY DEF NoType, PdTypes

(* The workers of a server are URLs of its host.                             *)
LEMMA BuildIs ==
  ASSUME NEW u \in PdUrls, NEW n \in 1 .. MaxRanks
  PROVE  BuildDpWorkers(u, n) \in SUBSET PdUrls /\ \A v \in BuildDpWorkers(u, n) : v[1] = u[1]
<1>1. u[1] \in PdHosts
  BY DEF PdUrls
<1>2. ASSUME NEW v \in {u[1]} \X (0 .. n - 1) PROVE v \in PdUrls /\ v[1] = u[1]
  <2>1. v = <<v[1], v[2]>> /\ v[1] = u[1] /\ v[2] \in 0 .. n - 1
    OBVIOUS
  <2>2. v[2] \in 0 .. MaxRanks
    BY <2>1, RanksAssumption
  <2>3. <<v[1], v[2]>> \in PdUrls
    BY <1>1, <2>1, <2>2, Zenon DEF PdUrls
  <2> QED BY <2>1, <2>3, Zenon
<1> QED BY <1>2, Zenon DEF BuildDpWorkers

(* A call moves on.                                                          *)
LEMMA NoCallIs ==
  /\ NoPdCall \in PdCall /\ NoPdCall.op = "idle" /\ NoPdCall.todo = {} /\ OnItsHost(NoPdCall)
BY Zenon DEF NoPdCall, PdCall, OnItsHost, Adding

(* The invariant's parts about calls, of a step of the call c alone.         *)
LEMMA CallMoves ==
  ASSUME ServersInv, NEW c \in PdCalls, NEW k \in PdCall, CallIs(c, k), OnItsHost(k)
  PROVE  /\ calls' \in [PdCalls -> PdCall] /\ \A d \in PdCalls : OnItsHost(calls[d])'
         /\ calls'[c] = k /\ \A d \in PdCalls : d # c => calls'[d] = calls[d]
<1>1. calls \in [PdCalls -> PdCall] /\ calls' = [calls EXCEPT ![c] = k]
  BY Zenon DEF ServersInv, CallIs
<1>2. calls' \in [PdCalls -> PdCall] /\ calls'[c] = k /\ \A d \in PdCalls : d # c => calls'[d] = calls[d]
  BY <1>1, Zenon
<1>3. ASSUME NEW d \in PdCalls PROVE OnItsHost(calls[d])'
  <2>1. OnItsHost(calls'[d])
    BY <1>2, Zenon DEF ServersInv
  <2> QED BY <2>1, Zenon DEF OnItsHost
<1> QED BY <1>2, <1>3, Zenon

(* Additions stay alone: a call that comes to work is either noticed, or was *)
(* as much at work before.                                                   *)
LEMMA AloneKept ==
  ASSUME ServersInv, NEW c \in PdCalls, NEW k, mixed \subseteq mixed',
         calls'[c] = k, \A d \in PdCalls : d # c => calls'[d] = calls[d],
         k.op \in Adding => \A d \in PdCalls : d # c /\ calls[d].op \in AtWork
                              /\ calls[d].url[1] = k.url[1] => k.url[1] \in mixed',
         k.op \in AtWork => \A d \in PdCalls : d # c /\ calls[d].op \in Adding
                              /\ calls[d].url[1] = k.url[1] => k.url[1] \in mixed'
  PROVE  AddsAreAlone'
<1>1. SUFFICES ASSUME NEW a \in PdCalls, NEW b \in PdCalls, a # b, calls'[a].op \in Adding,
                      calls'[b].op \in AtWork, calls'[a].url[1] = calls'[b].url[1]
               PROVE  calls'[a].url[1] \in mixed'
  BY Zenon DEF AddsAreAlone
<1>2. CASE a = c
  BY <1>1, <1>2, Zenon
<1>3. CASE b = c
  BY <1>1, <1>3, Zenon
<1>4. CASE a # c /\ b # c
  BY <1>1, <1>4, Zenon DEF ServersInv, AddsAreAlone
<1> QED BY <1>2, <1>3, <1>4, Zenon

(* The same call, a step further: it was as much at work before.             *)
LEMMA AloneAsBefore ==
  ASSUME ServersInv, NEW c \in PdCalls, NEW k, UNCHANGED mixed,
         calls'[c] = k, \A d \in PdCalls : d # c => calls'[d] = calls[d],
         k.op = "idle" \/ (k.url = calls[c].url /\ k.op \in AtWork /\ calls[c].op \in AtWork
                           /\ (k.op \in Adding => calls[c].op \in Adding))
  PROVE  AddsAreAlone'
<1>1. "idle" \notin Adding /\ "idle" \notin AtWork
  BY Zenon DEF Adding, AtWork
<1>2. CASE k.op = "idle"
  BY <1>1, <1>2, AloneKept, Zenon
<1>3. CASE k.op # "idle"
  <2>1. k.url = calls[c].url /\ calls[c].op \in AtWork /\ (k.op \in Adding => calls[c].op \in Adding)
    BY <1>3, Zenon
  <2>2. k.op \in Adding => \A d \in PdCalls : d # c /\ calls[d].op \in AtWork
                              /\ calls[d].url[1] = k.url[1] => k.url[1] \in mixed'
    BY <2>1, Zenon DEF ServersInv, AddsAreAlone
  <2>3. k.op \in AtWork => \A d \in PdCalls : d # c /\ calls[d].op \in Adding
                              /\ calls[d].url[1] = k.url[1] => k.url[1] \in mixed'
    BY <2>1, Zenon DEF ServersInv, AddsAreAlone
  <2> QED BY <2>2, <2>3, AloneKept, Zenon
<1> QED BY <1>2, <1>3, Zenon

(* A call that changes no worker.                                            *)
LEMMA CallStep ==
  ASSUME ServersInv, NEW c \in PdCalls, NEW k \in PdCall, CallIs(c, k), OnItsHost(k),
         UNCHANGED <<served, byType>>, mixed \subseteq mixed', AddsAreAlone',
         k.op = "register" => \A u \in k.todo : served[u] = NoType
  PROVE  ServersInv'
<1>1. /\ calls' \in [PdCalls -> PdCall] /\ \A d \in PdCalls : OnItsHost(calls[d])'
      /\ calls'[c] = k /\ \A d \in PdCalls : d # c => calls'[d] = calls[d]
  BY CallMoves, Zenon
<1>2. IndexIsExact'
  BY Zenon DEF ServersInv, IndexIsExact
<1>3. ASSUME NEW d \in PdCalls, calls'[d].op = "register", calls'[d].url[1] \notin mixed',
             NEW u \in calls'[d].todo
      PROVE  served'[u] = NoType
  <2>1. CASE d = c
    BY <1>1, <1>3, <2>1, Zenon
  <2>2. CASE d # c
    BY <1>1, <1>3, <2>2, Zenon DEF ServersInv, AddsAreNew
  <2> QED BY <2>1, <2>2, Zenon
<1>4. AddsAreNew'
  BY <1>3, Zenon DEF AddsAreNew
<1> QED BY <1>1, <1>2, <1>4, Zenon DEF ServersInv

(* An addition begins; who is at work on the host is noticed.                *)
LEMMA AddServerStep == ASSUME ServersInv, NEW c \in PdCalls, AddServer(c) PROVE ServersInv'
<1>1. PICK u \in PdUrls, t \in PdTypes :
        /\ CallIs(c, [NoPdCall EXCEPT !.op = "size", !.url = u, !.type = t])
        /\ mixed' = (IF Others(c, u[1], {"size", "register", "remove", "drop"})
                     THEN mixed \cup {u[1]} ELSE mixed)
  BY Zenon DEF AddServer
<1>2. UNCHANGED <<served, byType>>
  BY Zenon DEF AddServer
<1>3. PICK k : k = [NoPdCall EXCEPT !.op = "size", !.url = u, !.type = t]
  BY Zenon
<1>4. k \in PdCall /\ k.op = "size" /\ k.url = u /\ k.type = t /\ k.todo = {}
  BY <1>3, NoCallIs, Zenon DEF PdCall
<1>5. CallIs(c, k)
  BY <1>1, <1>3, Zenon
<1>6. OnItsHost(k)
  BY <1>4, Zenon DEF OnItsHost
<1>7. calls'[c] = k /\ \A d \in PdCalls : d # c => calls'[d] = calls[d]
  BY <1>4, <1>5, <1>6, CallMoves, Zenon
<1>8. mixed \subseteq mixed'
  BY <1>1, Zenon
<1>9. ASSUME NEW d \in PdCalls, d # c, calls[d].op \in AtWork, calls[d].url[1] = k.url[1]
      PROVE  k.url[1] \in mixed'
  <2>1. Others(c, u[1], {"size", "register", "remove", "drop"})
    BY <1>4, <1>9, Zenon DEF Others, AtWork
  <2> QED BY <1>1, <1>4, <2>1, Zenon
<1>10. Adding \subseteq AtWork
  BY Zenon DEF Adding, AtWork
<1>11. AddsAreAlone'
  <2>1. \A d \in PdCalls : d # c /\ calls[d].op \in AtWork /\ calls[d].url[1] = k.url[1]
                          => k.url[1] \in mixed'
    BY <1>9, Zenon
  <2>2. \A d \in PdCalls : d # c /\ calls[d].op \in Adding /\ calls[d].url[1] = k.url[1]
                          => k.url[1] \in mixed'
    BY <1>10, <2>1, Zenon
  <2> QED BY <1>7, <1>8, <2>1, <2>2, AloneKept, Zenon
<1> QED BY <1>2, <1>4, <1>5, <1>6, <1>8, <1>11, CallStep, Zenon

(* An addition knows its ranks, none of which is served.                     *)
LEMMA SizedStep == ASSUME ServersInv, NEW c \in PdCalls, Sized(c) PROVE ServersInv'
<1>1. PICK n \in 1 .. MaxRanks :
        CallIs(c, IF Taken(BuildDpWorkers(calls[c].url, n)) THEN NoPdCall
                  ELSE [calls[c] EXCEPT !.op = "register", !.todo = BuildDpWorkers(calls[c].url, n)])
  BY Zenon DEF Sized
<1>2. calls[c].op = "size" /\ UNCHANGED <<served, byType, mixed>>
  BY Zenon DEF Sized
<1>3. PICK o : o = calls[c] /\ o \in PdCall /\ OnItsHost(o)
  BY Zenon DEF ServersInv
<1>4. o.url \in PdUrls /\ o.type \in PdTypes
  BY <1>2, <1>3, Zenon DEF OnItsHost, Adding
<1>5. PICK new : /\ new = BuildDpWorkers(o.url, n) /\ new \in SUBSET PdUrls
                 /\ \A v \in new : v[1] = o.url[1]
  BY <1>4, BuildIs, Zenon
<1>6. CASE Taken(new)
  <2>1. CallIs(c, NoPdCall)
    BY <1>1, <1>3, <1>5, <1>6, Zenon
  <2>2. calls'[c] = NoPdCall /\ \A d \in PdCalls : d # c => calls'[d] = calls[d]
    BY <2>1, CallMoves, NoCallIs, Zenon
  <2>3. AddsAreAlone'
    BY <1>2, <2>2, NoCallIs, AloneAsBefore, Zenon
  <2> QED BY <1>2, <2>1, <2>3, NoCallIs, CallStep, Zenon
<1>7. CASE ~Taken(new)
  <2>1. PICK k : k = [o EXCEPT !.op = "register", !.todo = new]
    BY Zenon
  <2>2. k \in PdCall /\ k.op = "register" /\ k.url = o.url /\ k.type = o.type /\ k.todo = new
    BY <1>3, <1>5, <2>1, Zenon DEF PdCall
  <2>3. CallIs(c, k)
    BY <1>1, <1>3, <1>5, <1>7, <2>1, Zenon
  <2>4. OnItsHost(k)
    BY <1>4, <1>5, <2>2, Zenon DEF OnItsHost
  <2>5. calls'[c] = k /\ \A d \in PdCalls : d # c => calls'[d] = calls[d]
    BY <2>2, <2>3, <2>4, CallMoves, Zenon
  <2>6. AddsAreAlone'
    BY <1>2, <1>3, <2>2, <2>5, AloneAsBefore, Zenon DEF Adding, AtWork
  <2>7. \A u \in k.todo : served[u] = NoType
    BY <1>7, <2>2, Zenon DEF Taken
  <2> QED BY <1>2, <2>2, <2>3, <2>4, <2>6, <2>7, CallStep, Zenon
<1> QED BY <1>6, <1>7, Zenon

(* A call that has nothing left to do is over.                               *)
LEMMA FinishedIs ==
  ASSUME NEW k \in PdCall, OnItsHost(k)
  PROVE  /\ Finished(k) \in PdCall /\ OnItsHost(Finished(k))
         /\ Finished(k).op = "idle" \/ Finished(k) = k
         /\ k.todo = {} => Finished(k).op = "idle"
BY NoCallIs, Zenon DEF Finished

(* A removal begins, of either kind.                                         *)
LEMMA RemovalBegins ==
  ASSUME ServersInv, NEW c \in PdCalls, NEW u \in PdUrls, NEW gone \in SUBSET PdUrls,
         NEW op \in {"remove", "drop"}, \A v \in gone : v[1] = u[1],
         CallIs(c, Finished([NoPdCall EXCEPT !.op = op, !.url = u, !.todo = gone])),
         mixed' = IF gone # {} /\ Others(c, u[1], {"size", "register"})
                  THEN mixed \cup {u[1]} ELSE mixed,
         UNCHANGED <<served, byType>>
  PROVE  ServersInv'
<1>1. PICK k : k = [NoPdCall EXCEPT !.op = op, !.url = u, !.todo = gone]
  BY Zenon
<1>2. k \in PdCall /\ k.op = op /\ k.url = u /\ k.todo = gone
  BY <1>1, NoCallIs, Zenon DEF PdCall
<1>3. op \notin Adding /\ op # "register" /\ op # "idle" /\ "idle" \notin AtWork /\ "idle" \notin Adding
  BY Zenon DEF Adding, AtWork
<1>4. OnItsHost(k)
  BY <1>2, <1>3, Zenon DEF OnItsHost
<1>5. PICK f : f = Finished(k)
  BY Zenon
<1>6. CallIs(c, f)
  BY <1>1, <1>5, Zenon
<1>7. f \in PdCall /\ OnItsHost(f) /\ (f.op = "idle" \/ f = k) /\ (gone = {} => f.op = "idle")
  BY <1>2, <1>4, <1>5, FinishedIs, Zenon
<1>8. calls'[c] = f /\ \A d \in PdCalls : d # c => calls'[d] = calls[d]
  BY <1>6, <1>7, CallMoves, Zenon
<1>9. mixed \subseteq mixed'
  BY Zenon
<1>10. f.op \notin Adding /\ f.op # "register"
  BY <1>2, <1>3, <1>7, Zenon
<1>11. ASSUME f.op \in AtWork, NEW d \in PdCalls, d # c, calls[d].op \in Adding,
              calls[d].url[1] = f.url[1]
       PROVE  f.url[1] \in mixed'
  <2>1. f = k /\ gone # {}
    BY <1>3, <1>7, <1>11, Zenon
  <2>2. Others(c, u[1], {"size", "register"})
    BY <1>2, <1>11, <2>1, Zenon DEF Others, Adding
  <2> QED BY <1>2, <2>1, <2>2, Zenon
<1>12. AddsAreAlone'
  BY <1>8, <1>9, <1>10, <1>11, AloneKept, Zenon
<1> QED BY <1>6, <1>7, <1>9, <1>10, <1>12, CallStep, Zenon

(* remove_prefill_server or remove_decode_server begins.                     *)
LEMMA RemoveServerStep == ASSUME ServersInv, NEW c \in PdCalls, RemoveServer(c) PROVE ServersInv'
<1> DEFINE Gone(u) == IF u[2] = Bare /\ served[u] = NoType THEN Expanded(u[1])
                      ELSE {u} \cap {v \in PdUrls : served[v] # NoType}
<1>1. PICK u \in PdUrls :
        /\ CallIs(c, Finished([NoPdCall EXCEPT !.op = "remove", !.url = u, !.todo = Gone(u)]))
        /\ mixed' = (IF Gone(u) # {} /\ Others(c, u[1], {"size", "register"})
                     THEN mixed \cup {u[1]} ELSE mixed)
  BY Zenon DEF RemoveServer
<1>2. PICK gone : gone = Gone(u)
  BY Zenon
<1>3. gone \in SUBSET PdUrls /\ \A v \in gone : v[1] = u[1]
  BY <1>2, Zenon DEF Expanded
<1>4. UNCHANGED <<served, byType>>
  BY Zenon DEF RemoveServer
<1> HIDE DEF Gone
<1> QED BY <1>1, <1>2, <1>3, <1>4, RemovalBegins, Zenon

(* remove_worker begins.                                                     *)
LEMMA RemoveWorkerStep == ASSUME ServersInv, NEW c \in PdCalls, RemoveWorker(c) PROVE ServersInv'
<1>1. PICK u \in PdUrls :
        /\ CallIs(c, [NoPdCall EXCEPT !.op = "drop", !.url = u, !.todo = {u}])
        /\ mixed' = (IF Others(c, u[1], {"size", "register"}) THEN mixed \cup {u[1]} ELSE mixed)
  BY Zenon DEF RemoveWorker
<1>2. PICK gone : gone = {u}
  BY Zenon
<1>3. gone \in SUBSET PdUrls /\ gone # {} /\ \A v \in gone : v[1] = u[1]
  BY <1>2, Zenon
<1>4. PICK k : k = [NoPdCall EXCEPT !.op = "drop", !.url = u, !.todo = gone]
  BY Zenon
<1>5. k.todo = gone
  BY <1>4 DEF NoPdCall
<1>6. Finished(k) = k
  BY <1>3, <1>5, Zenon DEF Finished
<1>7. CallIs(c, Finished([NoPdCall EXCEPT !.op = "drop", !.url = u, !.todo = gone]))
  BY <1>1, <1>2, <1>4, <1>6, Zenon
<1>8. UNCHANGED <<served, byType>>
  BY Zenon DEF RemoveWorker
<1> QED BY <1>1, <1>3, <1>7, <1>8, RemovalBegins, Zenon

(* What a call has left shrinks, or the call is over.                        *)
LEMMA OneLess ==
  ASSUME ServersInv, NEW c \in PdCalls, calls[c].op \in {"register", "remove", "drop"}, NEW u,
         CallIs(c, Finished([calls[c] EXCEPT !.todo = @ \ {u}])), UNCHANGED mixed
  PROVE  /\ calls' \in [PdCalls -> PdCall] /\ \A d \in PdCalls : OnItsHost(calls[d])'
         /\ \A d \in PdCalls : d # c => calls'[d] = calls[d]
         /\ calls'[c].op # "idle" => /\ calls'[c].op = calls[c].op /\ calls'[c].url = calls[c].url
                                     /\ calls'[c].todo = calls[c].todo \ {u}
         /\ AddsAreAlone'
<1>1. PICK o : o = calls[c] /\ o \in PdCall /\ OnItsHost(o)
  BY Zenon DEF ServersInv
<1>2. PICK k : k = [o EXCEPT !.todo = @ \ {u}]
  BY Zenon
<1>3. k \in PdCall /\ k.op = o.op /\ k.url = o.url /\ k.type = o.type /\ k.todo = o.todo \ {u}
  BY <1>1, <1>2, Zenon DEF PdCall
<1>4. OnItsHost(k)
  BY <1>1, <1>3, Zenon DEF OnItsHost
<1>5. PICK f : f = Finished(k)
  BY Zenon
<1>6. f \in PdCall /\ OnItsHost(f) /\ (f.op = "idle" \/ f = k)
  BY <1>3, <1>4, <1>5, FinishedIs, Zenon
<1>7. CallIs(c, f)
  BY <1>1, <1>2, <1>5, Zenon
<1>8. /\ calls' \in [PdCalls -> PdCall] /\ \A d \in PdCalls : OnItsHost(calls[d])'
      /\ calls'[c] = f /\ \A d \in PdCalls : d # c => calls'[d] = calls[d]
  BY <1>6, <1>7, CallMoves, Zenon
<1>9. o.op \in AtWork
  BY <1>1, Zenon DEF AtWork
<1>10. f.op = "idle" \/ (f.url = calls[c].url /\ f.op \in AtWork /\ calls[c].op \in AtWork
                         /\ (f.op \in Adding => calls[c].op \in Adding))
  BY <1>1, <1>3, <1>6, <1>9, Zenon
<1>11. AddsAreAlone'
  BY <1>8, <1>10, AloneAsBefore, Zenon
<1> QED BY <1>1, <1>3, <1>6, <1>8, <1>11, Zenon

(* A rank is registered: it was under no type, and no other addition works   *)
(* on its host unless the host is mixed.                                     *)
LEMMA RegisterStep == ASSUME ServersInv, NEW c \in PdCalls, RegisterAndNotify(c) PROVE ServersInv'
<1>1. PICK u \in calls[c].todo :
        /\ served' = Register(served, u, calls[c].type)
        /\ byType' = Indexed(byType, u, calls[c].type)
        /\ CallIs(c, Finished([calls[c] EXCEPT !.todo = @ \ {u}]))
  BY Zenon DEF RegisterAndNotify
<1>2. calls[c].op = "register" /\ UNCHANGED mixed
  BY Zenon DEF RegisterAndNotify
<1>3. calls[c] \in PdCall /\ OnItsHost(calls[c]) /\ calls[c].op \in Adding /\ calls[c].op # "idle"
  BY <1>2, Zenon DEF ServersInv, Adding
<1>4. calls[c].todo \in SUBSET PdUrls
  BY <1>3, Zenon DEF PdCall
<1>5. PICK t \in PdTypes : t = calls[c].type
  BY <1>3, Zenon DEF OnItsHost
<1>6. u \in PdUrls /\ u[1] = calls[c].url[1]
  BY <1>3, <1>4, Zenon DEF OnItsHost
<1>7. served \in [PdUrls -> PdTypes \cup {NoType}] /\ byType \in [PdTypes -> SUBSET PdUrls]
  BY Zenon DEF ServersInv
<1>8. served' = [served EXCEPT ![u] = t] /\ byType' = [byType EXCEPT ![t] = byType[t] \cup {u}]
  BY <1>1, <1>5, Zenon DEF Register, Indexed
<1>9. served' \in [PdUrls -> PdTypes \cup {NoType}] /\ byType' \in [PdTypes -> SUBSET PdUrls]
  BY <1>6, <1>7, <1>8, Zenon
<1>10. /\ calls' \in [PdCalls -> PdCall] /\ \A d \in PdCalls : OnItsHost(calls[d])'
       /\ \A d \in PdCalls : d # c => calls'[d] = calls[d]
       /\ calls'[c].op # "idle" => /\ calls'[c].op = calls[c].op /\ calls'[c].url = calls[c].url
                                   /\ calls'[c].todo = calls[c].todo \ {u}
       /\ AddsAreAlone'
  BY <1>1, <1>2, OneLess, Zenon
<1>11. IndexIsExact'
  <2>1. SUFFICES ASSUME NEW v \in PdUrls, v[1] \notin mixed, NEW x \in PdTypes
                 PROVE  v \in byType'[x] <=> served'[v] = x
    BY <1>2, Zenon DEF IndexIsExact
  <2>2. v \in byType[x] <=> served[v] = x
    BY <2>1, Zenon DEF ServersInv, IndexIsExact
  <2>3. CASE v = u
    <3>1. served[u] = NoType
      BY <1>2, <1>6, <2>1, <2>3, Zenon DEF ServersInv, AddsAreNew
    <3>2. v \notin byType[x]
      BY <2>2, <2>3, <3>1, TypesAre, Zenon
    <3> QED BY <1>6, <1>7, <1>8, <2>3, <3>2, Zenon
  <2>4. CASE v # u
    BY <1>7, <1>8, <2>2, <2>4, Zenon
  <2> QED BY <2>3, <2>4, Zenon
<1>12. ASSUME NEW d \in PdCalls, calls'[d].op = "register", calls'[d].url[1] \notin mixed',
              NEW v \in calls'[d].todo
       PROVE  served'[v] = NoType
  <2>1. CASE d = c
    <3>1. v \in calls[c].todo /\ v # u /\ calls[c].url[1] \notin mixed
      BY <1>2, <1>10, <1>12, <2>1, Zenon
    <3>2. served[v] = NoType
      BY <1>2, <3>1, Zenon DEF ServersInv, AddsAreNew
    <3> QED BY <1>4, <1>7, <1>8, <3>1, <3>2, Zenon
  <2>2. CASE d # c
    <3>1. calls[d] = calls'[d]
      BY <1>10, <2>2, Zenon
    <3>2. calls[d] \in PdCall /\ OnItsHost(calls[d]) /\ served[v] = NoType
      BY <1>2, <1>12, <3>1, Zenon DEF ServersInv, AddsAreNew
    <3>3. v \in PdUrls /\ v[1] = calls[d].url[1]
      BY <1>12, <3>1, <3>2, Zenon DEF PdCall, OnItsHost
    <3>4. v # u
      BY <1>2, <1>3, <1>6, <1>12, <2>2, <3>1, <3>3, Zenon DEF ServersInv, AddsAreAlone, AtWork
    <3> QED BY <1>7, <1>8, <3>2, <3>3, <3>4, Zenon
  <2> QED BY <2>1, <2>2, Zenon
<1>13. AddsAreNew'
  BY <1>12, Zenon DEF AddsAreNew
<1> QED BY <1>9, <1>10, <1>11, <1>13, Zenon DEF ServersInv

(* A rank is removed, from the index of its own type.                        *)
LEMMA RemoveStep == ASSUME ServersInv, NEW c \in PdCalls, RemoveByUrl(c) PROVE ServersInv'
<1>1. PICK u \in calls[c].todo :
        /\ served' = Register(served, u, NoType)
        /\ byType' = (IF served[u] # NoType THEN Unindexed(byType, u, served[u]) ELSE byType)
        /\ CallIs(c, Finished([calls[c] EXCEPT !.todo = @ \ {u}]))
  BY Zenon DEF RemoveByUrl
<1>2. calls[c].op \in {"remove", "drop"} /\ UNCHANGED mixed
  BY Zenon DEF RemoveByUrl
<1>3. /\ calls[c] \in PdCall /\ OnItsHost(calls[c]) /\ calls[c].op \in AtWork
      /\ calls[c].op # "idle" /\ calls[c].op # "register"
  BY <1>2, Zenon DEF ServersInv, AtWork
<1>4. u \in PdUrls /\ u[1] = calls[c].url[1]
  BY <1>3, Zenon DEF OnItsHost, PdCall
<1>5. served \in [PdUrls -> PdTypes \cup {NoType}] /\ byType \in [PdTypes -> SUBSET PdUrls]
  BY Zenon DEF ServersInv
<1>6. served' = [served EXCEPT ![u] = NoType]
  BY <1>1, Zenon DEF Register
<1>7. /\ served[u] = NoType => byType' = byType
      /\ served[u] # NoType => byType' = [byType EXCEPT ![served[u]] = byType[served[u]] \ {u}]
  BY <1>1, Zenon DEF Unindexed
<1>8. served' \in [PdUrls -> PdTypes \cup {NoType}] /\ byType' \in [PdTypes -> SUBSET PdUrls]
  BY <1>4, <1>5, <1>6, <1>7, Zenon
<1>9. /\ calls' \in [PdCalls -> PdCall] /\ \A d \in PdCalls : OnItsHost(calls[d])'
      /\ \A d \in PdCalls : d # c => calls'[d] = calls[d]
      /\ calls'[c].op # "idle" => calls'[c].op = calls[c].op
      /\ AddsAreAlone'
  BY <1>1, <1>2, OneLess, Zenon
<1>10. IndexIsExact'
  <2>1. SUFFICES ASSUME NEW v \in PdUrls, v[1] \notin mixed, NEW x \in PdTypes
                 PROVE  v \in byType'[x] <=> served'[v] = x
    BY <1>2, Zenon DEF IndexIsExact
  <2>2. v \in byType[x] <=> served[v] = x
    BY <2>1, Zenon DEF ServersInv, IndexIsExact
  <2>3. CASE v = u
    <3>1. served'[v] # x
      BY <1>4, <1>5, <1>6, <2>3, TypesAre, Zenon
    <3>2. v \notin byType'[x]
      BY <1>5, <1>7, <2>2, <2>3, TypesAre, Zenon
    <3> QED BY <3>1, <3>2, Zenon
  <2>4. CASE v # u
    <3>1. served'[v] = served[v]
      BY <1>5, <1>6, <2>4, Zenon
    <3>2. v \in byType'[x] <=> v \in byType[x]
      BY <1>5, <1>7, <2>4, Zenon
    <3> QED BY <2>2, <3>1, <3>2, Zenon
  <2> QED BY <2>3, <2>4, Zenon
<1>11. ASSUME NEW d \in PdCalls, calls'[d].op = "register", calls'[d].url[1] \notin mixed',
              NEW v \in calls'[d].todo
       PROVE  served'[v] = NoType
  <2>1. d # c
    BY <1>3, <1>9, <1>11, Zenon
  <2>2. calls[d] = calls'[d]
    BY <1>9, <2>1, Zenon
  <2>3. calls[d] \in PdCall /\ OnItsHost(calls[d]) /\ served[v] = NoType
    BY <1>2, <1>11, <2>2, Zenon DEF ServersInv, AddsAreNew
  <2>4. v \in PdUrls
    BY <1>11, <2>2, <2>3, Zenon DEF PdCall
  <2> QED BY <1>5, <1>6, <2>3, <2>4, Zenon
<1>12. AddsAreNew'
  BY <1>11, Zenon DEF AddsAreNew
<1> QED BY <1>8, <1>9, <1>10, <1>12, Zenon DEF ServersInv

(* The configured servers.                                                   *)
LEMMA ServersStart == ASSUME PdServersInit PROVE ServersInv
<1>1. PICK h \in PdHosts, t \in PdTypes, n \in 1 .. MaxRanks :
        /\ served = [u \in PdUrls |-> IF u \in BuildDpWorkers(<<h, Bare>>, n) THEN t ELSE NoType]
        /\ byType = [x \in PdTypes |-> IF x = t THEN BuildDpWorkers(<<h, Bare>>, n) ELSE {}]
  BY Zenon DEF PdServersInit
<1>2. calls = [c \in PdCalls |-> NoPdCall] /\ mixed = {}
  BY Zenon DEF PdServersInit
<1>3. <<h, Bare>> \in PdUrls
  <2>1. MaxRanks \in 0 .. MaxRanks
    BY RanksAssumption
  <2> QED BY <2>1, Zenon DEF PdUrls, Bare
<1>4. PICK new : new = BuildDpWorkers(<<h, Bare>>, n) /\ new \in SUBSET PdUrls
  BY <1>3, BuildIs, Zenon
<1>5. /\ served = [u \in PdUrls |-> IF u \in new THEN t ELSE NoType]
      /\ byType = [x \in PdTypes |-> IF x = t THEN new ELSE {}]
  BY <1>1, <1>4, Zenon
<1>6. served \in [PdUrls -> PdTypes \cup {NoType}] /\ byType \in [PdTypes -> SUBSET PdUrls]
  BY <1>4, <1>5, Zenon
<1>7. IndexIsExact
  BY <1>5, TypesAre, Zenon DEF IndexIsExact
<1>8. \A c \in PdCalls : calls[c] = NoPdCall
  BY <1>2, Zenon
<1>9. calls \in [PdCalls -> PdCall] /\ \A c \in PdCalls : OnItsHost(calls[c])
  BY <1>2, <1>8, NoCallIs, Zenon
<1>10. AddsAreNew /\ AddsAreAlone
  BY <1>8, NoCallIs, Zenon DEF AddsAreNew, AddsAreAlone, Adding
<1> QED BY <1>6, <1>7, <1>9, <1>10, Zenon DEF ServersInv

(* Every step of a call keeps the invariant.                                 *)
LEMMA ServersGoOn == ASSUME ServersInv, [PdServersNext]_pdServerVars PROVE ServersInv'
<1>1. CASE UNCHANGED pdServerVars
  BY <1>1, Zenon DEF pdServerVars, ServersInv, OnItsHost, IndexIsExact, AddsAreNew, AddsAreAlone
<1>2. CASE PdServersNext
  BY <1>2, AddServerStep, SizedStep, RegisterStep, RemoveServerStep, RemoveWorkerStep, RemoveStep,
     Zenon DEF PdServersNext
<1> QED BY <1>1, <1>2, Zenon

(* A worker is looked up under its own role.                                 *)
LEMMA ServersAreSound == ASSUME ServersInv PROVE OneRolePerWorker
<1>1. SUFFICES ASSUME NEW u \in PdUrls, u[1] \notin mixed
               PROVE  /\ u \in DecodeWorkers <=> served[u] = "decode"
                      /\ u \in PrefillWorkers => u \notin DecodeWorkers
  BY Zenon DEF OneRolePerWorker
<1>2. u \in byType["decode"] <=> served[u] = "decode"
  BY <1>1, TypesAre, Zenon DEF ServersInv, IndexIsExact
<1>3. u \in DecodeWorkers <=> served[u] = "decode"
  BY <1>2, TypesAre, Zenon DEF DecodeWorkers, GetByType
<1> QED BY <1>3, Zenon DEF PrefillWorkers

-----------------------------------------------------------------------------

(* Every run of the prefill-decode router, with any number of requests,      *)
(* engines, hosts, ranks and API calls: a worker's load counts the guards of *)
(* the requests in that phase and none outlives its request, an EC transfer  *)
(* is handed to a prefill that succeeded or cancelled and never both, a      *)
(* worker that profiles has someone who will still ask it to stop unless a   *)
(* /stop_profile failed, the asking request was dropped inside its call or   *)
(* the task expired before it was registered, a concurrent decode has its    *)
(* parameters (vllm_pd_router.rs), and a worker has one role unless calls    *)
(* about its host overlapped (pd_router.rs).                                 *)
THEOREM PdStaysConsistent == PathSpec /\ ServersSpec => []PdIsConsistent
<1>1. PdInit => PathInv
  BY PathStarts
<1>2. PathInv /\ [PdNext]_pdVars => PathInv'
  BY PathGoesOn
<1>3. PdServersInit => ServersInv
  BY ServersStart
<1>4. ServersInv /\ [PdServersNext]_pdServerVars => ServersInv'
  BY ServersGoOn
<1>5. PathInv /\ ServersInv => PdIsConsistent
  BY PathIsSound, ServersAreSound, Zenon DEF PdIsConsistent
<1> QED BY <1>1, <1>2, <1>3, <1>4, <1>5, PTL DEF PathSpec, ServersSpec
=============================================================================
