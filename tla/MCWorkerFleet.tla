--------------------------- MODULE MCWorkerFleet ---------------------------
(* Instances of WorkerFleet for TLC.                                        *)
EXTENDS WorkerFleet

CONSTANTS h1, h2

Base == [manager |-> FALSE, dp |-> 1, hosts |-> {h1, h2}, seeds |-> {h1},
         ops |-> {1, 2}, probing |-> FALSE, requests |-> FALSE,
         reading |-> "none", allPool |-> FALSE]

(* Two calls while targets are cached or synced (over all models); a host   *)
(* of two ranks; the manager, whose calls choose a model; failing hosts     *)
(* alone, with a call, and with requests and readers.                       *)
Observed == [Base EXCEPT !.hosts = {h1}, !.ops = {}, !.probing = TRUE,
                         !.requests = TRUE]

MCConfigs ==
  {[Base EXCEPT !.reading = "cache", !.hosts = {h1}],
   [Base EXCEPT !.reading = "sync", !.hosts = {h1}, !.allPool = TRUE],
   [Base EXCEPT !.dp = 2],
   [Base EXCEPT !.manager = TRUE, !.hosts = {h1}, !.seeds = {}],
   [Base EXCEPT !.seeds = {h1, h2}, !.ops = {}, !.probing = TRUE],
   [Base EXCEPT !.ops = {1}, !.probing = TRUE],
   [Observed EXCEPT !.reading = "cache"],
   [Observed EXCEPT !.reading = "sync"]}
=============================================================================
