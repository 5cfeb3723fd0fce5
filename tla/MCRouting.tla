----------------------------- MODULE MCRouting ------------------------------
(***************************************************************************)
(* The routing data path for TLC: the KV index (its tree, the event        *)
(* ingestion, the supervisor, the load slots), the request path of the     *)
(* HTTP router, a gRPC reply, the encoding cache of the chat frontend and  *)
(* the API key verdicts.  They share no state within one step, so one run  *)
(* explores them side by side, each from its own initial states with the   *)
(* others at rest.                                                         *)
(***************************************************************************)
EXTENDS KvTree, KvIngest, KvWorkers, RequestPath, GrpcReply, EncodeCache

VARIABLE part     \* which component moves

kvVars == <<treeVars, ingestVars, supVars, slotVars>>
otherVars == <<replyVars, encVars, keyVars>>
vars == <<part, kvVars, pathVars, otherVars>>

-----------------------------------------------------------------------------
(* Tree: two engines and a shared pool; ab and ab2 are two engine hashes of *)
(* one block.                                                               *)

OwnerTier(d, s) == [domain |-> d, source |-> s, tier |-> "Device"]
KA == OwnerTier("Worker", "A")
KB == OwnerTier("Worker", "B")
PA == OwnerTier("CacheOwner", "A")

MCKeys == {KA, KB, PA}
MCLocals == {"a", "b", "c"}
MCPathOf == [a |-> <<"a">>, ab |-> <<"a", "b">>, ab2 |-> <<"a", "b">>,
             abc |-> <<"a", "b", "c">>, abb |-> <<"a", "b", "b">>, ac |-> <<"a", "c">>]
MCSeqs == DOMAIN MCPathOf

Store(k, p, b) == [op |-> "store", key |-> k, parent |-> p, blocks |-> b]
Drop(k, s) == [op |-> "remove", key |-> k, seqs |-> s]
Clear(s) == [op |-> "clear", source |-> s]
ClearSource(s) == [op |-> "clear_source", source |-> s]
Query(h) == [op |-> "query", hashes |-> h]

MCScripts == {
  \* two stores that split one another's edges, an interior parent
  [t1 |-> <<Store(KA, NoSeq, <<"a", "ab", "abc">>), Drop(KA, {"ab"})>>,
   t2 |-> <<Store(KB, NoSeq, <<"a", "ab2", "abb">>), Store(KB, "a", <<"ac">>)>>,
   t3 |-> <<Query(<<"a", "b", "c">>)>>],
  \* one owner stored, cleared and stored again by two tasks, two aliases, and
  \* a query that leaves an edge in its middle
  [t1 |-> <<Store(KA, NoSeq, <<"a", "ab", "abc">>), Store(KA, "a", <<"ab2">>), Drop(KA, {"ab"})>>,
   t2 |-> <<Clear("A"), Store(KB, "ab", <<"abb">>)>>,
   t3 |-> <<Query(<<"a", "c">>)>>],
  \* pool copies, and the invalidation of a source while it stores
  [t1 |-> <<Store(KA, NoSeq, <<"a", "ab">>), Store(PA, "ab", <<"abc">>), Store(KB, "a", <<"ac">>)>>,
   t2 |-> <<Store(KA, NoSeq, <<"a", "ac">>), ClearSource("A")>>,
   t3 |-> <<Query(<<"a", "b", "c">>)>>]}

-----------------------------------------------------------------------------
(* Ingestion: with a query, without a replay endpoint, with an engine       *)
(* restart, with the removal of the worker.                                 *)

Setting(r, e, d, q) == [replay |-> r, epochs |-> e, removal |-> d, query |-> q]

MCSettings == {Setting(TRUE, 1, FALSE, TRUE), Setting(FALSE, 1, FALSE, FALSE),
               Setting(TRUE, 2, FALSE, FALSE), Setting(TRUE, 1, TRUE, FALSE)}

-----------------------------------------------------------------------------
(* Supervisor: one task per URL, and two tasks on one URL.                  *)

Manage(o, u) == [op |-> o, url |-> u]

MCPlans == {
  [c1 |-> <<Manage("add", "u1"), Manage("remove", "u1"), Manage("add", "u1")>>,
   c2 |-> <<Manage("add", "u2"), Manage("add", "u2"), Manage("remove", "u2")>>],
  [c1 |-> <<Manage("add", "u1"), Manage("remove", "u1")>>,
   c2 |-> <<Manage("add", "u1"), Manage("remove", "u2")>>]}

MCTokens == [r1 |-> 2, r2 |-> 3]

-----------------------------------------------------------------------------
(* Requests: two that share the workers, in the pairs of kinds that share a *)
(* release path; and one gRPC stream on its own.                            *)

Kind(p, g, s, t, o) == [path |-> p, grpc |-> g, stream |-> s, tracked |-> t, program |-> o]

HttpStream == Kind("typed", FALSE, TRUE, FALSE, TRUE)
HttpPlain == Kind("typed", FALSE, FALSE, TRUE, FALSE)
GrpcStream == Kind("typed", TRUE, TRUE, TRUE, TRUE)
GrpcPlain == Kind("typed", TRUE, FALSE, TRUE, FALSE)
MessagesStream == Kind("messages", FALSE, TRUE, TRUE, TRUE)
MessagesPlain == Kind("messages", FALSE, FALSE, TRUE, TRUE)
Forwarded == Kind("proxy", FALSE, FALSE, FALSE, FALSE)
Proxied == Kind("proxy", FALSE, TRUE, FALSE, TRUE)

Pair(a, b) == [r1 |-> a, r2 |-> b]

MCScenes == {Pair(HttpStream, HttpPlain), Pair(GrpcStream, GrpcPlain),
             Pair(MessagesStream, MessagesPlain), Pair(Proxied, HttpPlain), Pair(Forwarded, Proxied)}

Want(s, w, u, g) == [stream |-> s, worker |-> w, usage |-> u, stages |-> g]

MCWants == {Want(TRUE, FALSE, TRUE, TRUE), Want(TRUE, TRUE, FALSE, FALSE), Want(FALSE, FALSE, FALSE, FALSE),
            Want(FALSE, TRUE, FALSE, FALSE)}

-----------------------------------------------------------------------------
(* Encodings: two callers share a frontend, a third has its own; two texts  *)
(* fit the budget together, the long one fits alone, the huge one never.    *)

MCFrontOf == [e1 |-> "f1", e2 |-> "f1", e3 |-> "f2"]
MCTextBytes == [s |-> 1, t |-> 2, long |-> 3, huge |-> 4]

Texts3(a, b, c) == [e1 |-> a, e2 |-> b, e3 |-> c]

MCEncPlans == {
  \* one text twice at once, then one that pushes it out
  Texts3(<<<<"m1", "s">>, <<"m1", "long">>>>, <<<<"m1", "s">>, <<"m1", "t">>>>, <<<<"m1", "s">>>>),
  \* two models and the entry limit
  Texts3(<<<<"m1", "s">>, <<"m2", "s">>>>, <<<<"m2", "s">>, <<"m1", "s">>>>, <<>>),
  Texts3(<<<<"m1", "s">>, <<"m1", "t">>, <<"m2", "s">>>>, <<<<"m2", "s">>>>, <<>>),
  \* an oversized text
  Texts3(<<<<"m1", "huge">>, <<"m1", "t">>>>, <<<<"m1", "huge">>>>, <<>>)}

-----------------------------------------------------------------------------
(* The parts that do not move start from one of their initial states.       *)
MCInit ==
  /\ part \in {"tree", "ingest", "supervisor", "slots", "path", "reply", "encode", "keys"}
  /\ TreeInit /\ IngestInit /\ SupInit /\ SlotInit /\ PathInit /\ ReplyInit /\ EncInit /\ KeyInit
  /\ part # "tree" => Len(threads["t2"].calls) = 2 /\ Len(threads["t1"].calls) = 2
  /\ part # "ingest" => ~setting.replay
  /\ part # "supervisor" => Len(tasks["c1"].calls) = 2
  /\ part # "path" => ask = Pair(HttpStream, HttpPlain) /\ up = Backends
  /\ part # "reply" => want = Want(FALSE, FALSE, FALSE, FALSE)
  /\ part # "keys" => accepts = <<>>
  /\ part # "encode" => Len(enc["e1"].todo) = 3

Step(p) == part = p /\ UNCHANGED part
OfKv == UNCHANGED <<pathVars, otherVars>>
OfTree == Step("tree") /\ OfKv /\ UNCHANGED <<ingestVars, supVars, slotVars>>
OfIngest == Step("ingest") /\ OfKv /\ UNCHANGED <<treeVars, supVars, slotVars>>
OfPath == Step("path") /\ UNCHANGED <<kvVars, otherVars>>

MCNext ==
  \/ OfTree /\ TreeNext
  \/ OfIngest /\ IngestNext
  \/ Step("supervisor") /\ OfKv /\ SupNext /\ UNCHANGED <<treeVars, ingestVars, slotVars>>
  \/ Step("slots") /\ OfKv /\ SlotNext /\ UNCHANGED <<treeVars, ingestVars, supVars>>
  \/ OfPath /\ PathNext
  \/ Step("reply") /\ ReplyNext /\ UNCHANGED <<kvVars, pathVars, encVars, keyVars>>
  \/ Step("encode") /\ EncNext /\ UNCHANGED <<kvVars, pathVars, replyVars, keyVars>>
  \/ Step("keys") /\ KeyNext /\ UNCHANGED <<kvVars, pathVars, replyVars, encVars>>

MCSpec ==
  /\ MCInit /\ [][MCNext]_vars
  /\ \A t \in Threads : WF_vars(OfTree /\ TreeStep(t))
  /\ WF_vars(OfIngest /\ SubscriberStep)
  /\ \A r \in Requests : WF_vars(OfPath /\ AttemptStep(r))

(* The gRPC reply alone.                                                     *)
ReplySpec == MCInit /\ part = "reply" /\ [][MCNext]_vars

(* GroupShard: every store, remove, clear and query returns, whatever locks *)
(* of the tree the others hold; no two of them wait for each other.         *)
TreeEnds == part = "tree" => TreeCallsEnd

(* spawn_subscriber: every live message is handled to its end, also when    *)
(* the engine's replay buffer no longer holds what is missing.              *)
IngestEnds == part = "ingest" => MessagesAreHandled

(* Calls of the index, messages of the engines and requests come to their *)
(* end.                                                                   *)
RoutingCallsEnd == TreeEnds /\ IngestEnds /\ RequestsAreAnswered
=============================================================================
