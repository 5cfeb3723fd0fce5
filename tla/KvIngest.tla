------------------------------ MODULE KvIngest ------------------------------
(***************************************************************************)
(* One KV-event source: the engine that publishes numbered batches on a    *)
(* lossy PUB socket and answers replay requests from a bounded buffer, the *)
(* subscriber task of kv_index/subscriber.rs, the part of KvBlockIndexer   *)
(* that hides a source (suspended_sources, source_generation), and a       *)
(* request that queries the index meanwhile.                               *)
(*                                                                         *)
(* A batch is one event.  What the tree holds for the source is the set    *)
(* index.held of observations; KvTree models the tree.  For the properties *)
(* only, sub.vouch is the engine state the subscriber answers for and      *)
(* sub.epochs the engine epochs it has applied since the last clear.       *)
(***************************************************************************)
EXTENDS Integers, Sequences, FiniteSets, FiniteSetsExt, Folds

CONSTANTS
  Blocks,         \* blocks of the worker's own cache
  PoolBlocks,     \* blocks it stores in a shared pool ("ownership")
  MaxEvents,      \* batches an engine publishes in its first epoch, and one less in each later one
  MaxFaults,      \* lost or damaged live messages
  ReplayDepth,    \* batches the replay buffer keeps (buffer_steps)
  Settings        \* [replay: an endpoint is configured, epochs, removal, query]

ASSUME IngestAssumption == ReplayDepth \in Nat

VARIABLES
  engine,    \* [logs: one event log per epoch, faults]
  wire,      \* live messages on their way: [epoch, seq, fate]
  sub,       \* the subscriber task
  index,     \* [held, hidden]
  request,   \* the querying request
  setting    \* which of Settings this behaviour has; never changes

ingestVars == <<engine, wire, sub, index, request, setting>>

AllBlocks == Blocks \cup PoolBlocks

Events == [kind : {"store", "remove"}, block : AllBlocks] \cup [kind : {"clear"}, block : {"all"}]

Epoch == Len(engine.logs)

(* The engine's cache after the first n batches of an epoch.                *)
Effect(cache, ev) ==
  CASE ev.kind = "store" -> cache \cup {ev.block}
    [] ev.kind = "remove" -> cache \ {ev.block}
    [] ev.kind = "clear" -> cache \cap PoolBlocks

CacheAfter(log) ==
  MapThenFoldSet(LAMBDA ev, cache : Effect(cache, ev), {}, LAMBDA i : log[i], Max, DOMAIN log)

CacheAt(epoch, n) == CacheAfter(SubSeq(engine.logs[epoch], 1, n))

IdleSub == [last |-> -1, incarnation |-> 0, suspended |-> FALSE, todo |-> <<>>,
            msg |-> [epoch |-> 0, seq |-> -1, fate |-> "ok"], high |-> -1,
            reply |-> [epoch |-> 0, upto |-> -1], vouch |-> [epoch |-> 1, n |-> 0],
            epochs |-> {}, stop |-> FALSE, ended |-> FALSE]

IdleRequest == [pc |-> "idle", stale |-> FALSE, found |-> {}, sound |-> TRUE]

IngestInit ==
  /\ engine = [logs |-> <<<<>>>>, faults |-> 0]
  /\ wire = <<>>
  /\ sub = IdleSub
  /\ index = [held |-> {}, hidden |-> FALSE]
  /\ request = IdleRequest
  /\ setting \in Settings

-----------------------------------------------------------------------------
(* The engine (external): it publishes in order; the live socket may lose   *)
(* or damage a message, and a restarted engine numbers from zero again.     *)

Enabled(ev) ==
  LET cache == CacheAt(Epoch, Len(engine.logs[Epoch]))
  IN CASE ev.kind = "store" -> ev.block \notin cache
       [] ev.kind = "remove" -> ev.block \in cache
       [] OTHER -> cache # {}

Publish ==
  /\ Len(engine.logs[Epoch]) < MaxEvents - (Epoch - 1)
  /\ \E ev \in Events, fate \in {"ok", "lost", "undecodable", "malformed"} :
       LET msg == [epoch |-> Epoch, seq |-> Len(engine.logs[Epoch]), fate |-> fate]
       IN /\ Enabled(ev)
          /\ fate # "ok" => engine.faults < MaxFaults
          /\ engine' = [logs |-> [engine.logs EXCEPT ![Epoch] = Append(@, ev)],
                        faults |-> IF fate = "ok" THEN engine.faults ELSE engine.faults + 1]
          /\ wire' = IF fate = "lost" THEN wire ELSE Append(wire, msg)
  /\ UNCHANGED <<sub, index, request, setting>>

EngineRestart ==
  /\ Epoch < setting.epochs
  /\ engine.logs[Epoch] # <<>>
  /\ engine' = [engine EXCEPT !.logs = Append(@, <<>>)]
  /\ UNCHANGED <<wire, sub, index, request, setting>>

-----------------------------------------------------------------------------
(* The subscriber.  todo holds the index operations still to do for the     *)
(* current message, each of them atomic for a query: hide and bump          *)
(* (suspend_source), clear (clear_source), replay, apply, bump and show     *)
(* (resume_source).                                                         *)

Suspend == <<"hide", "bump">>

Invalidate == Suspend \o <<"clear">>

Resume == <<"bump", "show">>

(* The live batch is applied, and a suspended source resumed.               *)
Live(msg, suspended) ==
  IF msg.fate = "undecodable" THEN <<>>
  ELSE <<"apply">> \o (IF suspended THEN Resume ELSE <<>>)

ExposePartial(msg) == Live(msg, TRUE)   \* mutant: an incomplete replay is not discarded

(* No replay endpoint, or an incomplete replay: credit only what follows.   *)
Discard(msg) == Invalidate \o Live(msg, TRUE)

(* last_seq != -1 && seq < last_seq: the publisher started over.            *)
Restarted(last, seq) == last # -1 /\ seq < last

(* A missing number, or a batch that is undecodable or of another rank.     *)
Gap(last, msg) == msg.seq > last + 1 \/ msg.fate = "undecodable"

AtLoop == sub.todo = <<>> /\ ~sub.ended

Receive ==
  /\ AtLoop /\ ~sub.stop /\ wire # <<>>
  /\ LET msg == Head(wire)
         reset == Restarted(sub.last, msg.seq)
         last == IF reset THEN -1 ELSE sub.last
         first == IF reset THEN Invalidate ELSE <<>>
         gap == Gap(last, msg)
     IN sub' =
          IF msg.fate = "malformed"
            THEN [sub EXCEPT !.todo = Invalidate, !.suspended = TRUE, !.msg = msg]
          ELSE IF msg.seq <= last THEN sub
          ELSE [sub EXCEPT
                  !.msg = msg, !.last = last,
                  !.incarnation = IF reset THEN @ + 1 ELSE @,
                  !.suspended = @ \/ reset \/ gap,
                  !.todo = first \o
                    (IF ~gap THEN Live(msg, sub.suspended \/ reset)
                     ELSE Suspend \o (IF setting.replay THEN <<"replay">> ELSE Discard(msg)))]
  /\ wire' = Tail(wire)
  /\ UNCHANGED <<engine, index, request, setting>>

Doing(op) == sub.todo # <<>> /\ Head(sub.todo) = op

Done == [sub EXCEPT !.todo = Tail(@)]

(* From here the hidden source answers for everything up to the message at  *)
(* hand.                                                                    *)
Hide ==
  /\ Doing("hide")
  /\ index' = [index EXCEPT !.hidden = TRUE]
  /\ sub' = IF sub.msg.fate = "malformed" THEN Done
            ELSE [Done EXCEPT !.vouch = [epoch |-> sub.msg.epoch, n |-> sub.msg.seq + 1]]
  /\ UNCHANGED <<engine, wire, request, setting>>

(* source_generation moves: a query that read it before is rejected.        *)
Bump ==
  /\ Doing("bump")
  /\ request' = [request EXCEPT !.stale = request.pc # "idle"]
  /\ sub' = Done
  /\ UNCHANGED <<engine, wire, index, setting>>

ClearSourceOp ==
  /\ Doing("clear")
  /\ index' = [index EXCEPT !.held = {}]
  /\ sub' = [Done EXCEPT !.epochs = {}]
  /\ UNCHANGED <<engine, wire, request, setting>>

Show ==
  /\ Doing("show")
  /\ index' = [index EXCEPT !.hidden = FALSE]
  /\ sub' = [Done EXCEPT !.suspended = FALSE]
  /\ UNCHANGED <<engine, wire, request, setting>>

(* apply_batch.  A worker's observation belongs to the incarnation; pool    *)
(* copies do not, and AllBlocksCleared leaves them.                         *)
Owner(block) == IF block \in PoolBlocks THEN -1 ELSE sub.incarnation

Applied(held, ev) ==
  LET own == [block |-> ev.block, owner |-> Owner(ev.block)]
  IN CASE ev.kind = "store" -> held \cup {own}
       [] ev.kind = "remove" -> held \ {own}
       [] ev.kind = "clear" -> {h \in held : h.block \in PoolBlocks}

ApplyLive ==
  /\ Doing("apply")
  /\ index' = [index EXCEPT !.held =
       Applied(@, engine.logs[sub.msg.epoch][sub.msg.seq + 1])]
  /\ sub' = [Done EXCEPT !.last = sub.msg.seq, !.epochs = @ \cup {sub.msg.epoch},
                         !.vouch = [epoch |-> sub.msg.epoch, n |-> sub.msg.seq + 1]]
  /\ UNCHANGED <<engine, wire, request, setting>>

-----------------------------------------------------------------------------
(* replay: ask for everything after last_seq; the running engine answers    *)
(* from its buffer.                                                         *)

ReplayAsk ==
  /\ Doing("replay") /\ sub.reply.epoch = 0
  /\ sub' = [sub EXCEPT !.high = sub.last,
                        !.reply = [epoch |-> Epoch, upto |-> Len(engine.logs[Epoch]) - 1]]
  /\ UNCHANGED <<engine, wire, index, request, setting>>

Oldest == IF sub.reply.upto >= ReplayDepth THEN sub.reply.upto - ReplayDepth + 1 ELSE 0

Replayed(high) == high >= sub.msg.seq

(* The next contiguous batch; the last one ends the replay.                 *)
ReplayFrame ==
  /\ Doing("replay") /\ sub.reply.epoch # 0
  /\ sub.high + 1 \in Oldest .. sub.reply.upto
  /\ LET seq == sub.high + 1
     IN /\ index' = [index EXCEPT !.held =
             Applied(@, engine.logs[sub.reply.epoch][seq + 1])]
        /\ sub' = IF Replayed(seq)
                    THEN [sub EXCEPT !.last = seq, !.todo = Resume, !.high = -1,
                                     !.vouch = [epoch |-> sub.reply.epoch, n |-> sub.msg.seq + 1],
                                     !.epochs = @ \cup {sub.reply.epoch},
                                     !.reply = IdleSub.reply]
                    ELSE [sub EXCEPT !.high = seq, !.epochs = @ \cup {sub.reply.epoch}]
  /\ UNCHANGED <<engine, wire, request, setting>>

(* The deadline, the end marker, a hole at the start of the buffer, a       *)
(* damaged reply, or a socket error, at any point.                          *)
ReplayFail ==
  /\ Doing("replay")
  /\ sub' = [sub EXCEPT !.todo = Discard(sub.msg), !.high = -1, !.reply = IdleSub.reply]
  /\ UNCHANGED <<engine, wire, index, request, setting>>

-----------------------------------------------------------------------------
(* on_worker_removed: signal the task and clear the worker's own blocks; the *)
(* task sees the signal the next time it is at the top of its loop.          *)

RemoveWorker ==
  /\ setting.removal /\ ~sub.stop
  /\ sub' = [sub EXCEPT !.stop = TRUE]
  /\ index' = [index EXCEPT !.held = {h \in @ : h.block \in PoolBlocks}]
  /\ UNCHANGED <<engine, wire, request, setting>>

Shutdown ==
  /\ AtLoop /\ sub.stop
  /\ sub' = [sub EXCEPT !.ended = TRUE]
  /\ UNCHANGED <<engine, wire, index, request, setting>>

-----------------------------------------------------------------------------
(* KvBlockIndexer::find_matches                                             *)

Credited == {h.block : h \in index.held}

SoundNow ==
  Cardinality(sub.epochs) <= 1 => Credited \subseteq CacheAt(sub.vouch.epoch, sub.vouch.n)

QueryGeneration ==
  /\ setting.query /\ request.pc = "idle"
  /\ request' = [IdleRequest EXCEPT !.pc = "match"]
  /\ UNCHANGED <<engine, wire, sub, index, setting>>

QueryMatch ==
  /\ request.pc = "match"
  /\ request' = [request EXCEPT !.pc = "filter", !.found = Credited, !.sound = SoundNow]
  /\ UNCHANGED <<engine, wire, sub, index, setting>>

QueryFilter ==
  /\ request.pc = "filter"
  /\ request' = [request EXCEPT !.pc = "check", !.found = IF index.hidden THEN {} ELSE @]
  /\ UNCHANGED <<engine, wire, sub, index, setting>>

AnswerOf(r) == IF r.stale THEN {} ELSE r.found

QueryReturn ==
  /\ request.pc = "check"
  /\ request' = [IdleRequest EXCEPT !.pc = "done", !.found = AnswerOf(request),
                                    !.sound = request.sound]
  /\ UNCHANGED <<engine, wire, sub, index, setting>>

SubscriberStep ==
  \/ Receive \/ Hide \/ Bump \/ ClearSourceOp \/ Show \/ ApplyLive
  \/ ReplayAsk \/ ReplayFrame \/ ReplayFail \/ Shutdown

RequestStep == QueryGeneration \/ QueryMatch \/ QueryFilter \/ QueryReturn

IngestNext == Publish \/ EngineRestart \/ SubscriberStep \/ RemoveWorker \/ RequestStep

IngestSpec == IngestInit /\ [][IngestNext]_ingestVars

-----------------------------------------------------------------------------
(* Properties                                                               *)

(* Whatever live messages are lost, damaged or repeated, and however far a  *)
(* replay got, a source that is not suspended credits only blocks the       *)
(* engine still held after the last batch the subscriber applied; absence   *)
(* is the only error (subscriber.rs: "Never expose that partial state").    *)
(* Excepted: batches of two engine epochs applied without a clear between   *)
(* them, since a restart whose first message is not numbered below last_seq *)
(* cannot be told from a gap or from the next batch.                        *)
VisibleCreditIsCurrent == ~index.hidden => SoundNow

(* A request gets no match that was collected while the source was          *)
(* suspended: the second read of source_generation rejects a query that     *)
(* crosses a suspension or a resumption, whichever of its three steps the   *)
(* subscriber interleaves.                                                  *)
AnswersAreCurrent == request.pc = "done" /\ request.found # {} => request.sound

(* Between messages the shared suspension mirrors the task's own flag, and  *)
(* a source stays suspended only while the last fresh message was damaged:  *)
(* one valid live batch is enough to resume it.                             *)
SuspendedOnlyByDamage ==
  sub.todo = <<>> => /\ index.hidden = sub.suspended
                     /\ index.hidden => sub.msg.fate # "ok"

(* Every live message is handled to its end: no replay waits forever.       *)
MessagesAreHandled == <>[](sub.ended \/ (wire = <<>> /\ sub.todo = <<>>))

(* spawn_subscriber and the query: nothing stale is credited or answered, *)
(* and nothing but damage suspends a source.                              *)
IngestIsCurrent ==
  /\ VisibleCreditIsCurrent
  /\ AnswersAreCurrent
  /\ SuspendedOnlyByDamage
=============================================================================
