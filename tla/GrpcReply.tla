----------------------------- MODULE GrpcReply ------------------------------
(***************************************************************************)
(* One GenerateStream answered as OpenAI chunks or as one response         *)
(* (backend/grpc.rs, backend/openai.rs): the worker's messages, the        *)
(* incremental detokenizer and the frames of the client's body.            *)
(*                                                                         *)
(* Generated tokens are numbered; a text is the sequence of the tokens     *)
(* whose characters it holds.  The detokenizer keeps tokens back until     *)
(* their bytes are whole characters.                                       *)
(***************************************************************************)
EXTENDS Naturals, Sequences, SequencesExt

CONSTANTS
  MaxMessages,   \* messages of the engine
  Wants          \* the replies asked for

VARIABLES
  want,      \* the reply asked for; never changes
  produced,  \* what the engine generated: tokens, messages, ended
  reply      \* the state of the adapter; for the properties, what a flush lost: unsaid

replyVars == <<want, produced, reply>>

NoEngine == [tokens |-> 0, kept |-> <<>>, messages |-> 0, ended |-> FALSE]

NewReply == [held |-> <<>>, frames |-> <<>>, latch |-> 0, text |-> <<>>, first |-> TRUE,
             logged |-> FALSE, finish |-> FALSE, seen |-> FALSE, unsaid |-> <<>>,
             state |-> "open", gone |-> FALSE]

ReplyInit == want \in Wants /\ produced = NoEngine /\ reply = NewReply

(* A message: outputs or none; the new tokens, the worker's own text, and   *)
(* whether finish_info names a reason.                                      *)
Messages ==
  {m \in [outputs : BOOLEAN, tokens : 0 .. 1, whole : BOOLEAN, finish : BOOLEAN] :
     ~m.outputs => m.tokens = 0 /\ m.whole /\ ~m.finish}

NewTokens(m) == [i \in 1 .. m.tokens |-> produced.tokens + i]

(* A worker asked for text keeps incomplete characters itself and sends     *)
(* them at the latest with finish_info; otherwise it sends none.            *)
WorkerText(m) ==
  IF want.worker /\ m.outputs /\ (m.whole \/ m.finish) THEN produced.kept \o NewTokens(m) ELSE <<>>

WorkerKept(m) ==
  IF WorkerText(m) # <<>> \/ ~want.worker THEN <<>> ELSE produced.kept \o NewTokens(m)

(* emit_detok: what push_token and next_chunk return.                       *)
Decoded(m) == IF m.tokens > 0 /\ m.whole THEN reply.held \o NewTokens(m) ELSE <<>>

HeldAfter(m) == IF m.tokens = 0 THEN reply.held
                ELSE IF m.whole THEN <<>> ELSE reply.held \o NewTokens(m)

Flushed(m) == IF m.finish THEN Decoded(m) \o HeldAfter(m) ELSE Decoded(m)

(* output_text_and_finish: without token ids the text is the worker's, and  *)
(* what the flush returned is dropped.                                      *)
OutputText(m) ==
  IF ~m.outputs THEN <<>>
  ELSE IF want.worker \/ m.tokens = 0 THEN WorkerText(m)
  ELSE Flushed(m)

HasGeneratedOutput(m) == m.outputs /\ (m.tokens > 0 \/ OutputText(m) # <<>>)

Chunk(kind, text, role) == [kind |-> kind, text |-> text, role |-> role]

Send(r, f, generated) ==
  [r EXCEPT !.frames = Append(@, f),
            !.latch = IF generated /\ @ = 0 THEN Len(r.frames) + 1 ELSE @]

LogStages(r, m) ==
  IF r.logged \/ OutputText(m) = <<>> THEN r
  ELSE [IF want.stages THEN Send(r, Chunk("stages", <<>>, FALSE), FALSE) ELSE r EXCEPT !.logged = TRUE]

SendDelta(r, m) ==
  IF OutputText(m) # <<>> \/ m.finish \/ r.first
  THEN [Send(r, Chunk(IF m.finish THEN "last" ELSE "delta", OutputText(m), r.first),
             HasGeneratedOutput(m)) EXCEPT !.first = FALSE]
  ELSE r

DoneThenUsage(r) ==   \* mutant: the usage chunk follows [DONE]
  LET done == Send(r, Chunk("done", <<>>, FALSE), FALSE)
  IN [IF want.usage THEN Send(done, Chunk("usage", <<>>, FALSE), FALSE) ELSE done EXCEPT !.state = "done"]

FinishReply(r) ==
  LET usage == IF want.usage THEN Send(r, Chunk("usage", <<>>, FALSE), FALSE) ELSE r
  IN [Send(usage, Chunk("done", <<>>, FALSE), FALSE) EXCEPT !.state = "done"]

Fail(r) == [Send(r, Chunk("error", <<>>, FALSE), FALSE) EXCEPT !.state = "failed"]

(* The detokenizer after the message.                                       *)
Received(r, m) ==
  IF want.worker \/ ~m.outputs THEN r
  ELSE [r EXCEPT !.held = IF m.finish THEN <<>> ELSE HeldAfter(m),
                 !.unsaid = IF m.finish /\ m.tokens = 0 THEN reply.held ELSE @]

(* stream_openai: one message.  A body that was dropped ends the loop at    *)
(* the first chunk that cannot be sent.                                     *)
Streamed(r, m) ==
  LET sent == SendDelta(LogStages(Received(r, m), m), m)
  IN IF r.gone /\ sent.frames # r.frames THEN [r EXCEPT !.state = "dropped"]
     ELSE IF m.finish THEN FinishReply(sent) ELSE sent

(* collect_openai: one message; it reads on after finish_info.              *)
Collected(r, m) ==
  [Received(r, m) EXCEPT !.text = @ \o OutputText(m), !.finish = @ \/ m.finish,
                         !.seen = @ \/ HasGeneratedOutput(m)]

Message(m) ==
  /\ reply.state = "open" /\ ~produced.ended /\ produced.messages < MaxMessages
  /\ produced' = [produced EXCEPT !.tokens = @ + m.tokens, !.kept = WorkerKept(m), !.messages = @ + 1,
                              !.ended = m.finish]
  /\ reply' = IF want.stream THEN Streamed(reply, m) ELSE Collected(reply, m)
  /\ UNCHANGED want

(* A gRPC error, the timeout of one message or a detokenizer error.         *)
Broken ==
  /\ reply.state = "open"
  /\ reply' = IF ~want.stream THEN [reply EXCEPT !.state = "failed"]
              ELSE IF reply.gone THEN [reply EXCEPT !.state = "dropped"] ELSE Fail(reply)
  /\ UNCHANGED <<want, produced>>

(* The engine closes the stream.                                            *)
Closed ==
  /\ reply.state = "open"
  /\ reply' = IF want.stream
              THEN IF reply.gone THEN [reply EXCEPT !.state = "dropped"] ELSE Fail(reply)
              ELSE [reply EXCEPT !.state = IF reply.finish THEN "done" ELSE "failed"]
  /\ produced' = [produced EXCEPT !.ended = TRUE]
  /\ UNCHANGED want

DropBody ==
  /\ want.stream /\ ~reply.gone
  /\ reply' = [reply EXCEPT !.gone = TRUE]
  /\ UNCHANGED <<want, produced>>

ReplyNext == (\E m \in Messages : Message(m)) \/ Broken \/ Closed \/ DropBody

-----------------------------------------------------------------------------
Delivered == FlattenSeq([i \in 1 .. Len(reply.frames) |-> reply.frames[i].text]) \o reply.text

AllTokens == [i \in 1 .. produced.tokens |-> i]

(* What the client has read of the text is the worker's tokens in their     *)
(* order, none twice and none left out between, whichever text is used and  *)
(* however tokens are buffered; a reply that ends well has them all, but    *)
(* for those the detokenizer held when finish_info came without token ids.  *)
TextIsWhole ==
  /\ IsPrefix(Delivered, AllTokens)
  /\ reply.state = "done" /\ ~reply.gone => Delivered \o reply.unsaid = AllTokens

(* "Always flush on terminal output so buffered UTF-8/special-token state   *)
(* cannot be silently dropped": a reply that ends well has all the text.    *)
FlushIsDelivered == reply.state = "done" /\ ~reply.gone => Delivered = AllTokens

(* A stream has one terminal frame, its last: an error, or [DONE] directly  *)
(* after the usage chunk if one was asked for and after the frame with the  *)
(* finish reason.  The role is announced by the first chunk alone.          *)
StreamIsWellFormed ==
  LET f == reply.frames
      kinds(K) == {i \in DOMAIN f : f[i].kind \in K}
      before == IF want.usage THEN <<"last", "usage", "done">> ELSE <<"last", "done">>
  IN /\ kinds({"done", "error"}) \subseteq {Len(f)}
     /\ reply.state = "done" /\ want.stream =>
          SubSeq([i \in DOMAIN f |-> f[i].kind], Len(f) - Len(before) + 1, Len(f)) = before
     /\ \A i, j \in kinds({"delta", "last"}) : i < j => ~f[j].role

(* No frame with model output is read before the frame the latch names: the *)
(* KV slot cannot still be prefilling when the client sees text.            *)
TextFollowsTheLatch ==
  \A i \in DOMAIN reply.frames : reply.frames[i].text # <<>> => reply.latch # 0 /\ reply.latch <= i

(* A reply made from a worker's stream is all the text it was sent, but   *)
(* for what one flush loses, in order, framed and ended once, and the KV  *)
(* slot leaves prefill with its first output.                             *)
ReplyIsWellFormed ==
  /\ TextIsWhole
  /\ StreamIsWellFormed
  /\ TextFollowsTheLatch
=============================================================================
