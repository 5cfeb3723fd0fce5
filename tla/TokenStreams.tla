---------------------------- MODULE TokenStreams ----------------------------
(***************************************************************************)
(* Incremental decoding, tokenizer/stream.rs, sequence.rs and stop.rs: the *)
(* text of a growing sequence of tokens, piece by piece, against the text  *)
(* the tokenizer gives the whole sequence at once.                         *)
(*                                                                         *)
(* A text is a sequence of characters, a character known by its length in  *)
(* bytes: "a", "b", " " and "e" are one byte, the accented one is two and  *)
(* the replacement character three.  Tokens "H" and "L" are the two bytes  *)
(* of the accented character, "w" is a word with its leading space, "S" a  *)
(* special token.  The tokenizer is external: it skips special tokens when *)
(* it is told to, drops the space at the very beginning and replaces       *)
(* broken characters.                                                      *)
(***************************************************************************)
EXTENDS Integers, SequencesExt, Call

Accented == "accented"
Broken == "replacement"
Bytes(c) == CASE c = Accented -> 2 [] c = Broken -> 3 [] OTHER -> 1
ByteLen(text) == FoldLeft(LAMBDA n, c : n + Bytes(c), 0, text)

Spelling(token) ==
  CASE token = "w" -> <<" ", "a">> [] token = "ab" -> <<"a", "b">> [] token = "S" -> <<"special">>
    [] token = "H" -> <<"half">> [] token = "L" -> <<Broken>> [] OTHER -> <<token>>

Spelled(text, token) ==
  IF token = "L" /\ text # <<>> /\ Last(text) = "half" THEN Append(Front(text), Accented)
  ELSE text \o Spelling(token)

(* Tokenizer::decode, with and without skip_special_tokens.                 *)
DecodeAll(tokens) ==
  LET raw == FoldLeft(Spelled, <<>>, tokens)
      trimmed == IF raw # <<>> /\ Head(raw) = " " THEN Tail(raw) ELSE raw
  IN [i \in DOMAIN trimmed |-> IF trimmed[i] = "half" THEN Broken ELSE trimmed[i]]

Decode(tokens) == DecodeAll(SelectSeq(tokens, LAMBDA token : token # "S"))

Incomplete(text) == text # <<>> /\ Last(text) = Broken

(* The characters of text after its first n bytes, which end a character.   *)
After(text, n) ==
  LET k == CHOOSE k \in 0 .. Len(text) : ByteLen(SubSeq(text, 1, k)) = n
  IN SubSeq(text, k + 1, Len(text))

From(tokens, offset) == SubSeq(tokens, offset + 1, Len(tokens))

-----------------------------------------------------------------------------
(* DecodeStream: [ids, prefix, read].  Five tokens of the prompt are kept   *)
(* as context, more than the prompts here have.                             *)
NewStream(prompt) == [ids |-> prompt, prefix |-> 0, read |-> Len(prompt)]

Advance(s) == [s EXCEPT !.prefix = s.read, !.read = Len(s.ids)]

(* What the tokens since the last piece add to the text, if they end with a *)
(* whole character and add something.                                       *)
NewText(s) ==
  LET before == Decode(SubSeq(s.ids, s.prefix + 1, s.read))
      now == Decode(From(s.ids, s.prefix))
  IN IF ByteLen(now) > ByteLen(before) /\ ~Incomplete(now) THEN {After(now, ByteLen(before))} ELSE {}

Pushed(s, id) == [s EXCEPT !.ids = Append(@, id)]

Step(s, id) ==
  LET t == Pushed(s, id) IN
  IF NewText(t) = {} THEN [s |-> t, out |-> <<>>]
  ELSE [s |-> Advance(t), out |-> CHOOSE new \in NewText(t) : TRUE]

Flush(s) == IF s.read < Len(s.ids) THEN Decode(From(s.ids, s.read)) ELSE <<>>

(* Sequence: the same fields, advanced with every token; special tokens     *)
(* are part of its text.                                                    *)

(* The last character boundary of text up to byte n, in characters.         *)
Boundary(text, n) == Len(SelectSeq([k \in 1 .. Len(text) |-> ByteLen(SubSeq(text, 1, k)) <= n], LAMBDA b : b))

AppendToken(s, id) ==
  LET t == [Pushed(s, id) EXCEPT !.read = Len(s.ids) + 1]
      before == DecodeAll(SubSeq(t.ids, s.prefix + 1, s.read))
      now == DecodeAll(From(t.ids, s.prefix))
      Same(out) == [s |-> t, out |-> out]
  IN IF s.prefix = 0 /\ s.read = 0 THEN Same(IF Incomplete(now) THEN <<>> ELSE now)
     ELSE IF ByteLen(now) <= ByteLen(before) \/ Incomplete(now) THEN Same(<<>>)
     ELSE [s |-> [t EXCEPT !.prefix = s.read],
           out |-> SelectSeq(From(now, Boundary(now, ByteLen(before))), LAMBDA c : c # Broken)]

-----------------------------------------------------------------------------
(* StopSequenceDecoder: a stream with a jail for text that may become a     *)
(* stop.  cfg: [hidden, visible: sequences of texts, ends, visibleEnds:     *)
(* sets of tokens].                                                         *)
NewDecoder == [ids |-> <<>>, prefix |-> 0, read |-> 0, jail |-> <<>>, stopped |-> FALSE]

Occurrences(text, stop) == {p \in 0 .. Len(text) - Len(stop) : SubSeq(text, p + 1, p + Len(stop)) = stop}

StopTexts(cfg) == cfg.hidden \o cfg.visible

HeldLengths(text, cfg) ==
  {n \in 1 .. Len(text) : \E i \in DOMAIN StopTexts(cfg) :
     n < Len(StopTexts(cfg)[i]) /\ IsPrefix(SubSeq(text, Len(text) - n + 1, Len(text)), StopTexts(cfg)[i])}

JailShortest(text, cfg) == IF HeldLengths(text, cfg) = {} THEN 0 ELSE Min(HeldLengths(text, cfg))   \* mutant

(* partial_match_len: the longest end of text that begins a stop.           *)
JailLength(text, cfg) == Max({0} \cup HeldLengths(text, cfg))

Stopped(d, out) == [s |-> [d EXCEPT !.stopped = TRUE, !.jail = <<>>], out |-> out]

(* The first listed stop that occurs ends the text, hidden ones first.      *)
Checked(d, cfg, text) ==
  LET found == {i \in DOMAIN StopTexts(cfg) : Occurrences(text, StopTexts(cfg)[i]) # {}}
      k == JailLength(text, cfg)
  IN IF found # {}
     THEN LET i == Min(found)
              at == Min(Occurrences(text, StopTexts(cfg)[i]))
          IN Stopped(d, SubSeq(text, 1, IF i <= Len(cfg.hidden) THEN at ELSE at + Len(StopTexts(cfg)[i])))
     ELSE [s |-> [Advance(d) EXCEPT !.jail = SubSeq(text, Len(text) - k + 1, Len(text))],
           out |-> SubSeq(text, 1, Len(text) - k)]

ProcessToken(d, cfg, id) ==
  IF d.stopped THEN [s |-> d, out |-> <<>>]
  ELSE IF id \in cfg.ends THEN Stopped(d, d.jail)
  ELSE IF id \in cfg.visibleEnds THEN Stopped(d, d.jail \o Decode(<<id>>))
  ELSE LET e == Pushed(d, id) IN
       IF NewText(e) = {} THEN [s |-> e, out |-> <<>>]
       ELSE Checked(e, cfg, d.jail \o CHOOSE new \in NewText(e) : TRUE)

-----------------------------------------------------------------------------
(* Everything a machine puts out for a sequence of tokens.                  *)
Fed(init, tokens, Feed(_, _)) ==
  FoldLeft(LAMBDA acc, id : LET r == Feed(acc.s, id) IN [s |-> r.s, out |-> acc.out \o r.out],
           [s |-> init, out |-> <<>>], tokens)

(* The pieces of a stream and its flush are the text of the tokens, also    *)
(* where a character is split over tokens or broken, special tokens decode  *)
(* to nothing and a word's space depends on what stands before it.          *)
StreamSpellsTheText ==
  Calling("stream") =>
    LET fed == Fed(NewStream(call.prompt), call.tokens, Step)
    IN fed.out \o Flush(fed.s)
         = After(Decode(call.prompt \o call.tokens), ByteLen(Decode(call.prompt)))

(* A Sequence whose tokens are whole characters returns the same text, with *)
(* its special tokens.                                                      *)
SequenceSpellsTheText ==
  Calling("stream") /\ {"H", "L"} \cap ToSet(call.tokens) = {} =>
    Fed(NewStream(call.prompt), call.tokens, AppendToken).out
      = After(DecodeAll(call.prompt \o call.tokens), ByteLen(DecodeAll(call.prompt)))

(* The tokens up to the last one that ends with a whole character.          *)
WholeCharacters(tokens) == SubSeq(tokens, 1, Max({k \in 0 .. Len(tokens) : ~Incomplete(Decode(SubSeq(tokens, 1, k)))}))

(* What is shown of tokens whose text holds a stop: the text of the first   *)
(* of them that complete one, up to the first listed stop in it, with that  *)
(* stop if it is visible.                                                   *)
CutAtStop(tokens, cfg) ==
  LET text(n) == Decode(WholeCharacters(SubSeq(tokens, 1, n)))
      Complete(n) == {i \in DOMAIN StopTexts(cfg) : Occurrences(text(n), StopTexts(cfg)[i]) # {}}
      n == Min({k \in DOMAIN tokens : Complete(k) # {}})
      i == Min(Complete(n))
      at == Min(Occurrences(text(n), StopTexts(cfg)[i]))
  IN SubSeq(text(n), 1, IF i <= Len(cfg.hidden) THEN at ELSE at + Len(StopTexts(cfg)[i]))

(* However the text falls into tokens, the pieces are the text before the   *)
(* first complete stop: no piece of a hidden stop gets out, text that only  *)
(* looked like the beginning of one is not lost, and an end token lets out  *)
(* what was held.  Of stops that one token completes the first listed one   *)
(* is the stop, hidden ones first, and of another that began before it the  *)
(* beginning gets out.                                                      *)
StopsHideExactlyTheStop ==
  Calling("stop") =>
    LET cfg == call.cfg
        ends == {i \in DOMAIN call.tokens : call.tokens[i] \in cfg.ends \cup cfg.visibleEnds}
        end == Min(ends)
        read == IF ends = {} THEN call.tokens ELSE SubSeq(call.tokens, 1, end - 1)
        text == Decode(WholeCharacters(read))
        shown == IF ends # {} /\ call.tokens[end] \in cfg.visibleEnds THEN Decode(<<call.tokens[end]>>) ELSE <<>>
        stops == \E i \in DOMAIN StopTexts(cfg) : Occurrences(text, StopTexts(cfg)[i]) # {}
        fed == Fed(NewDecoder, call.tokens, LAMBDA d, id : ProcessToken(d, cfg, id))
    IN fed.out \o fed.s.jail = IF stops THEN CutAtStop(read, cfg) ELSE text \o shown

=============================================================================
