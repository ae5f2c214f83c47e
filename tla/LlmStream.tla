------------------------------ MODULE LlmStream ------------------------------
(***************************************************************************)
(* An LLM answer on its way to the digest.  The server sends it whole or   *)
(* as a stream of events, the way its API documents it (the comments of    *)
(* the reassemblers say which one they were checked against); the stream   *)
(* may be cut off anywhere, an event may arrive malformed or be an error.  *)
(* Events of different choices, candidates or output items interleave.     *)
(***************************************************************************)
EXTENDS Explain

CONSTANTS
  Answers,     \* [provider, final]: what a server may answer
  Bodies,      \* how: some of "stream", "array", "object", "empty", "garbage"
  MaxSpoilt    \* bound on malformed events

VARIABLES
  answer, body, \* of this exchange
  head, lanes, tail, \* events still to come: first, by index, last
  got,          \* the reassembler
  spoilt, over  \* events that were malformed, or errors; the stream has ended

stream == <<answer, body, head, lanes, tail, got, spoilt, over>>

-----------------------------------------------------------------------------
(* What a server sends for an answer.                                      *)

Each(text, Event(_)) == [n \in DOMAIN text |-> Event(<<text[n]>>)]

AnthropicScript(f) ==
  LET delta(i, kind, text) ==
        Each(text, LAMBDA s : [type |-> "content_block_delta", index |-> i, kind |-> kind, text |-> s])
      block(i) == LET b == f.content[i] IN
        <<[type |-> "content_block_start", index |-> i, block |-> anthropicBlock(b.type, b.name)]>>
          \o delta(i, "thinking", b.thinking) \o delta(i, "text", b.text) \o delta(i, "input", b.input)
          \o <<[type |-> "content_block_stop"]>>
  IN
  [head |-> <<[type |-> "message_start",
               message |-> [f EXCEPT !.content = <<>>, !.stop = "",
                                     !.usage = [k \in DOMAIN @ \ {"out"} |-> @[k]]]]>>,
   lanes |-> <<FlattenSeq([i \in DOMAIN f.content |-> block(i)])>>,
   tail |-> <<[type |-> "ping"],
              [type |-> "message_delta", stop |-> f.stop, usage |-> [out |-> f.usage.out]],
              [type |-> "message_stop"]>>]

ChatScript(f) ==
  LET chunk(choices, usage) ==
        [type |-> "chunk", model |-> f.model, usage |-> usage, choices |-> choices]
      some(i, field, text, n, name, finish) ==
        chunk(<<[index |-> i, field |-> field, text |-> text, call |-> n, name |-> name,
                 finish |-> finish]>>, Empty)
      texts(i, field, text) == Each(text, LAMBDA s : some(i, field, s, 0, "", ""))
      call(i, n, c) == <<some(i, "call", <<>>, n, c.name, "")>>
                         \o Each(c.args, LAMBDA s : some(i, "call", s, n, "", ""))
      choice(i) == LET ch == f.choices[i] IN
        <<some(i, "role", <<>>, 0, "", "")>>
          \o texts(i, "reasoning", ch.reasoning) \o texts(i, "content", ch.content)
          \o texts(i, "refusal", ch.refusal)
          \o FlattenSeq([n \in DOMAIN ch.calls |-> call(i, n, ch.calls[n])])
          \o <<some(i, "finish", <<>>, 0, "", ch.finish)>>
  IN
  [head |-> <<>>, lanes |-> [i \in DOMAIN f.choices |-> choice(i)],
   tail |-> <<chunk(<<>>, f.usage), [type |-> "[DONE]"]>>]

ResponsesScript(f) ==
  LET told(i, kind, n, text) ==
        Each(text, LAMBDA s : [type |-> "delta", kind |-> kind, index |-> i, part |-> n, text |-> s])
          \o <<[type |-> "done", kind |-> kind, index |-> i, part |-> n, text |-> text]>>
      part(i, n, p) ==
        <<[type |-> "part", index |-> i, part |-> n, value |-> [p EXCEPT !.text = <<>>]]>>
          \o told(i, IF p.type = "refusal" THEN "refusal" ELSE "text", n, p.text)
          \o <<[type |-> "part", index |-> i, part |-> n, value |-> p]>>
      item(i) == LET it == f.output[i] IN
        <<[type |-> "item.added", index |-> i, item |-> ResponseItem(it.type, it.name)]>>
          \o FlattenSeq([n \in DOMAIN it.content |-> part(i, n, it.content[n])])
          \o (IF it.type = "function_call" THEN told(i, "args", 1, it.args) ELSE <<>>)
          \o FlattenSeq([n \in DOMAIN it.summary |-> told(i, "summary", n, it.summary[n])])
          \o <<[type |-> "item.done", index |-> i, item |-> it]>>
  IN
  [head |-> <<[type |-> "created", response |->
                [f EXCEPT !.output = <<>>, !.status = "in_progress", !.reason = "", !.usage = Empty]]>>,
   lanes |-> [i \in DOMAIN f.output |-> item(i)],
   tail |-> <<[type |-> f.status, response |-> f]>>]

\* Each chunk has the model; a candidate's last one its finish and the usage.
GeminiScript(f) ==
  LET fragments(p) == Each(p.text, LAMBDA s : [p EXCEPT !.text = s])
      candidate(i) ==
        LET parts == FlattenSeq([n \in DOMAIN f.candidates[i].parts |->
              LET p == f.candidates[i].parts[n] IN IF p.type \in Spoken THEN fragments(p) ELSE <<p>>])
        IN [n \in DOMAIN parts |->
              [type |-> "chunk", model |-> f.model,
               usage |-> IF n = Len(parts) THEN f.usage ELSE Empty,
               candidates |-> <<[index |-> i, parts |-> <<parts[n]>>,
                 finish |-> IF n = Len(parts) THEN f.candidates[i].finish ELSE ""]>>]]
  IN [head |-> <<>>, lanes |-> [i \in DOMAIN f.candidates |-> candidate(i)], tail |-> <<>>]

Script(a) ==
  CASE a.provider = "anthropic"        -> AnthropicScript(a.final)
    [] a.provider = "openai-chat"      -> ChatScript(a.final)
    [] a.provider = "openai-responses" -> ResponsesScript(a.final)
    [] a.provider = "gemini"           -> GeminiScript(a.final)

-----------------------------------------------------------------------------
Streamed == body \in {"stream", "array"}

Init ==
  /\ answer \in Answers /\ body \in Bodies
  /\ body = "array" => answer.provider = "gemini"
  /\ LET s == IF Streamed THEN Script(answer) ELSE [head |-> <<>>, lanes |-> <<>>, tail |-> <<>>]
     IN head = s.head /\ lanes = s.lanes /\ tail = s.tail
  /\ got = Fresh /\ spoilt = 0 /\ over = ~Streamed

Sent == head = <<>> /\ (\A i \in DOMAIN lanes : lanes[i] = <<>>) /\ tail = <<>>

\* The next event, of any lane once the first ones are sent.
Next1(Take(_)) ==
  \/ head # <<>> /\ Take(Head(head)) /\ head' = Tail(head) /\ UNCHANGED <<lanes, tail>>
  \/ \E i \in DOMAIN lanes :
       /\ head = <<>> /\ lanes[i] # <<>> /\ Take(Head(lanes[i]))
       /\ lanes' = [lanes EXCEPT ![i] = Tail(@)] /\ UNCHANGED <<head, tail>>
  \/ /\ head = <<>> /\ (\A i \in DOMAIN lanes : lanes[i] = <<>>) /\ tail # <<>>
     /\ Take(Head(tail)) /\ tail' = Tail(tail) /\ UNCHANGED <<head, lanes>>

Arrive ==
  /\ ~over
  /\ Next1(LAMBDA ev : got' = Feed(answer.provider, got, ev))
  /\ UNCHANGED <<answer, body, spoilt, over>>

\* An array that is not whole is not JSON: no event of it can be malformed.
Spoil ==
  /\ ~over /\ spoilt < MaxSpoilt /\ body = "stream"
  /\ Next1(LAMBDA ev : got' = Feed(answer.provider, got, [type |-> "malformed"]))
  /\ spoilt' = spoilt + 1
  /\ UNCHANGED <<answer, body, over>>

\* The server gives up.
Fail ==
  /\ ~over /\ ~Sent /\ spoilt < MaxSpoilt
  /\ got' = Feed(answer.provider, got, [type |-> "error"])
  /\ spoilt' = spoilt + 1 /\ over' = TRUE
  /\ UNCHANGED <<answer, body, head, lanes, tail>>

End ==
  /\ ~over /\ over' = TRUE
  /\ UNCHANGED <<answer, body, head, lanes, tail, got, spoilt>>

Next == Arrive \/ Spoil \/ Fail \/ End

Spec == Init /\ [][Next]_stream

-----------------------------------------------------------------------------
(* Properties.                                                             *)

\* What Explain would make of what has arrived by now.
Told ==
  IF body = "array" /\ ~Sent THEN Verdict(Nothing, TRUE, 1)
  ELSE Explain(answer.provider, 200, Streamed,
               IF Streamed THEN IF got.events = 0 THEN "empty" ELSE "stream" ELSE body,
               got, answer.final)

WholeDigest == Digest(answer.provider, answer.final)

\* explain.go: Final is "the response as the non-streaming API would have returned
\* it".  A stream that arrived intact, in whatever order its choices, candidates or
\* items were interleaved, is told exactly as the same answer in one piece.
SameDigest ==
  Streamed /\ Sent /\ spoilt = 0 => Told.digest = WholeDigest /\ ~Told.partial

\* A digest with no error that is not marked partial is of the whole answer: what a
\* cut, a malformed event or an error of the server took away is never passed over
\* in silence.  Gemini is left out: see the findings.
LossIsTold ==
  Streamed /\ answer.provider # "gemini" /\ ~Told.partial /\ Told.errors = 0 =>
    Told.digest = WholeDigest

Texts(digest) == UNION {ToSet(digest.groups[n]) : n \in DOMAIN digest.groups}

\* A stream that was cut off is told as far as it came: nothing is invented,
\* doubled, or put where it does not belong.
CutIsPrefix ==
  Streamed /\ spoilt = 0 /\ Told.digest # Nothing =>
    \A it \in Texts(Told.digest) : \E w \in Texts(WholeDigest) :
      it.kind = w.kind /\ it.name \in {w.name, ""} /\ IsPrefix(it.text, w.text)
=============================================================================
