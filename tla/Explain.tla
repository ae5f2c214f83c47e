------------------------------- MODULE Explain -------------------------------
(***************************************************************************)
(* Digests of LLM exchanges (internal/explain): a streamed answer is put   *)
(* together again from its events, and told like one that was not          *)
(* streamed.                                                               *)
(*                                                                         *)
(* A text is a sequence of fragments, an empty one is no text.  Maps are   *)
(* functions, an absent key is outside the domain.  Indices count from 1.  *)
(* A stream is only a sequence of events here; which of them arrive, and   *)
(* in what state, is left to LlmStream.                                    *)
(***************************************************************************)
EXTENDS Naturals, Sequences, FiniteSets, SequencesExt, TLC

CONSTANT Nothing   \* nil

Provider == {"anthropic", "openai-chat", "openai-responses", "gemini"}

Empty == << >>
At(f, i, default) == IF i \in DOMAIN f THEN f[i] ELSE default
Put(f, i, v) == (i :> v) @@ f

\* sortedKeys: the values of a map in the order of its indices.
InOrder(f) == LET keys == SetToSortSeq(DOMAIN f, <) IN [n \in DOMAIN keys |-> f[keys[n]]]

\* A body of JSON in two fragments: whole, or not JSON.
Parses(body) == body = <<"{", "}">>

\* What a reassembler has so far: the object it fills, its parts by index, what
\* its deltas have added to them, what was given whole in the end; and streamInfo.
Fresh == [base |-> Nothing, parts |-> Empty, delta |-> Empty, whole |-> Empty,
          closed |-> {}, events |-> 0, errors |-> 0, complete |-> FALSE]

Wrong(g) == [g EXCEPT !.errors = @ + 1]

\* One delta, appended.
Grow(g, key, text) == [g EXCEPT !.delta = Put(@, key, At(@, key, <<>>) \o text)]

-----------------------------------------------------------------------------
(* Anthropic: blocks by index, each with the deltas of its kind.           *)

BlockTypeForDelta(kind) ==
  CASE kind = "input" -> "tool_use" [] kind = "thinking" -> "thinking" [] OTHER -> "text"

anthropicBlock(type, name) ==
  [type |-> type, name |-> name, text |-> <<>>, input |-> <<>>, thinking |-> <<>>]

\* reassembleAnthropic, one event.
FeedAnthropic(g, ev) ==
  CASE ev.type = "message_start" -> [g EXCEPT !.base = ev.message]
    [] ev.type = "content_block_start" ->
         [g EXCEPT !.parts = Put(@, ev.index, ev.block),
                   !.delta = [k \in {k \in DOMAIN @ : k[1] # ev.index} |-> @[k]]]
    [] ev.type = "content_block_delta" ->
         LET made == Put(g.parts, ev.index, anthropicBlock(BlockTypeForDelta(ev.kind), "")) IN
         Grow([g EXCEPT !.parts = IF ev.index \in DOMAIN @ THEN @ ELSE made],
              <<ev.index, ev.kind>>, ev.text)
    [] ev.type = "message_delta" /\ g.base # Nothing ->
         [g EXCEPT !.base.stop = ev.stop, !.base.usage = ev.usage @@ @]
    [] ev.type = "message_stop" -> [g EXCEPT !.complete = TRUE]
    [] ev.type = "error" -> Wrong(g)
    [] OTHER -> g

\* A block with what its deltas add; tool input that is not JSON in the end is {}.
AnthropicBlock(g, i) ==
  LET b == g.parts[i]
      added(kind) == At(g.delta, <<i, kind>>, <<>>)
      input == added("input")
  IN
  [b EXCEPT !.text = @ \o added("text"), !.thinking = @ \o added("thinking"),
            !.input = IF input = <<>> THEN @ ELSE IF Parses(input) THEN input ELSE <<>>]

AnthropicErrors(g) ==
  g.errors + Cardinality({i \in DOMAIN g.parts :
    LET input == At(g.delta, <<i, "input">>, <<>>) IN input # <<>> /\ ~Parses(input)})

AnthropicFinal(g) ==
  IF g.base = Nothing THEN Nothing
  ELSE [g.base EXCEPT !.content = InOrder([i \in DOMAIN g.parts |-> AnthropicBlock(g, i)])]

\* The wire counts cached tokens apart: the digest's input has them.
anthropicUsage(u) ==
  LET n(k) == At(u, k, 0)
      in == n("in") + n("cache_read") + n("cache_write")
  IN [k \in {"cache_read", "cache_write"} \cap DOMAIN u |-> u[k]]
       @@ [in |-> in, out |-> n("out"), total |-> in + n("out")]

Item(kind, name, text) == [kind |-> kind, name |-> name, text |-> text]

anthropicItems(final) ==
  << [n \in DOMAIN final.content |->
        LET b == final.content[n] IN
        CASE b.type = "text" -> Item("text", "", b.text)
          [] b.type = "tool_use" -> Item("tool", b.name, b.input)
          [] b.type = "thinking" -> Item("thinking", "", b.thinking)
          [] OTHER -> Item(b.type, "", <<>>)] >>

-----------------------------------------------------------------------------
(* Chat completions: choices by index, tool calls by index within them.    *)

chatChoice == [content |-> <<>>, reasoning |-> <<>>, refusal |-> <<>>,
               calls |-> Empty, finish |-> ""]

\* Mutant: a later delta, which has no name, takes the name away.
mergeToolCallAnew(t, name, args) == [name |-> name, args |-> t.args \o args]

\* What is given once stays, arguments grow.
mergeToolCall(t, name, args) ==
  [name |-> IF name # "" THEN name ELSE t.name, args |-> t.args \o args]

\* One choice of a chunk: c.field says what its delta carries.
MergeChoice(ch, c) ==
  CASE c.field \in {"content", "reasoning", "refusal"} -> [ch EXCEPT ![c.field] = @ \o c.text]
    [] c.field = "call" ->
         LET old == At(ch.calls, c.call, [name |-> "", args |-> <<>>]) IN
         [ch EXCEPT !.calls = Put(@, c.call, mergeToolCall(old, c.name, c.text))]
    [] c.field = "finish" -> [ch EXCEPT !.finish = c.finish]
    [] OTHER -> ch

\* reassembleOpenAIChat, one event.
FeedChat(g, ev) ==
  CASE ev.type = "[DONE]" -> [g EXCEPT !.complete = TRUE]
    [] ev.type = "error" -> Wrong(g)
    [] OTHER ->
         [g EXCEPT
           !.base = IF @ = Nothing THEN [model |-> ev.model, usage |-> ev.usage]
                    ELSE IF ev.usage # Empty THEN [@ EXCEPT !.usage = ev.usage] ELSE @,
           !.parts = FoldLeft(LAMBDA parts, c :
                       Put(parts, c.index, MergeChoice(At(parts, c.index, chatChoice), c)),
                       @, ev.choices)]

ChatFinal(g) ==
  IF g.base = Nothing THEN Nothing
  ELSE [model |-> g.base.model, usage |-> g.base.usage,
        choices |-> InOrder([i \in DOMAIN g.parts |->
                      [g.parts[i] EXCEPT !.calls = InOrder(@)]])]

Reported(u, keys) == [k \in keys \cap DOMAIN u |-> u[k]]
Counted(u) ==
  [in |-> At(u, "in", 0), out |-> At(u, "out", 0),
   total |-> At(u, "total", At(u, "in", 0) + At(u, "out", 0))]

openAIChatUsage(u) == Counted(u) @@ Reported(u, {"cache_read", "reasoning"})

\* Each reason once, in the order of the choices.
openAIChatStop(final) ==
  FoldLeft(LAMBDA seen, ch : IF ch.finish = "" \/ Contains(seen, ch.finish) THEN seen
                             ELSE Append(seen, ch.finish),
           <<>>, final.choices)

Unless(cond, items) == IF cond THEN <<>> ELSE items

openAIChatItems(final) ==
  [n \in DOMAIN final.choices |->
     LET ch == final.choices[n] IN
     Unless(ch.reasoning = <<>>, <<Item("thinking", "", ch.reasoning)>>)
       \o Unless(ch.content = <<>>, <<Item("text", "", ch.content)>>)
       \o Unless(ch.refusal = <<>>, <<Item("refusal", "", ch.refusal)>>)
       \o [k \in DOMAIN ch.calls |-> Item("tool", ch.calls[k].name, ch.calls[k].args)]]

-----------------------------------------------------------------------------
(* Responses: items by index.  What the last event says of the whole       *)
(* answer counts; without it, what the items' own events say; without      *)
(* those, their deltas.                                                    *)

ResponseItem(type, name) ==
  [type |-> type, name |-> name, content |-> <<>>, args |-> <<>>, summary |-> <<>>]
MessageItem == ResponseItem("message", "")

Part(type, text) == [type |-> type, text |-> text]

\* As long as index n needs.
Padded(parts, n) == parts \o [k \in 1..(IF n > Len(parts) THEN n - Len(parts) ELSE 0) |-> Nothing]

\* reassembleOpenAIResponses, one event.  A key is <<what, item, part>>.
FeedResponses(g, ev) ==
  CASE ev.type = "created" -> [g EXCEPT !.base = ev.response]
    [] ev.type \in {"completed", "incomplete", "failed"} ->
         [g EXCEPT !.base = ev.response, !.complete = TRUE,
                   !.errors = IF ev.type = "completed" THEN @ ELSE @ + 1]
    [] ev.type = "item.added" -> [g EXCEPT !.parts = Put(@, ev.index, ev.item)]
    [] ev.type = "item.done" ->
         [g EXCEPT !.parts = Put(@, ev.index, ev.item), !.closed = @ \cup {ev.index}]
    [] ev.type = "part" ->
         LET it == At(g.parts, ev.index, MessageItem) IN
         [g EXCEPT !.parts = Put(@, ev.index, [it EXCEPT !.content =
                               [Padded(@, ev.part) EXCEPT ![ev.part] = ev.value]])]
    [] ev.type = "delta" -> Grow(g, <<ev.kind, ev.index, ev.part>>, ev.text)
    [] ev.type = "done" ->
         [g EXCEPT !.whole = Put(@, <<ev.kind, ev.index, ev.part>>, ev.text)]
    [] ev.type = "error" -> Wrong(g)
    [] OTHER -> g

\* applyResponseDeltas: an item that was never given whole.
Given(g, key, text) == At(g.whole, key, text \o At(g.delta, key, <<>>))

LastPart(keys, kinds, i, n) ==
  LET seen == {k[3] : k \in {k \in keys : k[1] \in kinds /\ k[2] = i}} \cup {n}
  IN CHOOSE m \in seen : \A k \in seen : k <= m

Patched(g, i) ==
  LET it == g.parts[i]
      parts == LastPart(DOMAIN g.delta, {"text", "refusal"}, i, Len(it.content))
      sums  == LastPart(DOMAIN g.delta \cup DOMAIN g.whole, {"summary"}, i, Len(it.summary))
      kind  == IF it.type = "reasoning" THEN "reasoning_text" ELSE "output_text"
      part(n) == LET p == Padded(it.content, parts)[n] IN
                 IF p # Nothing THEN p
                 ELSE IF <<"refusal", i, n>> \in DOMAIN g.delta THEN Part("refusal", <<>>)
                 ELSE Part(kind, <<>>)
      told(n) == LET p == part(n)
                     key == <<IF p.type = "refusal" THEN "refusal" ELSE "text", i, n>>
                 IN [p EXCEPT !.text = Given(g, key, @)]
  IN
  [it EXCEPT !.content = [n \in 1..parts |-> told(n)],
             !.args = Given(g, <<"args", i, 1>>, @),
             !.summary = [n \in 1..sums |-> Given(g, <<"summary", i, n>>, At(it.summary, n, <<>>))]]

ResponsesFinal(g) ==
  IF g.complete THEN g.base
  ELSE IF g.base = Nothing /\ g.parts = Empty THEN Nothing
  ELSE [model  |-> IF g.base = Nothing THEN "" ELSE g.base.model,
        usage  |-> IF g.base = Nothing THEN Empty ELSE g.base.usage,
        status |-> IF g.base = Nothing THEN "in_progress" ELSE g.base.status,
        reason |-> "",
        output |-> InOrder([i \in DOMAIN g.parts |->
                     IF i \in g.closed THEN g.parts[i] ELSE Patched(g, i)])]

openAIResponsesUsage(u) == Counted(u) @@ Reported(u, {"cache_read", "cache_write", "reasoning"})

openAIResponsesStop(final) ==
  IF final.reason = "" THEN <<final.status>> ELSE <<final.status, final.reason>>

openAIResponsesItems(final) ==
  << FlattenSeq([n \in DOMAIN final.output |->
       LET it == final.output[n] IN
       CASE it.type = "message" ->
              [k \in DOMAIN it.content |->
                 LET p == it.content[k] IN
                 IF p = Nothing THEN Item("", "", <<>>)
                 ELSE Item(IF p.type = "output_text" THEN "text" ELSE p.type, "", p.text)]
         [] it.type = "function_call" -> <<Item("tool", it.name, it.args)>>
         [] it.type = "reasoning" ->
              <<Item("thinking", "", FlattenSeq(it.summary)
                  \o FlattenSeq([k \in DOMAIN it.content |-> it.content[k].text]))>>
         [] OTHER -> <<Item(it.type, "", <<>>)>>]) >>

-----------------------------------------------------------------------------
(* Gemini: candidates by index, consecutive texts of one kind joined.      *)

geminiCandidate == [parts |-> <<>>, finish |-> ""]

Spoken == {"text", "thought"}

AddPart(parts, p) ==
  IF parts # <<>> /\ p.type \in Spoken /\ Last(parts).type = p.type
  THEN [parts EXCEPT ![Len(parts)].text = @ \o p.text]
  ELSE Append(parts, p)

MergeCandidate(gc, c) ==
  [parts |-> FoldLeft(AddPart, gc.parts, c.parts),
   finish |-> IF c.finish = "" THEN gc.finish ELSE c.finish]

\* reassembleGemini, one chunk.
FeedGemini(g, ev) ==
  IF ev.type = "error" THEN Wrong(g)
  ELSE [g EXCEPT
    !.base = IF @ = Nothing THEN [model |-> ev.model, usage |-> ev.usage]
             ELSE [model |-> ev.model, usage |-> IF ev.usage = Empty THEN @.usage ELSE ev.usage],
    !.complete = @ \/ \E n \in DOMAIN ev.candidates : ev.candidates[n].finish # "",
    !.parts = FoldLeft(LAMBDA parts, c :
                Put(parts, c.index, MergeCandidate(At(parts, c.index, geminiCandidate), c)),
                @, ev.candidates)]

GeminiFinal(g) ==
  IF g.base = Nothing THEN Nothing
  ELSE [model |-> g.base.model, usage |-> g.base.usage, candidates |-> InOrder(g.parts)]

geminiUsage(u) == Counted(u) @@ Reported(u, {"cache_read", "reasoning"})

geminiStop(final) ==
  IF final.candidates = <<>> THEN <<"">> ELSE <<final.candidates[1].finish>>

geminiItems(final) ==
  [n \in DOMAIN final.candidates |->
     [k \in DOMAIN final.candidates[n].parts |->
        LET p == final.candidates[n].parts[k] IN
        CASE p.type = "text" -> Item("text", "", p.text)
          [] p.type = "thought" -> Item("thinking", "", p.text)
          [] p.type = "function_call" -> Item("tool", p.name, p.text)
          [] OTHER -> Item("part", "", <<>>)]]

-----------------------------------------------------------------------------
(* All of them.                                                            *)

\* A malformed event is an error, except that Gemini's chunks are read first
\* and those that are not JSON left out.
Malformed(provider, g) == IF provider = "gemini" THEN g ELSE Wrong(g)

\* reassemble, one event.
Feed(provider, g, ev) ==
  LET n == [g EXCEPT !.events = @ + 1] IN
  IF ev.type = "malformed" THEN Malformed(provider, n)
  ELSE CASE provider = "anthropic"        -> FeedAnthropic(n, ev)
         [] provider = "openai-chat"      -> FeedChat(n, ev)
         [] provider = "openai-responses" -> FeedResponses(n, ev)
         [] provider = "gemini"           -> FeedGemini(n, ev)

Final(provider, g) ==
  CASE provider = "anthropic"        -> AnthropicFinal(g)
    [] provider = "openai-chat"      -> ChatFinal(g)
    [] provider = "openai-responses" -> ResponsesFinal(g)
    [] provider = "gemini"           -> GeminiFinal(g)

usageOf(provider, final) ==
  CASE provider = "anthropic"        -> anthropicUsage(final.usage)
    [] provider = "openai-chat"      -> openAIChatUsage(final.usage)
    [] provider = "openai-responses" -> openAIResponsesUsage(final.usage)
    [] provider = "gemini"           -> geminiUsage(final.usage)

stopOf(provider, final) ==
  CASE provider = "anthropic"        -> <<final.stop>>
    [] provider = "openai-chat"      -> openAIChatStop(final)
    [] provider = "openai-responses" -> openAIResponsesStop(final)
    [] provider = "gemini"           -> geminiStop(final)

itemsOf(provider, final) ==
  CASE provider = "anthropic"        -> anthropicItems(final)
    [] provider = "openai-chat"      -> openAIChatItems(final)
    [] provider = "openai-responses" -> openAIResponsesItems(final)
    [] provider = "gemini"           -> geminiItems(final)

\* What Explain tells of the answer.
Digest(provider, final) ==
  IF final = Nothing THEN Nothing
  ELSE [model |-> final.model, usage |-> usageOf(provider, final),
        stop |-> stopOf(provider, final), groups |-> itemsOf(provider, final)]

\* Explain, of a body: an error's, an empty one, a stream, one object, or neither.
Verdict(digest, partial, errors) == [digest |-> digest, partial |-> partial, errors |-> errors]

\* Mutant: a stream that ended is taken for a whole one.
OfStreamWhole(provider, g) ==
  LET final == Final(provider, g) IN
  Verdict(Digest(provider, final), final = Nothing, g.errors)

OfStream(provider, g) ==
  LET final == Final(provider, g) IN
  Verdict(Digest(provider, final), ~g.complete,
          (IF provider = "anthropic" /\ final # Nothing THEN AnthropicErrors(g) ELSE g.errors)
            + (IF final = Nothing THEN 1 ELSE 0))

Explain(provider, status, wantStream, body, g, object) ==
  CASE status >= 400     -> Verdict(Nothing, FALSE, 1)
    [] status < 400 /\ body = "empty"   -> Verdict(Nothing, wantStream, IF wantStream THEN 0 ELSE 1)
    [] status < 400 /\ body = "stream"  -> OfStream(provider, g)
    [] status < 400 /\ body = "object"  -> Verdict(Digest(provider, object), FALSE, 0)
    [] status < 400 /\ body = "garbage" -> Verdict(Nothing, FALSE, 1)
=============================================================================
