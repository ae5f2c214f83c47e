------------------------------- MODULE LlmDigest -------------------------------
(***************************************************************************)
(* The digest of an LLM exchange as a client reads it (internal/explain):  *)
(* whose API a request belongs to, how its body is summarised, how events  *)
(* are split out of a stream, and which sections the text of the digest    *)
(* has (digest.go, detect.go, sse.go, the *Request functions).             *)
(*                                                                         *)
(* A text is a sequence of words, and a word counts as one rune.  Fields   *)
(* that a body does not have are Nothing, <<>> or "", whichever the field  *)
(* is read as.                                                             *)
(***************************************************************************)
EXTENDS Naturals, Sequences, FiniteSets, SequencesExt

CONSTANTS
  textPreview, thinkingPreview, toolPreview, messagePreview,
  systemPreview, requestPreview,  \* runes shown of each
  incompletePreview,              \* runes an error tells of a tool input that is not whole (120)
  Nothing                         \* nil

-----------------------------------------------------------------------------
(* Whose it is (detect.go).  A call is [path, host, mime, body]: path is   *)
(* what its last segments say, body the keys its object has, or Nothing.   *)

Siblings == {"/count_tokens", "/batches", "/embeddings", "/models", "/files"}

mimeMayBeLLM(mime) == mime \in {"", "json", "event-stream", "text/plain"}

ByPath(call) ==
  CASE call.path = "/chat/completions" -> "openai-chat"
    [] call.path \in {":generateContent", ":streamGenerateContent"} -> "gemini"
    [] call.path = "/v1/messages" -> "anthropic"
    [] call.path = "/messages" /\ call.host = "anthropic" -> "anthropic"
    [] call.path = "/responses" /\ call.host \in {"openai", "azure"} -> "openai-responses"
    [] OTHER -> Nothing

\* A Messages request: anthropic_version says so, or its size and who it is sent to.
LooksAnthropic(call) ==
  \/ "anthropic_version" \in call.body
  \/ "max_tokens" \in call.body /\ ("system" \in call.body \/ call.host = "anthropic")

ByShape(call) ==
  LET has(k) == k \in call.body IN
  IF has("contents") THEN "gemini"
  ELSE IF has("messages") /\ LooksAnthropic(call) THEN "anthropic"
  ELSE IF has("messages") /\ has("model") THEN "openai-chat"
  ELSE IF (has("input") \/ has("instructions")) /\ (has("model") \/ call.path = "/responses")
  THEN "openai-responses"
  ELSE Nothing

Detect(call) ==
  IF call.path \in Siblings THEN Nothing
  ELSE IF ByPath(call) # Nothing THEN ByPath(call)
  ELSE IF ~mimeMayBeLLM(call.mime) \/ call.body = Nothing THEN Nothing
  ELSE ByShape(call)

-----------------------------------------------------------------------------
(* What a request asks (anthropicRequest, openAIChatRequest, ...).         *)

truncRunes(s, max) == IF Len(s) <= max THEN s ELSE Append(SubSeq(s, 1, max - 1), "...")

Named(name, type) == IF name # "" THEN name ELSE type

\* One message: its role and its text on one line.
addMessage(role, text) == [role |-> IF role = "" THEN "?" ELSE role, text |-> text]

RoleOf(role) ==
  CASE role = "user"                      -> "u"
    [] role \in {"assistant", "model"}    -> "a"
    [] role \in {"system", "developer"}   -> "s"
    [] role \in {"tool", "function"}      -> "t"
    [] OTHER                              -> "?"

Roles(rs) == [r \in {"u", "a", "s", "t"} |->
                Cardinality({n \in DOMAIN rs.lines : RoleOf(rs.lines[n].role) = r})]

At(params, k, default) == IF k \in DOMAIN params THEN params[k] ELSE default

\* rs.param, rs.streamParam: what is there is shown.
Given(params, keys) == [k \in {k \in keys \cap DOMAIN params : params[k] # Nothing} |-> params[k]]

\* The content of a message: a text is one block of type text.  The result of a tool
\* holds content again, which is cut.
anthropicContentText(content) ==
  LET text[c \in {content} \cup {content[n].content : n \in DOMAIN content}] ==
        FlattenSeq([n \in DOMAIN c |->
          LET b == c[n] IN
          CASE b.type = "text" -> b.text
            [] b.type \in {"tool_use", "server_tool_use"} -> <<b.type, b.name>>
            [] b.type = "tool_result" -> <<b.type>> \o truncRunes(text[b.content], 60)
            [] b.type = "" -> <<>>
            [] OTHER -> <<b.type>>])
  IN text[content]

openAIContentText(content) ==
  FlattenSeq([n \in DOMAIN content |->
    CASE content[n].type \in {"text", "input_text", "output_text"} -> content[n].text
      [] content[n].type = "" -> <<>>
      [] OTHER -> <<content[n].type>>])

geminiPartsText(parts) ==
  FlattenSeq([n \in DOMAIN parts |->
    CASE parts[n].type = "text" -> parts[n].text
      [] parts[n].type \in {"function_call", "function_response"} -> <<parts[n].type, parts[n].name>>
      [] parts[n].type \in {"inline_data", "file_data"} -> <<parts[n].type>>
      [] OTHER -> <<>>])

anthropicRequest(req) ==
  [system |-> FlattenSeq([n \in DOMAIN req.system |-> req.system[n].text]),
   lines  |-> [n \in DOMAIN req.messages |->
                 addMessage(req.messages[n].role, anthropicContentText(req.messages[n].content))],
   tools  |-> [n \in DOMAIN req.tools |-> Named(req.tools[n].name, req.tools[n].type)],
   params |-> Given(req.params, {"max_tokens", "temperature", "stream", "thinking"})]

openAIChatRequest(req) ==
  LET text(m) == openAIContentText(m.content)
      calls(m) == FlattenSeq([k \in DOMAIN m.calls |-> <<"tool_call", m.calls[k]>>])
      more(m) == IF m.role \in {"system", "developer"} THEN text(m) ELSE <<>>
      most == IF "max_completion_tokens" \in DOMAIN req.params THEN "max_completion_tokens"
              ELSE "max_tokens"
  IN
  [system |-> FlattenSeq([n \in DOMAIN req.messages |-> more(req.messages[n])]),
   lines  |-> [n \in DOMAIN req.messages |->
                 addMessage(req.messages[n].role, text(req.messages[n]) \o calls(req.messages[n]))],
   tools  |-> [n \in DOMAIN req.tools |-> Named(req.tools[n].name, req.tools[n].type)],
   params |-> Given(req.params, {most, "temperature", "stream", "reasoning_effort"}
                      \cup (IF At(req.params, "stream", FALSE) THEN {"stream_options"} ELSE {})
                      \cup (IF At(req.params, "n", 1) > 1 THEN {"n"} ELSE {}))]

openAIResponsesRequest(req) ==
  LET line(m) ==
        CASE m.role # "" -> addMessage(m.role, openAIContentText(m.content))
          [] m.role = "" /\ m.type = "function_call" -> addMessage("assistant", <<m.type, m.name>>)
          [] m.role = "" /\ m.type = "function_call_output" ->
               addMessage("tool", truncRunes(m.output, 120))
          [] OTHER -> addMessage(m.type, <<>>)
  IN
  [system |-> req.instructions,
   lines  |-> [n \in DOMAIN req.input |-> line(req.input[n])],
   tools  |-> [n \in DOMAIN req.tools |-> Named(req.tools[n].name, req.tools[n].type)],
   params |-> Given(req.params, {"max_output_tokens", "temperature", "stream",
                                 "reasoning_effort", "previous_response_id"})]

geminiRequest(req, path) ==
  [system |-> geminiPartsText(req.system),
   lines  |-> [n \in DOMAIN req.contents |->
                 addMessage(Named(req.contents[n].role, "user"), geminiPartsText(req.contents[n].parts))],
   tools  |-> FlattenSeq([n \in DOMAIN req.tools |->
                 IF req.tools[n].declared = <<>> THEN SetToSeq(req.tools[n].keys)
                 ELSE req.tools[n].declared]),
   params |-> [k \in {"stream"} |-> path = ":streamGenerateContent"]
                @@ Given(req.params, {"max_output_tokens", "temperature", "thinking"})]

summariseRequest(provider, req, path) ==
  CASE provider = "anthropic"        -> anthropicRequest(req)
    [] provider = "openai-chat"      -> openAIChatRequest(req)
    [] provider = "openai-responses" -> openAIResponsesRequest(req)
    [] provider = "gemini"           -> geminiRequest(req, path)

-----------------------------------------------------------------------------
(* The events of a stream (sse.go).  A line is <<field, value>>, a comment *)
(* <<":", ..>>, an empty one <<"", "">>; a field it does not know is no    *)
(* field.  The last event needs no empty line.                             *)

NoEvent == [name |-> "", data |-> <<>>, id |-> "", seen |-> FALSE]

Field(cur, line) ==
  CASE line[1] = "event" -> [cur EXCEPT !.name = line[2], !.seen = TRUE]
    [] line[1] = "data"  -> [cur EXCEPT !.data = Append(@, line[2]), !.seen = TRUE]
    [] line[1] = "id"    -> [cur EXCEPT !.id = line[2], !.seen = TRUE]
    [] OTHER             -> cur

Flush(st) == [events |-> IF st.cur.seen THEN Append(st.events, st.cur) ELSE st.events, cur |-> NoEvent]

ParseSSE(lines) ==
  Flush(FoldLeft(LAMBDA st, line : IF line = <<"", "">> THEN Flush(st)
                                   ELSE [st EXCEPT !.cur = Field(@, line)],
                 [events |-> <<>>, cur |-> NoEvent], lines)).events

looksLikeSSE(lines) == lines # <<>> /\ lines[1][1] \in {"event", "data", ":"}

-----------------------------------------------------------------------------
(* The text of a digest (render).  Its runes are cells <<section, word>>;  *)
(* the wording of a line is one cell of its section.  r is [stop, usage,   *)
(* items, request, errors, incomplete, raw]; incomplete are the inputs of  *)
(* tools whose JSON a stream did not finish (anthropic.go).                *)

Sections == <<"provider", "request", "usage", "final", "errors", "messages", "system", "request_json">>
allIncludes == {"final", "usage", "tools", "stop", "errors", "thinking", "messages", "system", "request"}
DefaultInclude == {"final", "usage", "tools", "stop", "errors"}

\* parseIncludes: Nothing when one of them is unknown.
parseIncludes(names) ==
  IF names = {} THEN DefaultInclude ELSE IF names \subseteq allIncludes THEN names ELSE Nothing

Cells(section, words) == [n \in DOMAIN words |-> <<section, words[n]>>]
Line(section, words) == Cells(section, <<section>> \o words)

RequestLine(rs, bytes, showTools) ==
  IF rs = Nothing THEN <<IF bytes = 0 THEN "-" ELSE "not JSON">>
  ELSE LET names == SelectSeq(rs.tools, LAMBDA t : t # "") IN
       (IF rs.system = <<>> THEN <<>> ELSE <<"system">>)
         \o (IF rs.lines = <<>> THEN <<>> ELSE <<"messages">>)
         \o (IF rs.tools = <<>> THEN <<>> ELSE <<"tools">>)
         \o (IF showTools THEN IF Len(names) > 5 THEN Append(SubSeq(names, 1, 5), "...") ELSE names
             ELSE <<>>)
         \o SetToSeq(DOMAIN rs.params)

\* Mutant: reasoning is shown whether it was asked for or not.
renderItemAll(it, inc) ==
  CASE it.kind = "tool" -> <<it.kind, it.name>> \o truncRunes(it.text, toolPreview)
    [] OTHER -> <<it.kind>> \o truncRunes(it.text, thinkingPreview)

renderItem(it, inc) ==
  CASE it.kind \in {"text", "refusal"} -> <<it.kind>> \o truncRunes(it.text, textPreview)
    [] it.kind = "thinking" ->
         IF it.text = <<>> THEN <<it.kind, "(empty)">>
         ELSE IF "thinking" \notin inc THEN <<it.kind, "(hidden)">>
         ELSE <<it.kind>> \o truncRunes(it.text, thinkingPreview)
    [] it.kind = "tool" ->
         <<it.kind, it.name>>
           \o (IF it.text = <<>> THEN <<>>
               ELSE IF "tools" \in inc THEN truncRunes(it.text, toolPreview) ELSE <<"(hidden)">>)
    [] OTHER -> <<it.kind>>

\* An input that is not whole JSON is no part of its item: an error quotes it.
Quoted(raw) == truncRunes(raw, incompletePreview)
ErrorLines(r) ==
  r.errors \o FlattenSeq([n \in DOMAIN r.incomplete |-> <<"incomplete">> \o Quoted(r.incomplete[n])])

Usage(r, inc) ==
  LET stop == IF "stop" \in inc /\ r.stop # "" THEN <<r.stop>> ELSE <<>> IN
  IF "usage" \in inc THEN Line("usage", <<IF r.usage = Nothing THEN "-" ELSE "tokens">> \o stop)
  ELSE Cells("usage", stop)

Body(r, inc) ==
  Line("provider", <<>>)
    \o Line("request", RequestLine(r.request, Len(r.raw), "tools" \in inc))
    \o Usage(r, inc)
    \o (IF "final" \notin inc \/ r.items = Nothing THEN <<>>
        ELSE Line("final", FlattenSeq([n \in DOMAIN r.items |-> renderItem(r.items[n], inc)])))
    \o (IF "errors" \notin inc THEN <<>>
        ELSE Line("errors", IF ErrorLines(r) = <<>> THEN <<"none">> ELSE ErrorLines(r)))
    \o (IF "messages" \notin inc THEN <<>>
        ELSE Line("messages",
               IF r.request = Nothing THEN <<"-">>
               ELSE FlattenSeq([n \in DOMAIN r.request.lines |->
                      truncRunes(<<r.request.lines[n].role>> \o r.request.lines[n].text, messagePreview)])))
    \o (IF "system" \notin inc THEN <<>>
        ELSE Line("system", IF r.request = Nothing THEN <<"-">> ELSE truncRunes(r.request.system, systemPreview)))
    \o (IF "request" \notin inc THEN <<>>
        ELSE Line("request_json", truncRunes(r.raw, requestPreview)))

truncMarker == <<<<"cut", "...">>, <<"cut", "[truncated]">>>>

render(r, inc, maxChars) ==
  LET out == Body(r, inc)
      keep == IF maxChars < Len(truncMarker) THEN 0 ELSE maxChars - Len(truncMarker)
  IN IF Len(out) <= maxChars THEN out
     ELSE SubSeq(SubSeq(out, 1, keep) \o truncMarker, 1, maxChars)

-----------------------------------------------------------------------------
(* What a client may rely on.                                              *)

\* What a digest shows is what was asked for, in the order of the sections and within
\* its size: reasoning, tool input, messages and the system prompt are not in it
\* unless they are included (the include parameter of docs/mcp.md), but for the
\* beginning of a tool input that was cut off, which is among the errors; and a
\* smaller digest is the beginning of a larger one.  r has no word of one in another.
DigestTrue(r, inc, maxChars) ==
  LET out == render(r, inc, maxChars)
      whole == Body(r, inc)
      words == {out[n][2] : n \in DOMAIN out}
      place(cell) == SelectInSeq(Sections, LAMBDA s : s = cell[1])
      own(n) == out[n][1] # "cut"
      secret(kind) == UNION {ToSet(r.items[n].text) :
                               n \in {n \in DOMAIN r.items : r.items[n].kind = kind}}
  IN
  /\ Len(out) <= maxChars
  /\ \A n \in DOMAIN out : own(n) => out[n] = whole[n]
  /\ Len(whole) > maxChars /\ maxChars >= Len(truncMarker) => IsSuffix(truncMarker, out)
  /\ Len(whole) <= maxChars => \A n \in DOMAIN out : own(n)
  /\ \A i, j \in DOMAIN out : i < j /\ own(i) /\ own(j) => place(out[i]) <= place(out[j])
  /\ "thinking" \notin inc /\ r.items # Nothing => words \cap secret("thinking") = {}
  /\ "tools" \notin inc /\ r.items # Nothing => words \cap secret("tool") = {}
  /\ \A n \in DOMAIN r.incomplete :
       words \cap ToSet(r.incomplete[n]) \subseteq
         IF "errors" \in inc THEN ToSet(Quoted(r.incomplete[n])) ELSE {}
  /\ r.request # Nothing /\ "request" \notin inc =>
       /\ "messages" \notin inc =>
            \A n \in DOMAIN r.request.lines : words \cap ToSet(r.request.lines[n].text) = {}
       /\ "system" \notin inc => words \cap ToSet(r.request.system) = {}

DataOf(lines) ==
  LET data == SelectSeq(lines, LAMBDA line : line[1] = "data") IN [n \in DOMAIN data |-> data[n][2]]

\* sse.go: "a stream that was cut off without its trailing blank line still yields its
\* last event".  Cut anywhere, a stream yields the events before the cut as they were
\* and of the one that was cut what had arrived; no data is lost or told twice.
EventsTrue(lines) ==
  LET all == ParseSSE(lines) IN
  \A k \in 0..Len(lines) :
    LET some == ParseSSE(SubSeq(lines, 1, k)) IN
    /\ Len(some) <= Len(all)
    /\ FlattenSeq([n \in DOMAIN some |-> some[n].data]) = DataOf(SubSeq(lines, 1, k))
    /\ \A n \in DOMAIN some : n < Len(some) => some[n] = all[n]
    /\ some # <<>> => IsPrefix(Last(some).data, all[Len(some)].data)

\* A conversation [system, tools, turns] of texts as each API has it: turns are <<role,
\* text>>, tools are names.
Asked(provider, c) ==
  LET block(text) == [type |-> "text", text |-> text, name |-> "", content |-> <<>>]
      said(role, text) == [role |-> role, type |-> "message", name |-> "", calls |-> <<>>,
                           output |-> <<>>, content |-> <<block(text)>>]
      turns == [n \in DOMAIN c.turns |-> said(c.turns[n][1], c.turns[n][2])]
      tools == [n \in DOMAIN c.tools |-> [name |-> c.tools[n], type |-> "function"]]
      model(role) == IF role = "assistant" THEN "model" ELSE role
  IN
  CASE provider = "anthropic" ->
         [system |-> <<block(c.system)>>, messages |-> turns, tools |-> tools, params |-> <<>>]
    [] provider = "openai-chat" ->
         [messages |-> (IF c.system = <<>> THEN <<>> ELSE <<said("developer", c.system)>>) \o turns,
          tools |-> tools, params |-> <<>>]
    [] provider = "openai-responses" ->
         [instructions |-> c.system, input |-> turns, tools |-> tools, params |-> <<>>]
    [] provider = "gemini" ->
         [system |-> <<block(c.system)>>,
          contents |-> [n \in DOMAIN turns |-> [role |-> model(c.turns[n][1]), parts |-> turns[n].content]],
          tools |-> IF c.tools = <<>> THEN <<>> ELSE <<[declared |-> c.tools, keys |-> {"functionDeclarations"}]>>,
          params |-> <<>>]

\* The same conversation is summarised the same whichever API it is held with: the
\* same system prompt and tools, and every message once, in its order, counted for
\* its role; only a chat has the system prompt among its messages.
SameRequest(c) ==
  LET told(p) == summariseRequest(p, Asked(p, c), ":generateContent")
      heard(p) == SelectSeq(told(p).lines, LAMBDA l : RoleOf(l.role) # "s")
      counted(p) == Roles(told(p))["u"] + Roles(told(p))["a"]
  IN
  \A p \in {"anthropic", "openai-chat", "openai-responses", "gemini"} :
    /\ told(p).system = c.system /\ told(p).tools = c.tools
    /\ Len(heard(p)) = Len(c.turns) /\ counted(p) = Len(c.turns)
    /\ \A n \in DOMAIN c.turns : /\ heard(p)[n].text = c.turns[n][2]
                                 /\ RoleOf(heard(p)[n].role) = RoleOf(c.turns[n][1])

\* The keys that tell the requests of an API apart, as its documentation has them.
Documented(provider) ==
  CASE provider = "anthropic" -> {{"messages", "model", "max_tokens"}, {"messages", "model", "max_tokens", "system"},
                                  {"messages", "max_tokens", "anthropic_version"}}
    [] provider = "openai-chat" -> {{"messages", "model"}, {"messages", "model", "max_tokens"}}
    [] provider = "openai-responses" -> {{"model", "input"}, {"model", "input", "instructions"}}
    [] provider = "gemini" -> {{"contents"}, {"contents", "system"}}

\* detect.go: a gateway on any domain is recognised by its path, or else by the shape
\* of the body.  A request that its API documents is recognised wherever it is sent,
\* and never taken for that of another API, unless the path is of the other one: only
\* a Messages request with neither a system prompt nor a version looks like a chat,
\* and a chat that is limited and sent to Anthropic looks like Messages.
DetectTrue(provider, call) ==
  LET plain == call.body = {"messages", "model", "max_tokens"} IN
  call.body \in Documented(provider) /\ ByPath(call) \in {provider, Nothing} =>
    /\ call.path \in Siblings => Detect(call) = Nothing
    /\ call.path \notin Siblings =>
         \/ Detect(call) = provider
         \/ Detect(call) = Nothing /\ ~mimeMayBeLLM(call.mime)
         \/ plain /\ Detect(call) = IF call.host = "anthropic" THEN "anthropic" ELSE "openai-chat"
=============================================================================
