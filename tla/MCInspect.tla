------------------------------ MODULE MCInspect ------------------------------
(***************************************************************************)
(* Small instances, for TLC, of what pano makes of the flows it holds: an  *)
(* LLM answer that arrives event by event, and the pure functions over     *)
(* flows, rules and queries, each a one-state behaviour whose state is its *)
(* input.  MCTerminal adds the parts of the terminal UI.                   *)
(***************************************************************************)
EXTENDS Naturals, FiniteSets, Sequences, SequencesExt

CONSTANT Nothing

VARIABLES
  part,       \* "stream": of LlmStream; "input": of a function; "none"
  input,      \* of the function that its field `of` names
  answer, body, head, lanes, tail, got, spoilt, over   \* of LlmStream

inspect == <<input, answer, body, head, lanes, tail, got, spoilt, over>>

Seqs(S, k) == UNION {[1..j -> S] : j \in 0..k}
Partial(D, S) == UNION {[E -> S] : E \in SUBSET D}

-----------------------------------------------------------------------------
(* The answers of the four APIs. *)

usage(f) == [in |-> 5, out |-> 3] @@ f
block(type, name, text, json, thinking) ==
  [type |-> type, name |-> name, text |-> text, input |-> json, thinking |-> thinking]
Json == <<"{", "}">>

R == INSTANCE Explain

MCAnswers == {
  [provider |-> "anthropic", final |-> [model |-> "m", stop |-> "tool_use", usage |-> usage([cache_read |-> 7]),
    content |-> <<block("thinking", "", <<>>, <<>>, <<"t1", "t2">>), block("text", "", <<"a", "b">>, <<>>, <<>>),
                  block("tool_use", "f", <<>>, Json, <<>>)>>]],
  [provider |-> "openai-chat", final |-> [model |-> "m", usage |-> usage([total |-> 8]), choices |-> <<
    [R!chatChoice EXCEPT !.content = <<"a", "b">>, !.reasoning = <<"t1">>, !.finish = "stop"],
    [R!chatChoice EXCEPT !.calls = <<[name |-> "f", args |-> Json], [name |-> "g", args |-> Json]>>,
                         !.finish = "tool_calls"]>>]],
  [provider |-> "openai-responses", final |-> [model |-> "m", usage |-> usage([total |-> 8]),
    status |-> "completed", reason |-> "", output |-> <<
    [R!ResponseItem("reasoning", "") EXCEPT !.summary = <<<<"t1", "t2">>>>],
    [R!ResponseItem("message", "") EXCEPT !.content = <<R!Part("output_text", <<"a", "b">>), R!Part("refusal", <<"r">>)>>],
    [R!ResponseItem("function_call", "f") EXCEPT !.args = Json]>>]],
  [provider |-> "gemini", final |-> [model |-> "m", usage |-> usage(<<>>), candidates |-> <<
    [parts |-> <<[type |-> "thought", name |-> "", text |-> <<"t1", "t2">>],
                 [type |-> "text", name |-> "", text |-> <<"a", "b">>]>>, finish |-> "STOP"],
    [parts |-> <<[type |-> "text", name |-> "", text |-> <<"a">>],
                 [type |-> "function_call", name |-> "f", text |-> Json]>>, finish |-> "STOP"]>>]]}

S == INSTANCE LlmStream WITH
  Answers <- MCAnswers, Bodies <- {"stream", "array", "object", "empty", "garbage"}, MaxSpoilt <- 1

-----------------------------------------------------------------------------
(* Inputs of the functions over captured flows. *)

\* Texts as bytes: rune r of a text has sizes[r] of them.
Bytes(sizes) == FlattenSeq([r \in DOMAIN sizes |-> [k \in 1..sizes[r] |-> <<r, k>>]])
Texts(runes) == {Bytes(s) : s \in Seqs(1..3, runes)}

\* Lines of an event stream.
Lines == {<<"", "">>, <<":", "">>, <<"event", "x">>, <<"data", "1">>, <<"data", "2">>,
          <<"id", "i">>, <<"retry", "1">>}

Int1 == [scalar |-> 1]

\* package explain: digests of answers, events, requests, recognition of a call.
G == INSTANCE LlmDigest WITH
  textPreview <- 2, thinkingPreview <- 2, toolPreview <- 2, messagePreview <- 2,
  systemPreview <- 2, requestPreview <- 2, incompletePreview <- 2

Told(kind, name, text) == [kind |-> kind, name |-> name, text |-> text]
ToldItems ==
  {Told("text", "", <<"a", "b", "c">>), Told("thinking", "", <<>>),
   Told("thinking", "", <<"t1", "t2", "t3">>), Told("tool", "f", <<"i1", "i2", "i3">>),
   Told("citation", "", <<>>)}
ToldRequest ==
  [system |-> <<"s1", "s2">>, tools |-> <<"f", "", "g">>, params |-> [max_tokens |-> 1],
   lines |-> <<G!addMessage("user", <<"u1", "u2">>), G!addMessage("", <<"v1">>)>>]

DigestInputs ==
  [of : {"digest"},
   r : [stop : {"", "end"}, usage : {"u"}, items : {Nothing} \cup Seqs(ToldItems, 2),
        request : {Nothing, ToldRequest}, errors : {<<>>, <<"e1">>},
        incomplete : {<<>>, <<<<"j1", "j2", "j3">>>>}, raw : {<<"r1", "r2", "r3">>}],
   inc : {G!parseIncludes({k}) : k \in G!allIncludes} \cup {G!allIncludes, {"final", "thinking"}},
   max : {7, 99}]
EventInputs == [of : {"events"}, lines : Seqs(Lines, 3)]
RequestInputs ==
  [of : {"request"}, c : [system : {<<>>, <<"s">>}, tools : Seqs({"f", "g"}, 2),
                         turns : Seqs({"user", "assistant"} \X {<<>>, <<"a">>, <<"b", "c">>}, 2)]]
DetectInputs ==
  [of : {"detect"}, provider : {"anthropic", "openai-chat", "openai-responses", "gemini"},
   call : [path : G!Siblings \cup {"/gateway", "/chat/completions", ":generateContent",
                                  "/v1/messages", "/messages", "/responses"},
           host : {"x", "anthropic", "openai"}, mime : {"json", "image"},
           body : UNION {G!Documented(p) : p \in R!Provider}]]

\* package view: diff.go.
F == INSTANCE Diff WITH DiffContext <- 1, DiffMaxCells <- 12

Flat == {Int1, [scalar |-> 2]}
Level1 == Flat \cup {[obj |-> f] : f \in Partial({"a", "b"}, Flat)} \cup {[arr |-> s] : s \in Seqs({Int1}, 2)}
Level2 == Level1 \cup {[obj |-> [a |-> v]] : v \in Level1} \cup {[arr |-> <<Int1, v>>] : v \in Level1}
TextDiffInputs == [of : {"text"}, a : Seqs({"x", "y"}, 4), b : Seqs({"x", "y"}, 4), max : {1, 9}]
JsonDiffInputs == [of : {"json"}, a : Level2, b : Level2]
HeaderDiffInputs ==
  [of : {"header"}, a : Partial({"a", "b"}, Seqs({1, 2}, 1)), b : Partial({"a", "b"}, Seqs({1, 2}, 1)),
   ign : SUBSET {"a", "b"}]

\* package view: truncate.go, decode.go, schema.go, sse.go, render.go.
MCFormats == ("d" :> "date") @@ ("t" :> "date")
V == INSTANCE View WITH
  UTFMax <- 3, Formats <- MCFormats, Short <- {"a", "b", "c"}, Names <- <<"a", "b", "c">>,
  schemaMaxKeys <- 2, schemaMaxElems <- 2, schemaMaxDepth <- 2, enumMaxValues <- 1

Leaf == {[int |-> 1], [float |-> 1], [null |-> TRUE]} \cup [str : {"a", "b", "c", "t", "long"}]
Objects == {[obj |-> f] : f \in Partial({"a", "b", "c"}, {[int |-> 1], [str |-> "a"]})}
Samples == {Bytes(<<>>), Bytes(<<1, 3, 2>>), Bytes(<<1, 1, 1, 1, 1, 1>>)}
CutInputs == [of : {"cut"}, b : Texts(4), budget : 1..9]
SchemaInputs ==
  [of : {"schema"}, v : Leaf \cup {[arr |-> s] : s \in Seqs(Leaf, 3) \cup Seqs(Objects, 2)}
                      \cup Objects \cup {[obj |-> [a |-> [arr |-> <<x>>]]] : x \in Objects}]
StreamInputs == [of : {"sse"}, lines : Seqs(Lines, 3), max : {1, 9}]
DecodeInputs ==
  [of : {"decode"}, enc : Seqs({"gzip", "br", "identity", "nope"}, 2), b : Samples, cut : BOOLEAN,
   limit : {2, 9}]
RenderInputs ==
  [of : {"render"}, mode : V!Modes \cup {"x"}, class : {"json", "text", "form", "img", "sse"},
   mp : BOOLEAN, says : {"json", "plain", "invalid"}, b : Samples, enc : {<<>>, <<"gzip">>},
   cut : BOOLEAN, limit : {4}, max : {4, 20},
   path : {Nothing, [absent |-> TRUE]} \cup [kind : {"string", "json"}, bytes : {Bytes(<<2, 3>>)}],
   secret : {{}, {1, 2}, {2, 3}, {6}}]

TextOf(i) == IF i.path # Nothing /\ i.path # [absent |-> TRUE] THEN i.path.bytes ELSE i.b

\* package view: redact.go, summary.go.
M == INSTANCE Summary WITH
  LongValue <- 6, SuffixLen <- 2, summaryMaxKeys <- 2, summaryMaxNotable <- 2, summaryMaxNodes <- 9,
  summaryMaxDepth <- 2, ArraySample <- 2, ShapeElems <- 3, notableKeys <- {"id"}, sensitiveKeys <- {"token"}

\* A value of k letters, of which p are a known prefix; of one alphabet or the other.
Upper == <<"A", "B", "C", "D", "E", "F", "G", "H", "I", "J", "K", "L", "M", "N">>
Lower == <<"a", "b", "c", "d", "e", "f", "g", "h", "i", "j", "k", "l", "m", "n">>
Of(alphabet, k, p) == [runes |-> SubSeq(alphabet, 1, k), prefix |-> p]
Value(k, p) == Of(Lower, k, p)
Marked(alphabet) == [runes |-> <<alphabet[1], "hash:", alphabet[2]>>, prefix |-> 0]
ValuesOf(alphabet) == {Of(alphabet, 0, 0), Of(alphabet, 2, 0), Of(alphabet, 7, 0), Of(alphabet, 6, 2), Marked(alphabet)}
Values == ValuesOf(Lower) \cup {M!Mask(Value(7, 0))}
Place(name, shapes, value) == [name |-> name, shapes |-> shapes, value |-> value]
Plain == {<<Place("", {}, v)>> : v \in Values}
HeaderValues(name) ==
  IF name \in {"cookie", "set-cookie"}
  THEN {<<Place(x, {}, v), Place(y, {}, w)>> : x, y \in {"", "one"}, v \in Values, w \in ValuesOf(Upper)} \cup Plain
  ELSE IF name = "authorization" THEN {<<Place("Basic", {}, v)>> : v \in Values} \cup Plain
  ELSE {<<Place("", sh, v)>> : sh \in {{}, {"form"}}, v \in Values}
Keys == {"id", "token", "x"}
Members(T) == {m \in Seqs(Keys \X T, 2) : Len(m) = 2 => m[1][1] # m[2][1]}
Str == [scalar |-> Value(7, 0), type |-> "str"]
Num == [scalar |-> Value(2, 0), type |-> "int"]
Deep1 == {Str, [obj |-> <<>>]} \cup {[obj |-> <<<<k, v>>>>] : k \in Keys, v \in {Str, Num}}
           \cup {[obj |-> <<<<"x", Num>>, <<k, Str>>>>] : k \in {"id", "token"}}
           \cup {[arr |-> s] : s \in {<<>>, <<Num, Num, Str>>, <<Num, Num, Num, Str>>}}
Deep2 == Deep1 \cup {[obj |-> m] : m \in Members(Deep1)} \cup {[arr |-> s] : s \in Seqs(Deep1, 2)}
Deep3 == Deep2 \cup {[obj |-> <<<<k, v>>>>] : k \in {"id", "x"}, v \in Deep2} \cup {[arr |-> <<v>>] : v \in Deep2}
MaskInputs == [of : {"mask"}, v : {Value(k, p) : k \in 3..14, p \in 0..3} \cup {Value(0, 0), Value(2, 1)}]
RedactInputs ==
  [of : {"redact"},
   text : Seqs({p \in [name : {""}, shapes : {{}, {"token"}, {"bearer", "json"}, {"token", "form", "extra"}},
                       value : Values] : "token" \in p.shapes => ~M!isMasked(p.value)}, 2)]
SecretInputs ==
  [of : {"secrets"}, h : UNION {{(name :> <<v>>) : v \in HeaderValues(name)} :
                                 name \in {"cookie", "set-cookie", "authorization", "x-api-key", "x"}}]
SummaryInputs == [of : {"summary"}, v : Deep3, m : BOOLEAN]
FormInputs == [of : {"form"}, p : Seqs(Keys \X Values, 2), m : BOOLEAN]

\* package rules.
MCIndex == ("0" :> 0) @@ ("1" :> 1)
MCPaths == <<<<"0">>, <<"1">>, <<"a">>, <<"a", "0">>, <<"a", "1">>, <<"a", "b">>, <<"b">>>>
E == INSTANCE Rules WITH Exact <- 8, Index <- MCIndex, PathOrder <- MCPaths

Scalar(v) == [scalar |-> v]
Docs ==
  {[empty |-> TRUE], [text |-> "x"], E!Null, Int1, [arr |-> <<>>], [arr |-> <<Int1>>],
   [arr |-> <<Int1, [obj |-> [a |-> Int1]]>>], [obj |-> <<>>],
   [obj |-> [a |-> Int1, b |-> Scalar(2)]], [obj |-> [a |-> [obj |-> [b |-> Int1]]]],
   [obj |-> [a |-> [arr |-> <<Int1>>], b |-> Scalar(9)]], [arr |-> <<Scalar(11), Scalar(12)>>],
   [obj |-> [a |-> E!Null, b |-> [arr |-> <<Scalar(13)>>]]]}
Patches ==
  UNION {[P -> {Scalar(8), [obj |-> [b |-> Scalar(7)]]}] :
           P \in {P \in SUBSET Range(MCPaths) : Cardinality(P) \in 1..2}}
NoMatch == [host |-> <<>>, path |-> <<>>, method |-> {}, scheme |-> "", header |-> {}, status |-> Nothing, phase |-> {}]
Errors == [neg |-> FALSE, spans |-> {<<400, 499>>}]
NotOk == [neg |-> TRUE, spans |-> {<<200, 299>>}]
Specs ==
  [id : {1}, priority : {0}, created : {0},
   match : [host : {<<>>}, path : {<<>>}, method : {{}}, scheme : {""}, header : {{}}, status : {Nothing, Errors},
            phase : SUBSET E!Both],
   actions : Seqs([typ : {"delay", "mock", "redirect", "throttle", "nope"}, on : {"", "request", "response"},
                  args : BOOLEAN], 2)]
SetX == [typ |-> "set_header", on |-> "", args |-> TRUE, name |-> "X", value |-> "1"]
Actions ==
  {SetX} \cup {("args" :> TRUE) @@ a : a \in {[typ |-> "remove_header", on |-> "", name |-> "X"],
   [typ |-> "rewrite_body", on |-> "", patch |-> (<<"a", "b">> :> Scalar(3))],
   [typ |-> "mock", on |-> ""], [typ |-> "mock", on |-> "response"],
   [typ |-> "breakpoint", on |-> "", drop |-> TRUE], [typ |-> "mock_every_n", on |-> "", tick |-> FALSE],
   [typ |-> "redirect", on |-> "", upstream |-> "up", scheme |-> "https", prefix |-> <<"p">>],
   [typ |-> "tag", on |-> "", tag |-> "t"], [typ |-> "set_query", on |-> "", name |-> "q", value |-> 1]}}
Matches ==
  {NoMatch, [NoMatch EXCEPT !.path = <<"/">>], [NoMatch EXCEPT !.header = {"X"}], [NoMatch EXCEPT !.scheme = "https"], [NoMatch EXCEPT !.status = NotOk]}
ARule(id, prio, m, acts) == [id |-> id, priority |-> prio, created |-> 3 - id, match |-> m, actions |-> acts]
RuleSets ==
  {rs \in {{ARule(1, 0, m1, a), ARule(2, p, m2, <<b>>)} :
             m1 \in Matches, m2 \in Matches, p \in 0..1, a \in {<<x, SetX>> : x \in Actions}, b \in Actions} :
     \A r \in rs : E!Compiles(r)}
Exchange(enc, doc, read, sent) ==
  LET b == [enc |-> enc, doc |-> doc]
      h == ("Content-Length" :> b) @@ (IF enc = "" THEN <<>> ELSE ("Content-Encoding" :> enc))
  IN  [host |-> <<"h">>, path |-> <<"/", "v">>, scheme |-> "http", sent |-> sent, url |-> "o", query |-> <<>>, method |-> "GET",
       side |-> [header |-> h, mirror |-> h, body |-> b, length |-> b, ref |-> enc, read |-> read],
       tags |-> {}, rules |-> <<>>, stop |-> Nothing]
Exchanges ==
  {Exchange(enc, doc, "all", <<>>) : enc \in {"", "gzip"}, doc \in {[text |-> "x"], [obj |-> [a |-> E!Null]]}}
    \cup {Exchange("br", E!Null, "all", "X" :> "1"), Exchange("gzip", E!Null, "big", <<>>)}
PatchInputs == [of : {"patch"}, doc : Docs, patch : Patches]
SpecInputs == [of : {"spec"}, spec : Specs]
GlobInputs == [of : {"glob"}, p : Seqs({"a", "?", "*"}, 3), s : Seqs({"a", "b"}, 3)]
EvaluateInputs ==
  [of : {"evaluate"}, rules : {{E!compileRule(r) : r \in rs} : rs \in RuleSets}, phase : E!Both, x : Exchanges]

\* package store: filters, pages, search, ids.
MCConfusable == (100 :> 1) @@ (101 :> 0)
Q == INSTANCE Query WITH SearchTextCap <- 4, Base <- 4, Width <- 4, Confusable <- MCConfusable

Stored(id, status) ==
  [id |-> id, start |-> id, method |-> IF id = 2 THEN "POST" ELSE "GET", status |-> status, bytes |-> id, error |-> FALSE,
   tags |-> {}, rules |-> {}, state |-> "done", replay |-> FALSE, words |-> IF id \in {1, 3} THEN {"w"} ELSE {}]
Rings ==
  {s \in Seqs({Stored(id, status) : id \in 1..4, status \in {0, 200}}, 3) :
     \A i, j \in DOMAIN s : i # j => s[i].id # s[j].id}
NoFilter == [among |-> << >>, sinceID |-> Nothing, since |-> Nothing, until |-> Nothing, status |-> Nothing, minBytes |-> Nothing,
        hasError |-> FALSE, tag |-> Nothing, rule |-> Nothing, state |-> Nothing, q |-> Nothing]
PageInputs ==
  [of : {"pages"}, ring : Rings, limit : 1..2,
   f : {NoFilter, [NoFilter EXCEPT !.q = "w"], [NoFilter EXCEPT !.status = Errors], [NoFilter EXCEPT !.sinceID = 1],
       [NoFilter EXCEPT !.among = "method" :> {"GET"}]}]
SearchInputs ==
  [of : {"search"}, b : [kept : BOOLEAN, textual : BOOLEAN, valid : BOOLEAN, broken : BOOLEAN, bytes : Texts(3)]]
HostInputs == [of : {"host"}, p : Seqs({"a", "b", "*"}, 4), h : Seqs({"a", "b"}, 4)]
ShortInputs == [of : {"short"}, id : 0..200]

\* package har.
MCMedia == ("json" :> "json") @@ ("png" :> "img")
MCPort == ("http" :> 80) @@ ("https" :> 443)
\* 1.001 * 1000000 is 1000999.9999999999.
MCShort == {1000 * k : k \in {1001, 1003, 1005, 1009, 2010, 2018, 4020}}
H == INSTANCE Har WITH MediaClasses <- MCMedia, DefaultPort <- MCPort, Short <- MCShort

Ref(size, hash, mime, enc, truncated) ==
  [size |-> size, captured |-> 0, hash |-> hash, mime |-> mime, encoding |-> enc, truncated |-> truncated]
HarBodies == [layer : {""}, content : {<<"a">>, <<"a", "b">>, <<"a", "xff">>}]
               \cup [layer : {"gzip"}, content : {<<>>, <<"a">>, <<"a", "xff">>}]
Refs == {H!NoBody, Ref(3, Nothing, "json", "", TRUE)}
          \cup {Ref(Len(H!Bytes(b)), b, m, e, FALSE) : b \in HarBodies, e \in {"", "gzip"}, m \in {"", "json", "png"}}
Began == 40000300
HarFlow ==
  [method |-> "GET", kind |-> "http", scheme |-> "https", host |-> "h", port |-> 443, path |-> <<"/", "p">>, query |-> <<>>, proto |-> "h1",
   upProto |-> "", client |-> "c", status |-> 200, reqH |-> <<>>, respH |-> <<>>,
   t |-> [start |-> Began, dns |-> 0, connected |-> 0, tls |-> 0, wrote |-> 0, first |-> 0, end |-> 0],
   reqBody |-> H!NoBody, respBody |-> H!NoBody, state |-> "done", session |-> "s", error |-> "", tags |-> <<>>,
   replay |-> FALSE]
HarHeaders ==
  {<<>>, ("Content-Type" :> <<"json">>), ("Content-Type" :> <<"png">>) @@ ("Auth" :> <<"a", "b">>), (":path" :> <<"x">>)}
After(ds) == {0} \cup {Began + d : d \in ds}
HarTimes ==
  [start : {Began}, dns : After({1001499}), connected : After({2010700}), tls : After({3019200}),
   wrote : After({1100400, 4020200}), first : After({2100000, 5023200}), end : After({499, 6028200}) \cup {Began - 200}]
PathPieces == {"p", "?", "#", " ", "%20", "%41", "%", "ctl"}
HarOptions == [cap : {-1, 1, 9}, secret : {{}, {"Auth"}}, words : {{}, {"b"}}, redact : {{}, {<<"a">>, <<"a", "b">>}}]
HarInputs ==
  [of : {"har"}, opts : {[cap |-> 9, secret |-> {}, words |-> {}, redact |-> {}]},
   f : {[HarFlow EXCEPT !.t = t] : t \in HarTimes}
     \cup {[HarFlow EXCEPT !.method = m, !.kind = k, !.scheme = s, !.host = h, !.port = p, !.upProto = u, !.error = e] :
             m \in {"", "POST"}, k \in {"http", "ws", "tunnel"}, s \in {"http", "https", "ftp"},
             h \in {"h", "::1"}, p \in {0, 80, 8080}, u \in {"", "h2"}, e \in {"", "e"}}
     \cup {[HarFlow EXCEPT !.path = <<"/">> \o p, !.query = q, !.scheme = s] :
             p \in Seqs(PathPieces, 2), q \in {<<>>, <<"q">>, <<"#", "%">>, <<"?", "%">>}, s \in {"https", ""}}]
  \cup
  [of : {"har"}, opts : HarOptions,
   f : {[HarFlow EXCEPT !.reqBody = r, !.respH = h] : r \in Refs, h \in HarHeaders}
     \cup {[HarFlow EXCEPT !.respBody = r, !.respH = h, !.reqH = h] : r \in Refs, h \in HarHeaders}
     \cup {[HarFlow EXCEPT !.reqBody = p[1], !.respBody = p[2]] : p \in {p \in Refs \X Refs : p[1].hash = p[2].hash}}]

Inputs ==
  UNION {DigestInputs, EventInputs, RequestInputs, DetectInputs, TextDiffInputs, JsonDiffInputs,
         HeaderDiffInputs, CutInputs, SchemaInputs, StreamInputs, DecodeInputs, RenderInputs, MaskInputs,
         RedactInputs, SecretInputs, SummaryInputs, FormInputs, PatchInputs, SpecInputs, GlobInputs,
         EvaluateInputs, PageInputs, SearchInputs, HostInputs, ShortInputs, HarInputs}

-----------------------------------------------------------------------------
NoStream ==
  /\ answer = "" /\ body = "" /\ head = "" /\ lanes = "" /\ tail = "" /\ got = "" /\ spoilt = 0 /\ over = TRUE

InspectInit ==
  \/ part = "stream" /\ input = "" /\ S!Init
  \/ part = "input" /\ input \in Inputs /\ NoStream

NoInspect == part = "none" /\ input = "" /\ NoStream

InspectNext == part = "stream" /\ S!Next /\ UNCHANGED <<part, input>>

-----------------------------------------------------------------------------
(* Properties. *)

\* A streamed answer that arrived whole is told exactly as the same answer in
\* one piece, whatever its choices and items were interleaved (explain.go:
\* Final is "the response as the non-streaming API would have returned it").
SameDigest == part = "stream" => S!SameDigest

\* A digest that reports no error and is not marked partial is of the whole
\* answer, and one of a stream that was cut off holds nothing that was not
\* sent (explain.go, the reassemblers of the four APIs).
DigestHonest == part = "stream" => S!LossIsTold /\ S!CutIsPrefix

\* An input that is not of one of these functions is another property's.
For(kinds) == part = "input" /\ input.of \in kinds

\* What a digest shows is what was asked for, or told of in an error, and within its size; a stream cut
\* anywhere yields the events before the cut; a conversation is summarised the
\* same, and a documented call recognised, whichever the API (package explain).
LlmDigestIsTrue ==
  For({"digest", "events", "request", "detect"}) =>
    CASE input.of = "digest"  -> G!DigestTrue(input.r, input.inc, input.max)
      [] input.of = "events"  -> G!EventsTrue(input.lines)
      [] input.of = "request" -> G!SameRequest(input.c)
      [] input.of = "detect"  -> G!DetectTrue(input.provider, input.call)

\* What a flow is shown as: a diff, applied, turns one side into the other
\* (diff.go); a body is shown whole or said not to be, cut between runes, decoded
\* to what was encoded or a prefix of it, and a schema admits the value it was
\* drawn from (truncate.go, sse.go, schema.go, decode.go, render.go); what is
\* known for a secret is masked where it stands whole, in a header and in a text, and a
\* summary is within its bounds and true of the body (redact.go, summary.go).
ViewIsTrue ==
  For({"text", "json", "header", "cut", "schema", "sse", "decode", "render",
       "mask", "redact", "secrets", "summary", "form"}) =>
    CASE input.of = "text"   -> F!TextDiffTrue(input.a, input.b, input.max)
      [] input.of = "json"   -> F!JsonDiffTrue(input.a, input.b, <<"a", "b">>, 2)
      [] input.of = "header" -> F!HeaderDiffTrue(input.a, input.b, input.ign)
      [] input.of = "cut"    -> /\ V!CutTrue(input.b, input.budget, V!headTail(input.b, input.budget))
                                /\ V!CutTrue(input.b, input.budget, V!headOnly(input.b, input.budget))
      [] input.of = "schema" -> V!SchemaTrue(input.v)
      [] input.of = "sse"    -> V!StreamTrue(input.lines, input.max)
      [] input.of = "decode" -> V!DecodeTrue(input.enc, input.b, input.cut, input.limit)
      [] input.of = "render" ->
           V!RenderTrue(input.mode,
             [wire |-> V!Wrap(V!splitEncodings(input.enc), input.b, input.cut), encoding |-> input.enc,
              class |-> input.class, multipart |-> input.mp, says |-> input.says],
             input.path, input.limit, input.max,
             {byte \in ToSet(TextOf(input)) : byte[1] \in input.secret})
      [] input.of = "mask"    -> M!MaskTrue(input.v)
      [] input.of = "redact"  -> M!RedactTrue(input.text)
      [] input.of = "secrets" -> M!HeadersTrue(input.h, {"cookie", "set-cookie", "authorization", "x-api-key"})
      [] input.of = "summary" -> M!NotableTrue(input.v, input.m) /\ M!SummaryTrue(input.v, input.m)
      [] input.of = "form"    -> M!FormTrue(input.p, input.m)

\* A rule that compiles can be applied in its phase, a glob matches what its
\* pattern means, a patch sets what it names and nothing else but
\* for numbers no float64 has, and rules are
\* evaluated in the order of priority up to the first that stops (package rules).
RulesMean ==
  For({"patch", "spec", "glob", "evaluate"}) =>
    CASE input.of = "patch"    -> E!PatchTrue(input.doc, input.patch)
      [] input.of = "spec"     -> E!CompileTrue(input.spec)
      [] input.of = "glob"     -> E!GlobTrue(input.p, input.s)
      [] input.of = "evaluate" -> E!EvaluateTrue(input.rules, input.phase, {1, 2}, input.x, 404)

\* What is kept of the traffic can be had back: page after page, a query yields
\* every flow that matches once, newest first; a search sees the text it may; a
\* short id survives being misread; and a flow that is exported is imported as
\* the same exchange, again and again, as far as an address that is written decoded and
\* times that are rounded allow, and what is masked in its headers and texts stays masked
\* (packages store, flow and har).
RecordIsTrue ==
  For({"pages", "search", "host", "short", "har"}) =>
    CASE input.of = "pages"  -> Q!PagesTrue(input.ring, input.f, input.limit)
      [] input.of = "search" -> Q!TextTrue(input.b)
      [] input.of = "host"   -> Q!HostGlobTrue(input.p, input.h)
      [] input.of = "short"  -> Q!ShortTrue(input.id)
      [] input.of = "har"    -> /\ H!RoundTripTrue(input.f, input.opts) /\ H!StableTrue(input.f, input.opts)
                                /\ H!MaskedTrue(input.f, input.opts)
=============================================================================
