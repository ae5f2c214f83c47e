---------------------------------- MODULE View ----------------------------------
(***************************************************************************)
(* Showing a body (internal/view): its Content-Encoding removed, its kind  *)
(* found out, cut to a budget at the boundaries of runes, or its schema    *)
(* inferred.                                                               *)
(*                                                                         *)
(* A byte is <<r, n>>, byte n of rune r of the text; a rune begins at its  *)
(* first.  A JSON value is [str |-> s], [int |-> n], [float |-> n],        *)
(* [bool |-> b], [null |-> TRUE], [arr |-> sequence] or [obj |-> function  *)
(* from keys].                                                             *)
(***************************************************************************)
EXTENDS Naturals, Sequences, FiniteSets, SequencesExt, TLC

CONSTANTS
  UTFMax,                        \* bytes of the longest rune
  Formats,                       \* the strings of a format, and which it is
  Short,                         \* the strings an enum may have
  Names,                         \* keys, in their order in an object
  schemaMaxKeys, schemaMaxElems, schemaMaxDepth, enumMaxValues,
  Nothing                        \* nil

Smaller(m, n) == IF m < n THEN m ELSE n
Put(f, k, v) == (k :> v) @@ f
Get(f, k, default) == IF k \in DOMAIN f THEN f[k] ELSE default

-----------------------------------------------------------------------------
(* Cuts (truncate.go).                                                     *)

RuneStart(byte) == byte[2] = 1

\* The rune boundary next to n, downwards or upwards, as far as a rune can be.
cutHead(b, n) ==
  IF Len(b) <= n THEN b
  ELSE SubSeq(b, 1, CHOOSE k \in 0..n :
         /\ k = 0 \/ k + UTFMax = n \/ RuneStart(b[k + 1])
         /\ \A m \in (k + 1)..n : ~RuneStart(b[m + 1]))

cutTail(b, n) ==
  IF n <= 0 THEN <<>>
  ELSE IF Len(b) <= n THEN b
  ELSE SubSeq(b, CHOOSE k \in (Len(b) - n + 1)..(Len(b) + 1) :
         /\ k = Len(b) + 1 \/ k = Len(b) - n + 1 + UTFMax \/ RuneStart(b[k])
         /\ \A m \in (Len(b) - n + 1)..(k - 1) : ~RuneStart(b[m]),
         Len(b))

Cut(head, tail, b) ==
  [head |-> head, tail |-> tail, skipped |-> Len(b) - Len(head) - Len(tail),
   truncated |-> Len(head) + Len(tail) < Len(b)]

headTail(b, budget) ==
  IF Len(b) <= budget THEN Cut(b, <<>>, b)
  ELSE LET headN == (budget * 3) \div 4 IN Cut(cutHead(b, headN), cutTail(b, budget - headN), b)

headOnly(b, budget) == IF Len(b) <= budget THEN Cut(b, <<>>, b) ELSE Cut(cutHead(b, budget), <<>>, b)

-----------------------------------------------------------------------------
(* Encodings (decode.go).  What is on the wire is [bytes |-> plain bytes]  *)
(* or [coding |-> c, of |-> what is encoded, cut |-> whether its end, and  *)
(* with it the last byte of what is encoded, is missing].                  *)

Codings == {"gzip", "deflate", "br", "zstd"}

Size(wire) == IF "bytes" \in DOMAIN wire THEN Len(wire.bytes) ELSE 1
Plain(wire) == "bytes" \in DOMAIN wire

\* Names of no coding are dropped.
splitEncodings(encoding) == SelectSeq(encoding, LAMBDA c : c \notin {"", "identity"})

readLimited(wire, limit) ==
  LET of == wire.of
      got == IF Plain(of) /\ wire.cut /\ of.bytes # <<>> THEN [bytes |-> Front(of.bytes)] ELSE of
  IN
  IF Size(got) > limit THEN [out |-> [bytes |-> SubSeq(got.bytes, 1, limit)], err |-> "limit"]
  ELSE [out |-> got, err |-> IF wire.cut THEN "corrupt" ELSE ""]

decodeOne(coding, wire, limit) ==
  CASE coding \notin Codings -> [out |-> [bytes |-> <<>>], err |-> "unsupported"]
    [] coding \in Codings /\ (Plain(wire) \/ Get(wire, "coding", "") # coding) ->
         [out |-> [bytes |-> <<>>], err |-> "corrupt"]
    [] OTHER -> readLimited(wire, limit)

Decode(encoding, wire, limit) ==
  FoldRight(LAMBDA coding, r : IF r.err # "" THEN r ELSE decodeOne(coding, r.out, limit),
            splitEncodings(encoding), [out |-> wire, err |-> ""])

-----------------------------------------------------------------------------
(* Schemas (schema.go).                                                    *)

newShape ==
  [seen |-> 0, kinds |-> {}, deep |-> FALSE, keys |-> << >>, objects |-> 0, extraKeys |-> FALSE,
   elem |-> Nothing, strCount |-> 0, strShort |-> 0, strs |-> {}, formats |-> << >>]

kindOf(v) == CHOOSE k \in DOMAIN v : TRUE
detectFormat(str) == Get(Formats, str, "")

mergeStr(s, str) ==
  LET f == detectFormat(str)
      t == [s EXCEPT !.strCount = @ + 1]
  IN
  IF f # "" THEN [t EXCEPT !.formats = Put(@, f, Get(@, f, 0) + 1)]
  ELSE IF str \notin Short THEN t
  ELSE [t EXCEPT !.strShort = @ + 1,
                 !.strs = IF Cardinality(@) <= enumMaxValues THEN @ \cup {str} ELSE @]

RECURSIVE merge(_, _, _)
merge(shape, v, depth) ==
  LET s == [shape EXCEPT !.seen = @ + 1, !.kinds = @ \cup {kindOf(v)}]
      member(t, k) ==
        IF k \notin DOMAIN v.obj THEN t
        ELSE IF k \notin DOMAIN t.keys /\ Cardinality(DOMAIN t.keys) >= schemaMaxKeys
        THEN [t EXCEPT !.extraKeys = TRUE]
        ELSE [t EXCEPT !.keys = Put(@, k, merge(Get(@, k, newShape), v.obj[k], depth + 1))]
      element(e, x) == merge(e, x, depth + 1)
  IN
  CASE kindOf(v) = "str" -> mergeStr(s, v.str)
    [] kindOf(v) = "obj" ->
         LET t == [s EXCEPT !.objects = @ + 1] IN
         IF depth >= schemaMaxDepth THEN [t EXCEPT !.deep = TRUE] ELSE FoldLeft(member, t, Names)
    [] kindOf(v) = "arr" ->
         IF depth >= schemaMaxDepth THEN [s EXCEPT !.deep = TRUE]
         ELSE [s EXCEPT !.elem = FoldLeft(element, IF @ = Nothing THEN newShape ELSE @,
                                   SubSeq(v.arr, 1, Smaller(schemaMaxElems, Len(v.arr))))]
    [] OTHER -> s

renderStr(s) ==
  LET all == {f \in DOMAIN s.formats : s.formats[f] = s.strCount} IN
  IF s.strCount >= 2 /\ s.strShort = s.strCount /\ Cardinality(s.strs) <= enumMaxValues
  THEN [enum |-> s.strs]
  ELSE IF all # {} THEN [format |-> CHOOSE f \in all : TRUE] ELSE [any |-> "str"]

\* A schema is the set of its alternatives.
RECURSIVE render(_)
render(s) ==
  LET has(k, part) == IF k \in s.kinds THEN {part} ELSE {} IN
  has("obj", IF s.deep /\ s.keys = << >> THEN [any |-> "obj"]
             ELSE [keys |-> [k \in DOMAIN s.keys |-> render(s.keys[k])],
                   optional |-> {k \in DOMAIN s.keys : s.keys[k].seen < s.objects},
                   more |-> s.extraKeys])
    \cup has("arr", IF s.deep /\ s.elem = Nothing THEN [any |-> "arr"]
                    ELSE [elem |-> IF s.elem = Nothing THEN {} ELSE render(s.elem)])
    \cup has("str", renderStr(s))
    \cup (IF "float" \in s.kinds THEN {[any |-> "float"]} ELSE has("int", [any |-> "int"]))
    \cup has("bool", [any |-> "bool"]) \cup has("null", [any |-> "null"])

schemaOf(v) == render(merge(newShape, v, 0))

-----------------------------------------------------------------------------
(* Event streams (sse.go).  A line is <<field, value>>; "" is a blank one, *)
(* ":" a comment.                                                          *)

sseFresh == [events |-> <<>>, name |-> "", data |-> <<>>, id |-> "", have |-> FALSE]

flush(p) ==
  IF ~p.have THEN p
  ELSE [sseFresh EXCEPT !.events = Append(p.events,
         [name |-> IF p.name = "" THEN "message" ELSE p.name, data |-> p.data, id |-> p.id])]

sseLine(maxSSEEvents, p, line) ==
  IF Len(p.events) >= maxSSEEvents THEN p
  ELSE CASE line[1] = "" -> flush(p)
         [] line[1] = "event" -> [p EXCEPT !.name = line[2], !.have = TRUE]
         [] line[1] = "data" -> [p EXCEPT !.data = Append(@, line[2]), !.have = TRUE]
         [] line[1] = "id" -> [p EXCEPT !.id = line[2], !.have = TRUE]
         [] line[1] = "retry" -> [p EXCEPT !.have = TRUE]
         [] OTHER -> p

parseSSE(lines, maxSSEEvents) ==
  flush(FoldLeft(LAMBDA p, line : sseLine(maxSSEEvents, p, line), sseFresh, lines)).events

-----------------------------------------------------------------------------
(* Rendering (render.go).  A body is [wire, encoding, class, multipart,    *)
(* says]: says is what its text is, "json", "stream" or "plain", or that   *)
(* it is not text, "invalid".                                              *)

Modes == {"summary", "schema", "truncated", "pretty", "raw"}

isBinary(body) == body.class \in {"img", "font", "media", "bin"} \/ body.says = "invalid"

detectKind(body) ==
  CASE body.class = "json" -> IF body.says = "json" THEN "json" ELSE "text"
    [] body.class \in {"sse", "html", "xml", "js", "css"} -> body.class
    [] body.class = "form" -> IF body.multipart THEN "text" ELSE "form"
    [] OTHER -> CASE body.says = "json" -> "json" [] body.says = "stream" -> "sse" [] OTHER -> "text"

Failed(why) == [err |-> why, notes |-> {}, out |-> [nothing |-> TRUE]]
Rendered(notes, out) == [err |-> "", notes |-> notes, out |-> out]

\* No byte of a text: what JSON is indented with, and a mask.
Indent == <<0, 1>>
MaskMark == <<0, 0>>

\* RedactText over what is shown: a secret is recognised where it stands whole.  The
\* marker at a cut is the mark of a masked value, so a secret that goes on behind it is not.
RedactPart(part, secret) ==
  IF secret = {} \/ ~(secret \subseteq ToSet(part)) THEN part
  ELSE LET at == CHOOSE k \in DOMAIN part : part[k] \in secret /\ \A j \in 1..(k - 1) : part[j] \notin secret
           rest == SelectSeq(SubSeq(part, at, Len(part)), LAMBDA x : x \notin secret)
       IN SubSeq(part, 1, at - 1) \o <<MaskMark>> \o rest

\* Mutant: only what stands before the cut is looked through.
RedactHead(c, secret) == [c EXCEPT !.head = RedactPart(@, secret)]

RedactText(c, secret) == [c EXCEPT !.head = RedactPart(@, secret), !.tail = RedactPart(@, secret)]

\* Indented JSON is longer; the lines of a form have their secrets masked before any cut.
prettyBytes(kind, b, secret) ==
  CASE kind = "json" -> [n \in DOMAIN b |-> Indent] \o b
    [] kind = "form" -> RedactPart(b, secret)
    [] OTHER -> b

content(mode, kind, b, maxBytes, secret) ==
  CASE kind = "string" -> IF mode = "raw" THEN headOnly(b, maxBytes) ELSE headTail(b, maxBytes)
    [] kind # "string" /\ mode = "truncated" ->
         LET p == prettyBytes("json", b, secret) IN
         headTail(IF kind = "json" /\ Len(p) <= 4 * maxBytes THEN p ELSE b, maxBytes)
    [] kind # "string" /\ mode = "pretty" -> headTail(prettyBytes(kind, b, secret), maxBytes)
    [] kind # "string" /\ mode = "raw" -> headOnly(b, maxBytes)
    [] OTHER -> Nothing

\* path: Nothing, or what is found there, [kind, bytes], or "absent".  secret: the bytes
\* of the text that fit a pattern of RedactText (none when secrets are revealed).
Render(mode, body, path, limit, maxBytes, secret) ==
  LET d == Decode(body.encoding, body.wire, limit)
      empty == Plain(d.out) /\ d.out.bytes = <<>>
      told == IF d.err = "" THEN {} ELSE {"decode error"}
      kind == detectKind(body)
      c == IF path = Nothing THEN content(mode, kind, d.out.bytes, maxBytes, secret)
           ELSE content(mode, path.kind, path.bytes, maxBytes, secret)
  IN
  IF mode \notin Modes THEN Failed("mode")
  ELSE IF d.err # "" /\ empty THEN Failed("decode")
  ELSE IF isBinary(body) \/ ~Plain(d.out) THEN Rendered(told, [binary |-> TRUE])
  ELSE IF empty THEN Rendered(told, [empty |-> TRUE])
  ELSE IF path # Nothing /\ kind # "json" THEN Failed("not JSON")
  ELSE IF path = [absent |-> TRUE] THEN Failed("path")
  ELSE IF c = Nothing THEN Rendered(told, [digest |-> mode])
  ELSE Rendered(told \cup (IF c.truncated THEN {"truncated"} ELSE {}), RedactText(c, secret))

-----------------------------------------------------------------------------
(* What a view promises.                                                   *)

\* No rune is shown in part, nothing is shown twice or moved, what is left out is
\* what the marker says, and a budget is kept, and used but for a rune at each cut.
CutTrue(b, budget, c) ==
  LET whole(s) == \A k \in DOMAIN s : \A m \in DOMAIN b :
                    b[m][1] = s[k][1] => b[m] \in ToSet(s)
      shown == Len(c.head) + Len(c.tail)
  IN
  /\ IsPrefix(c.head, b) /\ IsSuffix(c.tail, b) /\ shown + c.skipped = Len(b)
  /\ whole(c.head) /\ whole(c.tail)
  /\ c.truncated <=> Len(b) > budget
  /\ c.truncated => shown <= budget /\ shown + 2 * (UTFMax - 1) >= budget

Blocks(lines) ==
  LET ends == {n \in 1..(Len(lines) + 1) : n = Len(lines) + 1 \/ lines[n][1] = ""}
      at == SetToSortSeq(ends, <)
      block(k) == SelectSeq(SubSeq(lines, IF k = 1 THEN 1 ELSE at[k - 1] + 1, at[k] - 1),
                            LAMBDA l : l[1] \in {"event", "data", "id", "retry"})
  IN SelectSeq([k \in DOMAIN at |-> block(k)], LAMBDA blk : blk # <<>>)

\* An event is what lies between blank lines: its data are its lines', its name is
\* the last one given.
StreamTrue(lines, maxSSEEvents) ==
  LET blocks == Blocks(lines)
      of(blk, field) == SelectSeq(blk, LAMBDA l : l[1] = field)
      values(blk, field) == LET f == of(blk, field) IN [k \in DOMAIN f |-> f[k][2]]
      lastOr(s, default) == IF s = <<>> THEN default ELSE Last(s)
  IN parseSSE(lines, maxSSEEvents)
       = [k \in 1..Smaller(Len(blocks), maxSSEEvents) |->
           [name |-> lastOr(values(blocks[k], "event"), "message"),
            data |-> values(blocks[k], "data"), id |-> lastOr(values(blocks[k], "id"), "")]]

\* A schema admits a value.  Of an array it promises nothing past schemaMaxElems.
RECURSIVE Admits(_, _)
Admits(schema, v) ==
  \E p \in schema :
    \/ p = [any |-> kindOf(v)]
    \/ kindOf(v) = "int" /\ p = [any |-> "float"]
    \/ kindOf(v) = "str" /\ "enum" \in DOMAIN p /\ v.str \in p.enum
    \/ kindOf(v) = "str" /\ "format" \in DOMAIN p /\ p.format = detectFormat(v.str)
    \/ /\ kindOf(v) = "arr" /\ "elem" \in DOMAIN p
       /\ \A i \in DOMAIN v.arr : i <= schemaMaxElems => Admits(p.elem, v.arr[i])
    \/ /\ kindOf(v) = "obj" /\ "keys" \in DOMAIN p
       /\ DOMAIN v.obj \subseteq DOMAIN p.keys \/ p.more
       /\ DOMAIN p.keys \ p.optional \subseteq DOMAIN v.obj
       /\ \A k \in DOMAIN v.obj \cap DOMAIN p.keys : Admits(p.keys[k], v.obj[k])

\* The schema of a body admits the body; and says of a list's objects that they may
\* lack a key, or of its strings that they are of a few, only when it is so.
SchemaTrue(v) ==
  LET shown == IF kindOf(v) = "arr" THEN SubSeq(v.arr, 1, Smaller(schemaMaxElems, Len(v.arr))) ELSE <<>>
      objects == {x \in ToSet(shown) : kindOf(x) = "obj"}
      parts == UNION {p.elem : p \in {p \in schemaOf(v) : "elem" \in DOMAIN p}}
  IN
  /\ Admits(schemaOf(v), v)
  /\ \A p \in parts :
       /\ "keys" \in DOMAIN p => \A k \in p.optional : \E x \in objects : k \notin DOMAIN x.obj
       /\ "enum" \in DOMAIN p => \A e \in p.enum : [str |-> e] \in ToSet(shown)

RECURSIVE Wrap(_, _, _)
Wrap(codings, bytes, cut) ==
  IF codings = <<>> THEN [bytes |-> bytes]
  ELSE [coding |-> Last(codings), of |-> Wrap(Front(codings), bytes, FALSE), cut |-> cut]

\* A body is decoded to what was encoded, or to a prefix of it of at most the limit
\* with an error; a cut on the outside of two codings leaves the inner one on.
DecodeTrue(encoding, bytes, cut, limit) ==
  LET codings == splitEncodings(encoding)
      d == Decode(encoding, Wrap(codings, bytes, cut), limit)
      known == ToSet(codings) \subseteq Codings
  IN
  /\ d.err = "" <=> (codings = <<>> \/ (known /\ ~cut /\ Len(bytes) <= limit))
  /\ d.err = "" => d.out = [bytes |-> bytes]
  /\ d.err # "" /\ Plain(d.out) => IsPrefix(d.out.bytes, bytes) /\ Len(d.out.bytes) <= limit
  /\ d.err = "limit" => Len(d.out.bytes) = limit
  /\ d.err # "" /\ ~Plain(d.out) => Len(codings) > 1

\* What is rendered is whole, or said not to be; what is no text never is.  A secret that
\* is shown whole is masked, before or after a cut, and one of which a part is shown was
\* cut; nothing else of the text is touched by it.
RenderTrue(mode, body, path, limit, maxBytes, secret) ==
  LET r == Render(mode, body, path, limit, maxBytes, secret)
      d == Decode(body.encoding, body.wire, limit)
      text(part) == SelectSeq(part, LAMBDA x : x \notin secret \cup {MaskMark, Indent})
      shown == ToSet(r.out.head) \cup ToSet(r.out.tail)
  IN
  /\ r.err = "" /\ d.err # "" => "decode error" \in r.notes
  /\ "head" \in DOMAIN r.out =>
            /\ body.says # "invalid" /\ body.class \notin {"img", "font", "media", "bin"}
            /\ r.out.skipped > 0 <=> "truncated" \in r.notes
            /\ Len(text(r.out.head)) + Len(text(r.out.tail)) <= maxBytes
            /\ secret # {} => ~(secret \subseteq ToSet(r.out.head)) /\ ~(secret \subseteq ToSet(r.out.tail))
            /\ secret \cap shown # {} /\ d.err = "" => "truncated" \in r.notes
            /\ ~r.out.truncated => text(r.out.head) = text(IF path = Nothing THEN d.out.bytes ELSE path.bytes)
  /\ r.err \in {"not JSON", "path"} => path # Nothing
  /\ mode \in {"truncated", "pretty", "raw"} /\ r.err = "" => "digest" \notin DOMAIN r.out
=============================================================================
