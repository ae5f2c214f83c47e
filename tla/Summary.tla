-------------------------------- MODULE Summary --------------------------------
(***************************************************************************)
(* Masking and summaries (internal/view redact.go, summary.go): what is    *)
(* masked in texts and headers before they are shown, and the few lines a  *)
(* body is told in.                                                        *)
(*                                                                         *)
(* A value is [runes, prefix]: its runes, and how many of the first are a  *)
(* prefix that tells what kind of credential it is.  Ellipsis and HashMark *)
(* stand for what the code takes for the mark of a masked value; a value   *)
(* that nobody masked may have them too.                                   *)
(***************************************************************************)
EXTENDS Naturals, Sequences, FiniteSets, SequencesExt

CONSTANTS
  LongValue,          \* runes of a value that is long enough to keep some (12)
  SuffixLen,          \* runes kept at its end (4)
  summaryMaxKeys, summaryMaxNotable, summaryMaxNodes, summaryMaxDepth,
  ArraySample,        \* elements of an array that are looked at
  ShapeElems,         \* elements of an array whose types are looked at (1000)
  notableKeys, sensitiveKeys

Ellipsis == "..."
HashMark == "hash:"

-----------------------------------------------------------------------------
(* One value (Mask, isMasked).                                             *)

isMasked(v) == ToSet(v.runes) \cap {Ellipsis, HashMark} # {}

\* The hash itself is left out.
Mask(v) ==
  LET len    == Len(v.runes)
      prefix == IF v.prefix = 0 /\ len > LongValue THEN 3 ELSE v.prefix
      suffix == IF len - prefix >= 2 * SuffixLen THEN SuffixLen ELSE 0
  IN IF len = 0 THEN v
     ELSE [v EXCEPT !.runes = SubSeq(@, 1, prefix) \o <<Ellipsis>>
                                \o SubSeq(@, len - suffix + 1, len) \o <<HashMark>>]

-----------------------------------------------------------------------------
(* Texts (RedactText).  A text is a sequence of places: [name, shapes,     *)
(* value], where name is what stands before the value and shapes are the   *)
(* patterns that the value fits.                                           *)

\* In the order they are looked for.
Patterns == <<"bearer", "token", "json", "json in a string", "form", "userinfo", "line", "extra">>

\* One pattern: what it finds is masked and counted.  The shape of a token has no mark in
\* it, and is not asked for one; what is masked has it no longer.
maskGroup(st, pattern) ==
  LET hit(p) == /\ pattern \in p.shapes /\ p.value.runes # <<>>
                /\ pattern = "token" \/ ~isMasked(p.value)
  IN
  [text |-> [n \in DOMAIN st.text |->
               IF hit(st.text[n]) THEN [st.text[n] EXCEPT !.value = Mask(@), !.shapes = @ \ {"token"}]
               ELSE st.text[n]],
   n |-> st.n + Cardinality({k \in DOMAIN st.text : hit(st.text[k])})]

RedactText(text) == FoldLeft(maskGroup, [text |-> text, n |-> 0], Patterns)

-----------------------------------------------------------------------------
(* Headers (RedactHeaders).  A value of a header is a text: a scheme and   *)
(* its credentials, the pairs of a cookie, a cookie that is set and its    *)
(* attributes, or what has no name.                                        *)

Named(p) == IF p.name = "" THEN <<>> ELSE <<p.name>>
Whole(v) ==
  [runes |-> FlattenSeq([n \in DOMAIN v |-> Named(v[n]) \o v[n].value.runes]),
   prefix |-> IF v # <<>> /\ v[1].name = "" THEN v[1].value.prefix ELSE 0]

\* Mutant: a cookie without a name is let through.
maskNamedPair(p) == IF p.name = "" THEN p ELSE [p EXCEPT !.value = Mask(@)]

maskCookiePair(p) == [p EXCEPT !.value = Mask(@)]
Credentials(v) == Whole([v EXCEPT ![1].name = ""])

maskHeaderValue(name, v) ==
  CASE /\ name \in {"authorization", "proxy-authorization"}
       /\ v[1].name # "" /\ Credentials(v).runes # <<>> -> <<[v[1] EXCEPT !.value = Mask(Credentials(v))]>>
    [] name = "cookie" -> [n \in DOMAIN v |-> maskCookiePair(v[n])]
    [] name = "set-cookie" -> [v EXCEPT ![1] = maskCookiePair(@)]
    [] OTHER -> <<[name |-> "", shapes |-> {}, value |-> Mask(Whole(v))]>>

RedactHeaders(h, secretHeaders, reveal) ==
  [name \in DOMAIN h |->
     [n \in DOMAIN h[name] |->
        LET v == h[name][n] IN
        IF reveal \/ Whole(v).runes = <<>> THEN v
        ELSE IF name \notin secretHeaders THEN RedactText(v).text
        ELSE IF isMasked(Whole(v)) THEN v
        ELSE maskHeaderValue(name, v)]]

-----------------------------------------------------------------------------
(* JSON (summarizeJSON): a value is [scalar, type], [arr: values], or      *)
(* [obj: pairs <<key, value>>] in the order of the document.               *)

IsObject(v) == "obj" \in DOMAIN v
IsArray(v) == "arr" \in DOMAIN v
countElems(v) == IF IsObject(v) THEN Len(v.obj) ELSE IF IsArray(v) THEN Len(v.arr) ELSE 0
IsScalar(v) == "scalar" \in DOMAIN v
typeWord(v) == IF IsObject(v) THEN "object" ELSE IF IsArray(v) THEN "array" ELSE v.type

\* Each once, in the order they are first seen; how many of them fit a line is left out.
Keys(s) == FoldLeft(LAMBDA seen, k : IF Contains(seen, k) THEN seen ELSE Append(seen, k), <<>>, s)

arrayShape(v) ==
  LET seen  == SubSeq(v.arr, 1, IF Len(v.arr) < ShapeElems THEN Len(v.arr) ELSE ShapeElems)
      first == SubSeq(seen, 1, IF Len(seen) < ArraySample THEN Len(seen) ELSE ArraySample)
      kinds == Keys([n \in DOMAIN seen |-> typeWord(seen[n])])
      keys(e) == IF IsObject(e) THEN [n \in DOMAIN e.obj |-> e.obj[n][1]] ELSE <<>>
      one == Len(kinds) = 1
  IN [of |-> kinds,
      keys |-> IF kinds = <<"object">> THEN Keys(FlattenSeq([n \in DOMAIN first |-> keys(first[n])])) ELSE <<>>,
      sample |-> IF one THEN SelectSeq(first, IsScalar) ELSE <<>>]

\* A value under a sensitive key: of a container its size, of a scalar its mask.
describeMasked(v) ==
  IF IsScalar(v) THEN [how |-> "masked", type |-> v.type, value |-> Mask(v.scalar)]
  ELSE [how |-> "redacted", type |-> typeWord(v), n |-> countElems(v)]

\* describeValue, compactJSON: how any other is told; long ones are cut, which is left out.
Told(key, v, masking) ==
  IF masking /\ key \in sensitiveKeys THEN describeMasked(v)
  ELSE IF IsScalar(v) THEN [how |-> "scalar", value |-> v]
  ELSE IF key \in notableKeys THEN [how |-> "whole", value |-> v]
  ELSE IF IsArray(v) THEN [how |-> "shape", n |-> countElems(v), shape |-> arrayShape(v)]
  ELSE [how |-> "keys", n |-> countElems(v), keys |-> [n \in DOMAIN v.obj |-> v.obj[n][1]]]

\* collectNotable: st is [lines, nodes].  A step of a path is <<key, 0>> or <<"", index>>.
RECURSIVE Walk(_, _, _, _, _), Members(_, _, _, _, _, _), Elements(_, _, _, _, _, _)
Walk(path, v, depth, masking, st) ==
  IF depth > summaryMaxDepth \/ Len(st.lines) >= summaryMaxNotable THEN st
  ELSE IF IsObject(v) THEN Members(path, v.obj, 1, depth, masking, st)
  ELSE IF IsArray(v) THEN Elements(path, v.arr, 1, depth, masking, st)
  ELSE st

Members(path, pairs, n, depth, masking, st) ==
  IF n > Len(pairs) \/ st.nodes >= summaryMaxNodes \/ Len(st.lines) >= summaryMaxNotable THEN st
  ELSE LET key == pairs[n][1]
           p == Append(path, <<key, 0>>)
           seen == [st EXCEPT !.nodes = @ + 1]
           line == IF depth > 0 /\ key \in notableKeys THEN [seen EXCEPT !.lines = Append(@, p)] ELSE seen
       IN Members(path, pairs, n + 1, depth, masking,
                  IF masking /\ key \in sensitiveKeys THEN seen
                  ELSE Walk(p, pairs[n][2], depth + 1, masking, line))

Elements(path, es, n, depth, masking, st) ==
  IF n > Len(es) \/ n > ArraySample \/ st.nodes > summaryMaxNodes THEN st
  ELSE Elements(path, es, n + 1, depth, masking,
                Walk(Append(path, <<"", n>>), es[n], depth + 1, masking, [st EXCEPT !.nodes = @ + 1]))

collectNotable(v, masking) == Walk(<<>>, v, 0, masking, [lines |-> <<>>, nodes |-> 0]).lines

Least(a, b) == IF a < b THEN a ELSE b

\* [count, lines, more, notable] of an object; an array has its first elements.
summarizeJSON(v, masking) ==
  CASE IsObject(v) ->
         LET shown == Least(Len(v.obj), summaryMaxKeys) IN
         [count |-> Len(v.obj), more |-> Len(v.obj) - shown, notable |-> collectNotable(v, masking),
          lines |-> [n \in 1..shown |-> <<v.obj[n][1], Told(v.obj[n][1], v.obj[n][2], masking)>>]]
    [] IsArray(v) ->
         LET shown == Least(Len(v.arr), ArraySample) IN
         [count |-> Len(v.arr), more |-> Len(v.arr) - shown, notable |-> <<>>, shape |-> arrayShape(v),
          lines |-> [n \in 1..shown |-> <<"", v.arr[n]>>]]
    [] OTHER -> [count |-> 1, more |-> 0, notable |-> <<>>, lines |-> <<<<"", v>>>>]

\* summarizeForm: pairs <<key, value>>.
summarizeForm(pairs, masking) ==
  LET shown == Least(Len(pairs), summaryMaxKeys)
      value(kv) == IF masking /\ kv[1] \in sensitiveKeys /\ ~isMasked(kv[2]) THEN Mask(kv[2])
                   ELSE kv[2]
  IN [count |-> Len(pairs), more |-> Len(pairs) - shown,
      lines |-> [n \in 1..shown |-> <<pairs[n][1], value(pairs[n])>>]]

\* summarizeText: a last line needs no end.
textLines(chars) ==
  Cardinality({n \in DOMAIN chars : chars[n] = "nl"}) + (IF chars # <<>> /\ Last(chars) # "nl" THEN 1 ELSE 0)

-----------------------------------------------------------------------------
(* What a client may rely on.                                              *)

\* redact.go: "Short values keep no prefix or suffix".  A value that keeps something of
\* its end hides as much as it keeps there; a masked value says so.
MaskTrue(v) ==
  LET m == Mask(v)
      kept == {n \in DOMAIN v.runes : v.runes[n] \in ToSet(m.runes)}
      len == Len(v.runes)
  IN
  /\ len > 0 => isMasked(m)
  /\ kept \subseteq (1..v.prefix) \cup (IF len > LongValue THEN 1..3 ELSE {}) \cup ((len - SuffixLen + 1)..len)
  /\ len \in kept /\ len > v.prefix => len - Cardinality(kept) >= SuffixLen
  /\ v.prefix = 0 /\ len <= 2 * SuffixLen - 1 => kept = {}

\* redact.go: "Running it over its own output changes nothing."  Whatever patterns a
\* place fits, it is masked once and counted once, and nothing else is touched.  A value
\* that has a mark in it counts as masked.
RedactTrue(text) ==
  LET once == RedactText(text)
      twice == RedactText(once.text)
      due == {n \in DOMAIN text : /\ text[n].shapes # {} /\ text[n].value.runes # <<>>
                                  /\ ~isMasked(text[n].value)}
  IN
  /\ twice = [text |-> once.text, n |-> 0]
  /\ once.n = Cardinality(due)
  /\ \A n \in DOMAIN text : once.text[n].value = IF n \in due THEN Mask(text[n].value) ELSE text[n].value

Runes(v) == ToSet(Whole(v).runes)

\* What of a header's value nobody may see.
Secrets(name, v) ==
  CASE name = "cookie" -> {v[n].value : n \in DOMAIN v}
    [] name = "set-cookie" -> {v[1].value}
    [] OTHER -> {IF name = "authorization" THEN Credentials(v) ELSE Whole(v)}

\* redact.go: a secret header shows nothing of a secret but what a mask keeps of it.
\* Authorization keeps its scheme, cookies their names, Set-Cookie its attributes; other
\* headers are masked as texts are; masking a header twice is masking it once.  A value
\* with a mark anywhere in it is taken for masked and shown as it is.
HeadersTrue(h, secretHeaders) ==
  LET once == RedactHeaders(h, secretHeaders, FALSE) IN
  /\ RedactHeaders(once, secretHeaders, FALSE) = once
  /\ RedactHeaders(h, secretHeaders, TRUE) = h
  /\ \A name \in DOMAIN h : \A n \in DOMAIN h[name] :
       LET v == h[name][n]
           m == once[name][n]
           names(w) == [k \in DOMAIN w |-> w[k].name]
       IN
       CASE name \notin secretHeaders -> m = RedactText(v).text
         [] name \in secretHeaders /\ isMasked(Whole(v)) -> m = v
         [] OTHER ->
              /\ \A s \in Secrets(name, v) : ToSet(s.runes) \cap Runes(m) \subseteq ToSet(Mask(s).runes)
              /\ name \in {"cookie", "set-cookie"} => names(m) = names(v)
              /\ name = "authorization" /\ Credentials(v).runes # <<>> => m[1].name = v[1].name
              /\ name = "set-cookie" => Tail(m) = Tail(v)

\* All the steps down a document.
RECURSIVE Paths(_)
Paths(v) ==
  LET below(step, w) == {<<step>>} \cup {<<step>> \o p : p \in Paths(w)} IN
  IF IsObject(v) THEN UNION {below(<<v.obj[n][1], 0>>, v.obj[n][2]) : n \in DOMAIN v.obj}
  ELSE IF IsArray(v) THEN UNION {below(<<"", n>>, v.arr[n]) : n \in DOMAIN v.arr}
  ELSE {}

\* summary.go: collectNotable "walks nested values and returns lines for keys that carry
\* status, ids, usage"; "top-level keys are skipped", "sensitive subtrees are not
\* entered".  The lines are those values of the document, said without walking it, each
\* once and no other, as long as neither bound is met; and no more than the bounds.
NotableTrue(v, masking) ==
  LET found == collectNotable(v, masking)
      due == {p \in Paths(v) :
                /\ Len(p) \in 2..(summaryMaxDepth + 1)
                /\ Last(p)[1] \in notableKeys
                /\ \A n \in DOMAIN p : p[n][2] <= ArraySample
                /\ masking => \A n \in DOMAIN p : p[n][1] \notin sensitiveKeys}
  IN
  /\ Len(found) <= summaryMaxNotable /\ ToSet(found) \subseteq due
  /\ \A i, j \in DOMAIN found : i # j => found[i] # found[j]
  /\ Cardinality(Paths(v)) < summaryMaxNodes =>
       Len(found) = Least(Cardinality(due), summaryMaxNotable)

ShapeTrue(es, shape) ==
  LET seen == {n \in DOMAIN es : n <= ShapeElems} IN
  /\ ToSet(shape.of) = {typeWord(es[n]) : n \in seen}
  /\ ToSet(shape.sample) \subseteq ToSet(es)
  /\ \A k \in ToSet(shape.keys) : \E n \in seen : \E pair \in ToSet(es[n].obj) : pair[1] = k

\* What a summary leaves out is counted, and what it shows is the document's own, in its
\* order; under a sensitive key of the object itself it shows a type, and a size or a mask.
\* Of an array it tells the types of the first ShapeElems elements.
SummaryTrue(v, masking) ==
  LET s == summarizeJSON(v, masking) IN
  /\ Len(s.lines) + s.more = s.count
  /\ IsObject(v) => \A n \in DOMAIN s.lines :
       LET key == v.obj[n][1]
           of == v.obj[n][2]
       IN /\ s.lines[n][1] = key
          /\ masking /\ key \in sensitiveKeys =>
               /\ s.lines[n][2].type = typeWord(of)
               /\ IF IsScalar(of) THEN ToSet(s.lines[n][2].value.runes) \cap ToSet(of.scalar.runes)
                                         \subseteq ToSet(Mask(of.scalar).runes)
                  ELSE DOMAIN s.lines[n][2] = {"how", "type", "n"}
          /\ s.lines[n][2].how = "whole" => s.lines[n][2].value = of
          /\ s.lines[n][2].how = "shape" => ShapeTrue(of.arr, s.lines[n][2].shape)
  /\ IsArray(v) => ShapeTrue(v.arr, s.shape)

\* Masking a form masks the values of its sensitive keys, and no other.
FormTrue(pairs, masking) ==
  LET s == summarizeForm(pairs, masking) IN
  /\ Len(s.lines) + s.more = Len(pairs)
  /\ \A n \in DOMAIN s.lines :
       LET v == pairs[n][2] IN
       s.lines[n][2] = IF masking /\ pairs[n][1] \in sensitiveKeys /\ ~isMasked(v) /\ v.runes # <<>>
                       THEN Mask(v) ELSE v
=============================================================================
