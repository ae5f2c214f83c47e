---------------------------------- MODULE Rules ----------------------------------
(***************************************************************************)
(* What a rule means (internal/rules, internal/glob): what compiles, what  *)
(* it matches, in which order rules are evaluated, and what their actions  *)
(* do to an exchange.  RuleEngine has the life of a rule.                  *)
(*                                                                         *)
(* A phase mask is a set of phases.  A length is the body it is of.  A     *)
(* pattern or a string to match is a sequence of characters.  A JSON value *)
(* is [scalar |-> n], [null |-> TRUE], [arr |-> sequence] or               *)
(* [obj |-> function from keys]; a path is a sequence of segments.         *)
(***************************************************************************)
EXTENDS Integers, Sequences, FiniteSets, SequencesExt, TLC

CONSTANTS
  Exact,        \* the largest whole number up to which a float64 has them all (2^53)
  Index,        \* the segments that are numbers, and which
  PathOrder,    \* paths, in the order of their bytes
  Nothing       \* nil

Both == {"request", "response"}
Put(f, k, v) == (k :> v) @@ f
Without(f, k) == [n \in DOMAIN f \ {k} |-> f[n]]
Get(f, k, default) == IF k \in DOMAIN f THEN f[k] ELSE default

-----------------------------------------------------------------------------
(* Compiling (compile.go).  A rule is [id, priority, created, match,       *)
(* actions]; an action [typ, on, args, ...], args saying whether what else *)
(* it has is what its type asks for.                                       *)

Flexible == {"delay", "set_header", "remove_header", "rewrite_body", "breakpoint", "tag"}
Answering == {"mock", "mock_every_n", "block"}

\* actionKinds: the side an action defaults to, and those it may be pinned to.
actionKinds ==
  [t \in Flexible |-> [def |-> {}, allowed |-> Both]]
    @@ [t \in Answering |-> [def |-> {"request"}, allowed |-> Both]]
    @@ [t \in {"set_query", "redirect"} |-> [def |-> {"request"}, allowed |-> {"request"}]]
    @@ [t \in {"throttle"} |-> [def |-> {"response"}, allowed |-> {"response"}]]

CanRun(a) ==
  a.typ \in DOMAIN actionKinds /\ (a.on = "" \/ a.on \in actionKinds[a.typ].allowed) /\ a.args
Side(a) == IF a.on = "" THEN actionKinds[a.typ].def ELSE {a.on}

DerivedPhase(spec) ==
  LET derived == UNION {Side(spec.actions[i]) : i \in DOMAIN spec.actions} IN
  IF spec.match.phase # {} THEN spec.match.phase
  ELSE IF derived # {} THEN derived
  ELSE IF spec.match.status # Nothing THEN {"response"} ELSE {"request"}

RunsOn(a, phase) == (IF Side(a) = {} THEN phase ELSE Side(a)) \cap phase

Compiles(spec) ==
  /\ spec.actions # <<>>
  /\ \A i \in DOMAIN spec.actions : CanRun(spec.actions[i])
  /\ spec.match.status # Nothing => "response" \in DerivedPhase(spec)
  /\ \A i \in DOMAIN spec.actions : RunsOn(spec.actions[i], DerivedPhase(spec)) # {}

\* The normalised rule; its actions of a phase are those that run on it.
compileRule(spec) == [spec EXCEPT !.match.phase = DerivedPhase(spec)]
ActionsOn(cr, phase) ==
  SelectSeq(cr.actions, LAMBDA a : phase \in RunsOn(a, cr.match.phase))

\* rebuild.
Before(a, b) ==
  \/ a.priority > b.priority
  \/ a.priority = b.priority /\ a.created < b.created
  \/ a.priority = b.priority /\ a.created = b.created /\ a.id < b.id
rebuild(rules, phase) ==
  SelectSeq(SetToSortSeq(rules, Before), LAMBDA cr : ActionsOn(cr, phase) # <<>>)

-----------------------------------------------------------------------------
(* Matching (match.go, glob).                                              *)

RECURSIVE Match(_, _)
Match(p, s) ==
  IF p = <<>> THEN s = <<>>
  ELSE CASE Head(p) = "*" -> \E i \in 0..Len(s) : Match(Tail(p), SubSeq(s, i + 1, Len(s)))
         [] Head(p) = "?" -> s # <<>> /\ Match(Tail(p), Tail(s))
         [] OTHER -> s # <<>> /\ Head(s) = Head(p) /\ Match(Tail(p), Tail(s))

IsPattern(p) == \E i \in DOMAIN p : p[i] \in {"*", "?"}
MatchPath(pattern, path) ==
  IF IsPattern(pattern) THEN Match(pattern, path) ELSE IsPrefix(pattern, path)

\* statusMatcher: [neg |-> BOOLEAN, spans |-> pairs], or Nothing.
MatchStatus(spec, code) == (\E sp \in spec.spans : sp[1] <= code /\ code <= sp[2]) # spec.neg

\* The request's, in both phases: as it now is, and as it was sent.
RequestHeader(phase, x) == IF phase = "request" THEN x.side.header ELSE x.sent

\* A matcher of a field is <<>>, {} or "" when the field is not set.  The host is the
\* flow's, the rest the request's; of a header only that it is there is asked.
matches(m, phase, x, code) ==
  /\ m.host = <<>> \/ Match(m.host, x.host)
  /\ m.path = <<>> \/ MatchPath(m.path, x.path)
  /\ m.method = {} \/ x.method \in m.method
  /\ m.scheme \in {"", x.scheme}
  /\ m.header \subseteq DOMAIN RequestHeader(phase, x)
  /\ m.status # Nothing => phase = "response" /\ MatchStatus(m.status, code)

-----------------------------------------------------------------------------
(* JSON patches (body.go).                                                 *)

Bad == [err |-> TRUE]
Null == [null |-> TRUE]

RECURSIVE setPath(_, _, _)
setPath(node, segs, v) ==
  LET rest(child) == setPath(child, Tail(segs), v)
      within(child, Make(_)) == IF rest(child) = Bad THEN Bad ELSE Make(rest(child))
      i == IF segs # <<>> /\ Head(segs) \in DOMAIN Index THEN Index[Head(segs)] ELSE -1
  IN
  IF segs = <<>> THEN v
  ELSE CASE "null" \in DOMAIN node ->
              IF i = 0 THEN within(Null, LAMBDA c : [arr |-> <<c>>])
              ELSE within(Null, LAMBDA c : [obj |-> Head(segs) :> c])
         [] "obj" \in DOMAIN node ->
              within(Get(node.obj, Head(segs), Null),
                     LAMBDA c : [obj |-> Put(node.obj, Head(segs), c)])
         [] "arr" \in DOMAIN node ->
              IF i < 0 \/ i > Len(node.arr) THEN Bad
              ELSE IF i = Len(node.arr) THEN within(Null, LAMBDA c : [arr |-> Append(node.arr, c)])
              ELSE within(node.arr[i + 1], LAMBDA c : [arr |-> [node.arr EXCEPT ![i + 1] = c]])
         [] OTHER -> Bad

\* json.Unmarshal into any: a number becomes a float64, the nearest and of two the even
\* one.  (Up to 2 * Exact, past which they are further apart.)
Float(n) == IF n <= Exact \/ n % 2 = 0 THEN n ELSE IF (n \div 2) % 2 = 0 THEN n - 1 ELSE n + 1

RECURSIVE Unmarshal(_)
Unmarshal(doc) ==
  CASE "scalar" \in DOMAIN doc -> [scalar |-> Float(doc.scalar)]
    [] "arr" \in DOMAIN doc -> [arr |-> [i \in DOMAIN doc.arr |-> Unmarshal(doc.arr[i])]]
    [] "obj" \in DOMAIN doc -> [obj |-> [k \in DOMAIN doc.obj |-> Unmarshal(doc.obj[k])]]
    [] OTHER -> doc

\* A patch is a function from paths; text that is not JSON is [text |-> t].
jsonPatch(doc, patch) ==
  LET start == IF "empty" \in DOMAIN doc THEN [obj |-> << >>] ELSE Unmarshal(doc) IN
  IF "text" \in DOMAIN doc THEN Bad
  ELSE FoldLeft(LAMBDA d, p : IF d = Bad \/ p \notin DOMAIN patch THEN d ELSE setPath(d, p, patch[p]),
                start, PathOrder)

-----------------------------------------------------------------------------
(* One half of an exchange (bodySide): its headers, the flow's copy of     *)
(* them, its body as it is encoded, what length says, and the flow's note  *)
(* of the encoding.  read says whether the body can be read to its end.    *)

setHeader(side, n, v) ==
  [side EXCEPT !.header = Put(@, n, v), !.mirror = IF @ = Nothing THEN @ ELSE Put(@, n, v)]
delHeader(side, n) ==
  [side EXCEPT !.header = Without(@, n), !.mirror = IF @ = Nothing THEN @ ELSE Without(@, n)]

\* Mutant: a body that was decoded keeps its Content-Encoding.
SetBodyEncoded(side, doc, decoded) ==
  LET body == [enc |-> "", doc |-> doc] IN
  setHeader([side EXCEPT !.body = body, !.length = body], "Content-Length", body)

\* set: the new body, plain, and its framing.
SetBody(side, doc, decoded) ==
  LET body == [enc |-> "", doc |-> doc]
      framed == setHeader([side EXCEPT !.body = body, !.length = body], "Content-Length", body)
  IN IF decoded THEN [delHeader(framed, "Content-Encoding") EXCEPT !.ref = ""] ELSE framed

Readable(side) == Get(side.header, "Content-Encoding", "") \in {"", "gzip"}

\* rewrite with a patch: whatever goes wrong leaves the body as it was.
rewrite(side, patch) ==
  LET decoded == Get(side.header, "Content-Encoding", "") = "gzip"
      out == jsonPatch(side.body.doc, patch)
  IN IF side.read # "all" \/ ~Readable(side) \/ out = Bad THEN side ELSE SetBody(side, out, decoded)

-----------------------------------------------------------------------------
(* Evaluation (apply.go).  An exchange is [host, path, scheme, url, query,  *)
(* method, side, sent, tags, rules, stop]: host is the flow's, url where   *)
(* the request goes, side the half of the phase, sent the headers the      *)
(* request was sent with, rules the hits recorded, stop what ends the      *)
(* evaluation.                                                             *)

Hit(x, cr, a) == [x EXCEPT !.rules = Append(@, <<cr.id, a.typ>>)]
Stopped(x, cr, a, decision) == [Hit(x, cr, a) EXCEPT !.stop = decision]

\* One action, unless one before it has ended the evaluation.  tick says whether
\* mock_every_n is at its count, drop whether a held exchange is dropped.
Apply(x, cr, a) ==
  CASE x.stop # Nothing -> x
    [] x.stop = Nothing /\ a.typ = "set_header" ->
         [Hit(x, cr, a) EXCEPT !.side = setHeader(@, a.name, a.value)]
    [] x.stop = Nothing /\ a.typ = "remove_header" -> [Hit(x, cr, a) EXCEPT !.side = delHeader(@, a.name)]
    [] x.stop = Nothing /\ a.typ = "set_query" -> [Hit(x, cr, a) EXCEPT !.query = Put(@, a.name, a.value)]
    [] x.stop = Nothing /\ a.typ = "rewrite_body" ->
         [Hit(x, cr, a) EXCEPT !.side = rewrite(@, a.patch)]
    [] x.stop = Nothing /\ a.typ \in {"mock", "block"} -> Stopped(x, cr, a, a.typ)
    [] x.stop = Nothing /\ a.typ = "mock_every_n" -> IF a.tick THEN Stopped(x, cr, a, "mock") ELSE x
    [] x.stop = Nothing /\ a.typ = "redirect" ->
         [Hit(x, cr, a) EXCEPT !.url = a.upstream, !.scheme = a.scheme, !.path = a.prefix \o @]
    [] x.stop = Nothing /\ a.typ = "breakpoint" ->
         IF a.drop THEN Stopped(x, cr, a, "drop") ELSE Hit(x, cr, a)
    [] x.stop = Nothing /\ a.typ = "tag" -> [Hit(x, cr, a) EXCEPT !.tags = @ \cup {a.tag}]
    [] OTHER -> Hit(x, cr, a)

\* Engine.Request and Engine.Response.  fires: the rules that are eligible and whose
\* gate lets them through.
Evaluate(rules, phase, fires, x, code) ==
  FoldLeft(LAMBDA y, cr :
    IF y.stop # Nothing \/ cr.id \notin fires \/ ~matches(cr.match, phase, y, code) THEN y
    ELSE FoldLeft(LAMBDA z, a : Apply(z, cr, a), y, ActionsOn(cr, phase)),
    x, rebuild(rules, phase))

-----------------------------------------------------------------------------
(* What a rule promises.                                                   *)

\* A rule that compiles does something; each of its actions runs where its kind may
\* and where it is pinned; one that asks for a status is asked when there is one; and
\* saved as it is shown, it loads as the same rule.
CompileTrue(spec) ==
  LET cr == compileRule(spec) IN
  Compiles(spec) =>
    /\ \E phase \in Both : ActionsOn(cr, phase) # <<>>
    /\ \A a \in ToSet(cr.actions) :
         /\ \E phase \in Both : a \in ToSet(ActionsOn(cr, phase))
         /\ \A phase \in Both : a \in ToSet(ActionsOn(cr, phase)) =>
              phase \in actionKinds[a.typ].allowed /\ a.on \in {"", phase}
         /\ a.typ \in Flexible /\ a.on = "" =>
              \A phase \in cr.match.phase : a \in ToSet(ActionsOn(cr, phase))
    /\ spec.match.status # Nothing => "response" \in cr.match.phase
    /\ Compiles(cr) /\ compileRule(cr) = cr

\* docs/rules.md: * is any run of characters, ? any one, others themselves.
GlobTrue(p, s) ==
  Match(p, s) <=>
    \E run \in [DOMAIN p -> 0..Len(s)] :
      LET from(i) == FoldFunctionOnSet(+, 0, run, 1..(i - 1)) IN
      /\ from(Len(p) + 1) = Len(s)
      /\ \A i \in DOMAIN p : \/ p[i] = "*"
                             \/ run[i] = 1 /\ p[i] \in {"?", s[from(i) + 1]}

RECURSIVE Read(_, _)
Read(doc, path) ==
  IF path = <<>> THEN doc
  ELSE IF "obj" \in DOMAIN doc /\ Head(path) \in DOMAIN doc.obj
       THEN Read(doc.obj[Head(path)], Tail(path))
  ELSE IF "arr" \in DOMAIN doc /\ Head(path) \in DOMAIN Index /\ Index[Head(path)] < Len(doc.arr)
       THEN Read(doc.arr[Index[Head(path)] + 1], Tail(path))
  ELSE [absent |-> TRUE]

RECURSIVE Numbers(_)
Numbers(doc) ==
  CASE "scalar" \in DOMAIN doc -> {doc.scalar}
    [] "arr" \in DOMAIN doc -> UNION {Numbers(e) : e \in ToSet(doc.arr)}
    [] "obj" \in DOMAIN doc -> UNION {Numbers(doc.obj[k]) : k \in DOMAIN doc.obj}
    [] OTHER -> {}

\* A patch that succeeds has set each of its paths that no other goes on from, and
\* touched nothing that is neither on the way to one nor below it, unless there are
\* numbers in it beyond Exact: such a one is replaced by one next to it.
PatchTrue(doc, patch) ==
  LET new == jsonPatch(doc, patch)
      ends == {p \in DOMAIN patch : \A q \in DOMAIN patch : IsPrefix(p, q) => p = q}
  IN
  new # Bad =>
    /\ \A p \in ends : Read(new, p) = patch[p]
    /\ \A q \in ToSet(PathOrder) :
         (\A p \in DOMAIN patch : ~IsPrefix(p, q) /\ ~IsPrefix(q, p)) =>
           /\ (\A n \in Numbers(Read(doc, q)) : n <= Exact) => Read(new, q) = Read(doc, q)
           /\ "scalar" \in DOMAIN Read(doc, q) =>
                \E d \in {-1, 0, 1} : Read(new, q) = [scalar |-> Read(doc, q).scalar + d]

\* The framing of a half: the copy of its headers is true, its length and its
\* Content-Length are its body's, its Content-Encoding is the body's encoding.
Framed(side) ==
  /\ side.mirror # Nothing => side.mirror = side.header
  /\ side.length = side.body
  /\ Get(side.header, "Content-Length", side.body) = side.body
  /\ Get(side.header, "Content-Encoding", "") = side.body.enc /\ side.ref = side.body.enc

\* Rules act by priority, then by age; what ends the evaluation ends it; nothing
\* that is applied goes unrecorded; what is done to a response changes nothing of which
\* rules apply to it; and after all of it the exchange is well framed.
EvaluateTrue(rules, phase, fires, x, code) ==
  LET y == Evaluate(rules, phase, fires, x, code)
      of(id) == CHOOSE cr \in rules : cr.id = id
      ends(k) == y.stop # Nothing /\ k = Len(y.rules)
  IN
  /\ Framed(x.side) => Framed(y.side)
  /\ \A k \in DOMAIN y.rules :
       /\ y.rules[k][1] \in fires
       /\ \E a \in ToSet(ActionsOn(of(y.rules[k][1]), phase)) :
            /\ a.typ = y.rules[k][2]
            /\ a.typ \in {"mock", "block"} => ends(k)
       /\ phase = "response" => matches(of(y.rules[k][1]).match, phase, x, code)
       /\ \A n \in DOMAIN y.rules : n < k /\ y.rules[n][1] # y.rules[k][1] =>
            LET first == of(y.rules[n][1])
                next == of(y.rules[k][1])
            IN first.priority > next.priority
                 \/ (first.priority = next.priority /\ first.created <= next.created)
  /\ phase = "response" /\ y.stop = Nothing =>
       \A cr \in rules :
         cr.id \in fires /\ matches(cr.match, phase, x, code)
           /\ (\E a \in ToSet(ActionsOn(cr, phase)) : a.typ # "mock_every_n") =>
             \E k \in DOMAIN y.rules : y.rules[k][1] = cr.id
  /\ y.rules = <<>> => y = x
  /\ y.stop # Nothing => y.rules # <<>>
=============================================================================
