---------------------------------- MODULE Query ----------------------------------
(***************************************************************************)
(* Asking for flows (internal/store filter.go, row.go, decode.go; the ids  *)
(* of internal/flow): what a filter selects, a page of what it selects,    *)
(* and the text a search looks at.                                         *)
(*                                                                         *)
(* A flow is [id, start, method, status, bytes, error, tags, rules, state, *)
(* replay, words], and its host, path, kind, session, client and type are  *)
(* like its method.  A string to match is a sequence of characters, the    *)
(* text of a body one of bytes <<r, n>>: byte n of rune r.                 *)
(***************************************************************************)
EXTENDS Naturals, Sequences, FiniteSets, SequencesExt

CONSTANTS
  SearchTextCap,   \* bytes of a body that are searched
  Base, Width,     \* of ids: digits of their short form, and how many of them
  Confusable,      \* letters that are read as digits, and which
  Nothing          \* nil

-----------------------------------------------------------------------------
(* Filters (filter.go).  A field that is not set is Nothing.               *)

Unset(field, Holds) == field = Nothing \/ Holds

\* StatusMatcher: [neg |-> BOOLEAN, spans |-> pairs].
StatusMatcher(spec, code) == (\E sp \in spec.spans : sp[1] <= code /\ code <= sp[2]) # spec.neg

matchState(fl, s) ==
  CASE s = "replayed" -> fl.replay
    [] s = "mocked" -> "mock" \in fl.rules
    [] s = "blocked" -> "block" \in fl.rules
    [] s \in {"held", "active", "done", "failed"} -> fl.state = s
    [] OTHER -> TRUE

\* Matcher.Match.  f.among: for host, path, method, kind, session, client and type, as
\* far as they are set, what the filter admits.  A text that is searched has words.
MatchFlow(f, fl) ==
  /\ \A k \in DOMAIN f.among : fl[k] \in f.among[k]
  /\ Unset(f.sinceID, fl.id > f.sinceID)
  /\ Unset(f.since, fl.start >= f.since) /\ Unset(f.until, fl.start <= f.until)
  /\ Unset(f.status, fl.status # 0 /\ StatusMatcher(f.status, fl.status))
  /\ Unset(f.minBytes, fl.bytes >= f.minBytes)
  /\ f.hasError => fl.error \/ fl.status >= 400
  /\ Unset(f.tag, f.tag \in fl.tags) /\ Unset(f.rule, f.rule \in fl.rules)
  /\ Unset(f.state, matchState(fl, f.state))
  /\ Unset(f.q, f.q \in fl.words)

\* Mutant: the flow of the cursor is on both pages.
PageFrom(ring, f, limit, before) ==
  LET found == SelectSeq(ring, LAMBDA fl : Unset(before, fl.id <= before) /\ MatchFlow(f, fl))
      rows == SubSeq(found, 1, IF Len(found) < limit THEN Len(found) ELSE limit)
  IN [rows |-> rows, total |-> Len(found),
      cursor |-> IF Len(found) > Len(rows) /\ rows # <<>> THEN Last(rows).id ELSE Nothing]

\* Query: one page of the ring, newest first.
Page(ring, f, limit, before) ==
  LET found == SelectSeq(ring, LAMBDA fl : Unset(before, fl.id < before) /\ MatchFlow(f, fl))
      rows == SubSeq(found, 1, IF Len(found) < limit THEN Len(found) ELSE limit)
  IN [rows |-> rows, total |-> Len(found),
      cursor |-> IF Len(found) > Len(rows) /\ rows # <<>> THEN Last(rows).id ELSE Nothing]

\* What a client gets that follows the cursor to the end.
Pages(ring, f, limit) ==
  LET from[n \in 0..Len(ring), before \in {fl.id : fl \in ToSet(ring)} \cup {Nothing}] ==
        LET page == Page(ring, f, limit, before) IN
        IF page.cursor = Nothing \/ n = 0 THEN <<page>>
        ELSE <<page>> \o from[n - 1, page.cursor]
  IN from[Len(ring), Nothing]

-----------------------------------------------------------------------------
(* The text of a body (BodyText, decode.go).  A body is [kept, textual,    *)
(* valid, bytes, broken]: broken says whether its encoded stream is.       *)

Whole(b, n) == n = Len(b) \/ b[n + 1][2] = 1
Utf8(body, b) == body.valid /\ (b = <<>> \/ Whole(body.bytes, Len(b)))

\* readBounded: a stream that breaks off just at the limit is not found out.
DecodeBody(body, limit) ==
  LET n == Len(body.bytes) IN
  IF n > limit THEN [out |-> SubSeq(body.bytes, 1, limit), err |-> "limit"]
  ELSE [out |-> body.bytes, err |-> IF body.broken /\ n < limit THEN "broken" ELSE ""]

BodyText(body) ==
  LET d == DecodeBody(body, SearchTextCap)
      trimmed == IF Utf8(body, d.out) \/ Len(d.out) < SearchTextCap THEN d.out ELSE Front(d.out)
  IN IF ~body.kept \/ ~body.textual \/ d.err = "broken" \/ ~Utf8(body, trimmed) THEN Nothing
     ELSE trimmed

-----------------------------------------------------------------------------
(* Known hosts (row.go): patterns that only have stars.                    *)

RECURSIVE SplitAtStars(_)
SplitAtStars(p) ==
  IF "*" \notin ToSet(p) THEN <<p>>
  ELSE LET i == SelectInSeq(p, LAMBDA c : c = "*")
       IN <<SubSeq(p, 1, i - 1)>> \o SplitAtStars(SubSeq(p, i + 1, Len(p)))

\* strings.Index, or -1 as Nothing.
IndexOf(s, t) ==
  LET at == {i \in 0..Len(s) : i + Len(t) <= Len(s) /\ SubSeq(s, i + 1, i + Len(t)) = t}
  IN IF at = {} THEN Nothing ELSE CHOOSE i \in at : \A j \in at : i <= j

\* The parts between the stars, each at its first place behind the one before it.
RECURSIVE PartsFit(_, _)
PartsFit(parts, s) ==
  \/ parts = <<>>
  \/ LET i == IndexOf(s, Head(parts)) IN
     /\ i # Nothing
     /\ Len(parts) = 1 => IsSuffix(Head(parts), s)
     /\ PartsFit(Tail(parts), SubSeq(s, i + Len(Head(parts)) + 1, Len(s)))

matchHostGlob(p, h) ==
  LET parts == SplitAtStars(p) IN
  IF Len(parts) = 1 THEN p = h
  ELSE /\ IsPrefix(Head(parts), h)
       /\ PartsFit(Tail(parts), SubSeq(h, Len(Head(parts)) + 1, Len(h)))

-----------------------------------------------------------------------------
(* Ids (flow.go).                                                          *)

\* ID.Short: the digits of an id.
Short(id) ==
  LET digits[v \in 0..id] == IF v = 0 THEN <<>> ELSE Append(digits[v \div Base], v % Base)
  IN IF id = 0 THEN <<0>> ELSE digits[id]

\* ParseShort: a letter that is taken for a digit is that digit; anything else is no
\* digit at all.
ParseShort(s) ==
  LET digit(c) == IF c \in DOMAIN Confusable THEN Confusable[c] ELSE c
      d == [k \in DOMAIN s |-> digit(s[k])]
  IN IF s = <<>> \/ Len(s) > Width \/ \E k \in DOMAIN d : d[k] \notin 0..(Base - 1) THEN Nothing
     ELSE FoldLeft(LAMBDA v, n : v * Base + n, 0, d)

-----------------------------------------------------------------------------
(* What a client may rely on.                                              *)

\* docs/mcp.md: flows are listed newest first, `limit` at a time, with a cursor.  As
\* long as the ring is in the order of ids, the pages put together are the whole
\* list, nothing twice, and each page counts what is left.
PagesTrue(ring, f, limit) ==
  LET pages == Pages(ring, f, limit)
      all == SelectSeq(ring, LAMBDA fl : MatchFlow(f, fl))
      given(k) == FlattenSeq([n \in 1..k |-> pages[n].rows])
  IN
  (\A i, j \in DOMAIN ring : i < j => ring[i].id > ring[j].id) =>
    /\ given(Len(pages)) = all
    /\ \A k \in DOMAIN pages : pages[k].total = Len(all) - Len(given(k - 1))

\* What is searched is the head of the text, in whole runes.  A text that the cap
\* does not cut is searched, and so is one that is cut between two runes or behind
\* the first byte of one.
TextTrue(body) ==
  LET t == BodyText(body)
      n == Len(body.bytes)
  IN
  /\ t # Nothing => body.valid /\ body.textual /\ IsPrefix(t, body.bytes) /\ Whole(body.bytes, Len(t))
  /\ body.kept /\ body.textual /\ body.valid /\ ~body.broken =>
       /\ n <= SearchTextCap => t = body.bytes
       /\ n > SearchTextCap /\ Whole(body.bytes, SearchTextCap) => Len(t) = SearchTextCap
       /\ n > SearchTextCap /\ body.bytes[SearchTextCap][2] = 1 /\ ~Whole(body.bytes, SearchTextCap) =>
            Len(t) = SearchTextCap - 1

\* Any place for the parts would do, so the first one must.
HostGlobTrue(p, h) ==
  LET lits == {k \in DOMAIN p : p[k] # "*"} IN
  matchHostGlob(p, h) <=>
    \E at \in [lits -> DOMAIN h] :
      /\ \A k \in lits : p[k] = h[at[k]]
      /\ \A k, m \in lits : k < m => at[k] < at[m]
      /\ \A k, m \in lits : m = k + 1 => at[m] = at[k] + 1
      /\ 1 \in lits => at[1] = 1
      /\ Len(p) \in lits => at[Len(p)] = Len(h)
      /\ p = <<>> => h = <<>>

\* The short form of an id is read back as it, however it is copied.
ShortTrue(id) ==
  LET s == Short(id)
      copies == {c \in [DOMAIN s -> (0..(Base - 1)) \cup DOMAIN Confusable] :
                   \A k \in DOMAIN s :
                     \/ c[k] = s[k]
                     \/ c[k] \in DOMAIN Confusable /\ Confusable[c[k]] = s[k]}
  IN \A c \in copies : ParseShort(c) = id
=============================================================================
