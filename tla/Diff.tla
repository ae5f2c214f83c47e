---------------------------------- MODULE Diff ----------------------------------
(***************************************************************************)
(* Comparing two exchanges (internal/view/diff.go): texts line by line,    *)
(* JSON values by structure, headers by name.  Indices count from 1.       *)
(*                                                                         *)
(* A line is a value.  A JSON value is [scalar |-> v], [arr |-> sequence]  *)
(* or [obj |-> function from keys]; a path is a sequence of keys and       *)
(* indices, the root's is <<"$">>.                                         *)
(***************************************************************************)
EXTENDS Naturals, Sequences, FiniteSets, SequencesExt, TLC

CONSTANTS
  DiffContext,   \* unchanged lines shown around a change
  DiffMaxCells   \* size of the largest table computed

-----------------------------------------------------------------------------
(* Texts.                                                                  *)

CommonHead(a, b) == Len(LongestCommonPrefix({a, b}))
Less(s, pre, suf) == SubSeq(s, pre + 1, Len(s) - suf)

\* The table: how long a common subsequence of the ends of a and b is.
LcsTable(a, b) ==
  LET n == Len(a)
      m == Len(b)
      table[i \in 1..(n + 1), j \in 1..(m + 1)] ==
        IF i > n \/ j > m THEN 0
        ELSE IF a[i] = b[j] THEN table[i + 1, j + 1] + 1
        ELSE IF table[i + 1, j] >= table[i, j + 1] THEN table[i + 1, j] ELSE table[i, j + 1]
  IN table

\* The kinds of lines of the middle: kept, removed, added.
Middle(a, b) ==
  LET n == Len(a)
      m == Len(b)
      table == LcsTable(a, b)
      from[i \in 1..(n + 1), j \in 1..(m + 1)] ==
        IF i > n \/ j > m
        THEN [k \in 1..(n + 1 - i) |-> "-"] \o [k \in 1..(m + 1 - j) |-> "+"]
        ELSE IF a[i] = b[j] THEN <<" ">> \o from[i + 1, j + 1]
        ELSE IF table[i + 1, j] >= table[i, j + 1] THEN <<"-">> \o from[i + 1, j]
        ELSE <<"+">> \o from[i, j + 1]
  IN IF n * m > DiffMaxCells \/ n = 0 \/ m = 0
     THEN [k \in 1..n |-> "-"] \o [k \in 1..m |-> "+"]
     ELSE from[1, 1]

\* emit: the lines of an edit script from their kinds, with where they stand.
Emit(a, b, kinds) ==
  FoldLeft(LAMBDA s, kind :
    [ops |-> Append(s.ops, [kind |-> kind, text |-> IF kind = "+" THEN b[s.b] ELSE a[s.a],
                            a |-> s.a, b |-> s.b]),
     a |-> IF kind = "+" THEN s.a ELSE s.a + 1,
     b |-> IF kind = "-" THEN s.b ELSE s.b + 1],
    [ops |-> <<>>, a |-> 1, b |-> 1], kinds).ops

diffLines(a, b) ==
  LET pre == CommonHead(a, b)
      suf == CommonHead(Reverse(Less(a, pre, 0)), Reverse(Less(b, pre, 0)))
      same(n) == [k \in 1..n |-> " "]
  IN Emit(a, b, same(pre) \o Middle(Less(a, pre, suf), Less(b, pre, suf)) \o same(suf))

Changed(op) == op.kind # " "
Changes(ops) == Len(SelectSeq(ops, Changed))

\* How many lines from e on are unchanged.
Run(ops, e) ==
  CHOOSE n \in 0..(Len(ops) + 1 - e) :
    /\ \A k \in e..(e + n - 1) : ~Changed(ops[k])
    /\ e + n <= Len(ops) => Changed(ops[e + n])

\* The end of the hunk with change i: a hunk goes on over a gap that the contexts
\* of both its sides fill.
HunkEnd(ops, i) ==
  LET end[e \in i..(Len(ops) + 1)] ==
        IF e > Len(ops) THEN e
        ELSE IF Changed(ops[e]) THEN end[e + 1]
        ELSE IF Run(ops, e) > 2 * DiffContext THEN e + DiffContext
        ELSE end[e + Run(ops, e)]
  IN end[i]

\* As many of the lines as have no more than room changes.
Capped(ops, room) ==
  IF Changes(ops) <= room THEN ops
  ELSE SubSeq(ops, 1, (CHOOSE k \in DOMAIN ops :
                         Changed(ops[k]) /\ Changes(SubSeq(ops, 1, k - 1)) = room) - 1)

Hunk(ops, start, end, room) ==
  LET lines == SubSeq(ops, start, end - 1) IN
  [aStart |-> ops[start].a, aLen |-> Len(SelectSeq(lines, LAMBDA op : op.kind # "+")),
   bStart |-> ops[start].b, bLen |-> Len(SelectSeq(lines, LAMBDA op : op.kind # "-")),
   lines |-> Capped(lines, room), cut |-> Changes(lines) > room]

\* The hunks from line i on; nothing follows one that was cut.
Hunks(ops, maxLines) ==
  LET from[i \in 1..(Len(ops) + 1), printed \in 0..Len(ops)] ==
        IF i > Len(ops) THEN <<>>
        ELSE IF ~Changed(ops[i]) THEN from[i + 1, printed]
        ELSE LET start == IF i > DiffContext THEN i - DiffContext ELSE 1
                 end == HunkEnd(ops, i)
                 hunk == Hunk(ops, start, end, maxLines - printed)
             IN <<hunk>> \o IF hunk.cut THEN <<>>
                            ELSE from[end, printed + Changes(hunk.lines)]
  IN from[1, 0]

DiffText(a, b, maxLines) ==
  LET ops == diffLines(a, b)
      hunks == Hunks(ops, maxLines)
  IN [hunks |-> hunks, changes |-> Changes(ops),
      more |-> IF hunks # <<>> /\ Last(hunks).cut THEN Changes(ops) - maxLines ELSE 0]

-----------------------------------------------------------------------------
(* JSON.                                                                   *)

childPath(parent, key) == IF parent = <<"$">> THEN <<key>> ELSE Append(parent, key)

Change(kind, path, old, new) == <<[kind |-> kind, path |-> path, old |-> old, new |-> new]>>

Gone == [gone |-> TRUE]

\* jsonDiffer.walk; the keys' order is that of names.
RECURSIVE walk(_, _, _, _)
walk(path, a, b, names) ==
  IF "obj" \in DOMAIN a /\ "obj" \in DOMAIN b THEN
    FlattenSeq([n \in DOMAIN names |->
      LET k == names[n]
          p == childPath(path, k)
          inA == k \in DOMAIN a.obj
          inB == k \in DOMAIN b.obj
      IN IF inA /\ inB THEN walk(p, a.obj[k], b.obj[k], names)
         ELSE IF inA THEN Change("-", p, a.obj[k], Gone)
         ELSE IF inB THEN Change("+", p, Gone, b.obj[k])
         ELSE <<>>])
  ELSE IF "arr" \in DOMAIN a /\ "arr" \in DOMAIN b THEN
    LET la == Len(a.arr)
        lb == Len(b.arr)
        longest == IF la > lb THEN la ELSE lb
    IN (IF la = lb THEN <<>> ELSE Change("length", path, la, lb))
         \o FlattenSeq([i \in 1..longest |->
              LET p == childPath(path, ToString(i - 1)) IN
              IF i <= la /\ i <= lb THEN walk(p, a.arr[i], b.arr[i], names)
              ELSE IF i <= la THEN Change("-", p, a.arr[i], Gone)
              ELSE Change("+", p, Gone, b.arr[i])])
  ELSE IF a = b THEN <<>> ELSE Change("~", path, a, b)

DiffJSON(a, b, names, maxChanges) ==
  LET all == walk(<<"$">>, a, b, names) IN
  [lines |-> SubSeq(all, 1, IF Len(all) < maxChanges THEN Len(all) ELSE maxChanges),
   total |-> Len(all)]

-----------------------------------------------------------------------------
(* Headers: functions from canonical names to sequences of values.         *)

DiffHeaders(a, b, ignore) ==
  LET name == (DOMAIN a \cup DOMAIN b) \ ignore IN
  [n \in {n \in name : ~(n \in DOMAIN a /\ n \in DOMAIN b /\ a[n] = b[n])} |->
     IF n \notin DOMAIN b THEN "-" ELSE IF n \notin DOMAIN a THEN "+" ELSE "~"]

-----------------------------------------------------------------------------
(* What the diffs promise.                                                 *)

Texts(ops, Of(_)) == LET of == SelectSeq(ops, Of) IN [k \in DOMAIN of |-> of[k].text]
Old(op) == op.kind # "+"
New(op) == op.kind # "-"

\* Common subsequences, longest first.
Subsequences(s) ==
  {LET at == SetToSortSeq(kept, <) IN [k \in DOMAIN at |-> s[at[k]]] : kept \in SUBSET DOMAIN s}
LongestCommon(a, b) ==
  CHOOSE n \in 0..Len(a) :
    /\ \E s \in Subsequences(a) \cap Subsequences(b) : Len(s) = n
    /\ \A s \in Subsequences(a) \cap Subsequences(b) : Len(s) <= n

\* The script is a text diff: it has all of a and all of b, in their order, and no
\* shorter script has, unless the texts are beyond the table's bound.
ScriptOf(a, b, ops) ==
  /\ Texts(ops, Old) = a /\ Texts(ops, New) = b
  /\ Len(a) * Len(b) <= DiffMaxCells => Changes(ops) = Len(a) + Len(b) - 2 * LongestCommon(a, b)

\* The hunks are of that script: every change is in one of them, in its order, or
\* counted as left out, and a whole hunk stands where its header says.
HunksOf(a, b, d, maxLines) ==
  LET told == FlattenSeq([n \in DOMAIN d.hunks |-> d.hunks[n].lines]) IN
  /\ Changes(told) + d.more = d.changes
  /\ d.more > 0 => Changes(told) = maxLines
  /\ SelectSeq(told, Changed)
       = SubSeq(SelectSeq(diffLines(a, b), Changed), 1, Changes(told))
  /\ \A n \in DOMAIN d.hunks :
       LET h == d.hunks[n] IN
       ~h.cut => /\ Texts(h.lines, Old) = SubSeq(a, h.aStart, h.aStart + h.aLen - 1)
                 /\ Texts(h.lines, New) = SubSeq(b, h.bStart, h.bStart + h.bLen - 1)

TextDiffTrue(a, b, maxLines) ==
  /\ ScriptOf(a, b, diffLines(a, b))
  /\ HunksOf(a, b, DiffText(a, b, maxLines), maxLines)

\* Where a value has something, and what.
RECURSIVE At(_, _)
At(v, path) ==
  IF path = <<>> THEN v
  ELSE IF "obj" \in DOMAIN v /\ Head(path) \in DOMAIN v.obj THEN At(v.obj[Head(path)], Tail(path))
  ELSE IF "arr" \in DOMAIN v /\ \E i \in DOMAIN v.arr : ToString(i - 1) = Head(path)
       THEN At(v.arr[CHOOSE i \in DOMAIN v.arr : ToString(i - 1) = Head(path)], Tail(path))
  ELSE Gone

RECURSIVE Paths(_)
Paths(v) ==
  {<<>>} \cup
  IF "obj" \in DOMAIN v THEN UNION {{<<k>> \o p : p \in Paths(v.obj[k])} : k \in DOMAIN v.obj}
  ELSE IF "arr" \in DOMAIN v
       THEN UNION {{<<ToString(i - 1)>> \o p : p \in Paths(v.arr[i])} : i \in DOMAIN v.arr}
  ELSE {}

Shown(path) == IF path = <<>> THEN <<"$">> ELSE path
IsLeaf(v) == "scalar" \in DOMAIN v \/ "gone" \in DOMAIN v

\* A change of a JSON diff is told where it is, with what was there and what is; a
\* place where one of the two has something else is told once, by itself or with
\* what it is a part of.
JsonDiffTrue(a, b, names, maxChanges) ==
  LET d == DiffJSON(a, b, names, maxChanges)
      all == walk(<<"$">>, a, b, names)
      Here == Paths(a) \cup Paths(b)
      told(n) == {p \in Here : Shown(p) = all[n].path}
      over(p) == {n \in DOMAIN all : all[n].kind # "length" /\ \E q \in told(n) : IsPrefix(q, p)}
  IN
  /\ Len(d.lines) + (IF d.total > maxChanges THEN d.total - maxChanges ELSE 0) = d.total
  /\ \A n \in DOMAIN all :
       /\ Cardinality(told(n)) = 1
       /\ \A q \in told(n) :
            IF all[n].kind = "length"
            THEN Len(At(a, q).arr) = all[n].old /\ Len(At(b, q).arr) = all[n].new
            ELSE At(a, q) = all[n].old /\ At(b, q) = all[n].new
  /\ \A p \in Here :
       /\ Cardinality(over(p)) <= 1
       /\ (IsLeaf(At(a, p)) \/ IsLeaf(At(b, p))) /\ At(a, p) # At(b, p) => over(p) # {}
       /\ At(a, p) = At(b, p) => \A n \in over(p) : p \notin told(n)

HeaderDiffTrue(a, b, ignore) ==
  \A n \in DOMAIN a \cup DOMAIN b :
    n \in DOMAIN DiffHeaders(a, b, ignore)
      <=> n \notin ignore /\ (n \in DOMAIN a \cap DOMAIN b => a[n] # b[n])
=============================================================================
