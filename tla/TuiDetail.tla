----------------------------- MODULE TuiDetail -----------------------------
(***************************************************************************)
(* The selection and the detail view of the terminal UI (internal/tui      *)
(* model.go, run.go setPaneContent): which flow is open, what was asked    *)
(* about it, what the viewport shows, and the answers - of Flow, Explain   *)
(* and Diff - that arrive in any order while flows keep arriving above.    *)
(*                                                                         *)
(* A query is what a request distinguishes: the part, and whether secrets  *)
(* are revealed.  Flow ids are given upwards; the list shows all of them.  *)
(***************************************************************************)
EXTENDS Naturals, FiniteSets, FiniteSetsExt

CONSTANTS MaxFlows,    \* bound on the flows that arrive
          MaxAsked,    \* bound on the requests under way at once
          Llm,         \* the flows Explain knows what to do with
          None

VARIABLES
  n,          \* flows listed, newest first: n, n-1, ..., 1
  cursor, follow,
  mode,       \* "list", "detail", or "input": a prompt or overlay over the detail
  open,       \* detailID, 0 for none
  part, secret,               \* detailQ
  detail,     \* None, or the query [id, part, secret] that m.detail answers
  explain,    \* None, or the flow m.explain is of
  diff,       \* None, or the pair m.diff is of
  marked,     \* 0 for none
  pane, loading,
  screen,     \* what the viewport holds: [pane, of]
  asked       \* requests under way

where == <<n, cursor, follow>>
held == <<detail, explain, diff, marked>>
view == <<where, mode, open, part, secret, held, pane, loading, screen, asked>>

Query(id) == [id |-> id, part |-> part, secret |-> secret]
Queries == [id : 1..MaxFlows, part : {"both", "request"}, secret : BOOLEAN]
Requests == [kind : {"detail"}, of : Queries] \cup [kind : {"explain"}, of : 1..MaxFlows]
              \cup [kind : {"diff"}, of : (1..MaxFlows) \X (1..MaxFlows)]

TypeOK ==
  /\ n \in 0..MaxFlows /\ cursor \in Nat /\ follow \in BOOLEAN
  /\ mode \in {"list", "detail", "input"} /\ open \in 0..MaxFlows
  /\ part \in {"both", "request"} /\ secret \in BOOLEAN
  /\ detail \in Queries \cup {None} /\ explain \in Llm \cup {None}
  /\ marked \in 0..MaxFlows /\ pane \in {"body", "explain", "diff"} /\ loading \in BOOLEAN
  /\ asked \subseteq Requests

Init ==
  /\ n = 0 /\ cursor = 0 /\ follow = TRUE /\ mode = "list" /\ open = 0
  /\ part = "both" /\ secret = FALSE /\ detail = None /\ explain = None /\ diff = None
  /\ marked = 0 /\ pane = "body" /\ loading = FALSE
  /\ screen = [pane |-> "body", of |-> None] /\ asked = {}

\* Model.selected, in a list of m flows.
Selected(c, m) == IF c < m THEN m - c ELSE 0

\* moveCursor(delta) of the cursor and follow.
Moved(c) == IF c + 1 < n THEN c + 1 ELSE IF n = 0 THEN 0 ELSE n - 1

Ask(new) == asked' = asked \cup new /\ Cardinality(asked \cup new) <= MaxAsked
AskDetail(id, p, s) == [kind |-> "detail", of |-> [id |-> id, part |-> p, secret |-> s]]

\* setPaneContent, with what the model holds for the pane.
Content(p, d, e, f) ==
  [pane |-> p, of |-> CASE p = "explain" -> e [] p = "diff" -> f [] OTHER -> d]

-----------------------------------------------------------------------------
(* The list. *)

\* keepCursorOn: the table has the new row already, so that the row it looks
\* for is the one now under the cursor.
KeepCursorOn(id, c, m) ==
  LET r == Selected(c, m) IN
  IF r # 0 /\ r # id THEN CHOOSE i \in 0..m - 1 : Selected(i, m) = r ELSE c

\* eventMsg of a new flow.
Arrive ==
  /\ n < MaxFlows
  /\ n' = n + 1
  /\ cursor' = CASE follow /\ mode = "list" -> 0
                 [] ~follow -> KeepCursorOn(n + 1, cursor, n + 1)
                 [] OTHER -> cursor
  /\ UNCHANGED <<follow, mode, open, part, secret, held, pane, loading, screen, asked>>

\* j or down; k is like it.
Down ==
  /\ mode = "list" /\ n > 0
  /\ cursor' = Moved(cursor) /\ follow' = (follow /\ Moved(cursor) = 0)
  /\ UNCHANGED <<n, mode, open, part, secret, held, pane, loading, screen, asked>>

\* openDetail of the row under c.
OpenAt(c, p) ==
  LET id == Selected(c, n)
      fresh == open # id
      tab == IF p = "body" /\ pane # "body" THEN "both" ELSE part
  IN /\ id # 0
     /\ mode' = "detail" /\ open' = id
     /\ detail' = IF fresh THEN None ELSE detail
     /\ explain' = IF fresh THEN None ELSE explain
     /\ loading' = TRUE
     /\ pane' = p /\ part' = tab
     /\ Ask({AskDetail(id, tab, secret)}
              \cup IF p = "explain" THEN {[kind |-> "explain", of |-> id]} ELSE {})
     /\ UNCHANGED <<secret, diff, marked, screen>>

\* enter; x or e.
Open(p) == mode = "list" /\ p \in {"body", "explain"} /\ OpenAt(cursor, p) /\ UNCHANGED where

\* m in the list or in the detail view.
Mark ==
  /\ mode \in {"list", "detail"}
  /\ LET id == IF mode = "list" THEN Selected(cursor, n) ELSE open IN
       /\ id # 0
       /\ marked' = IF mode = "list" /\ marked = id THEN 0 ELSE id
  /\ UNCHANGED <<where, mode, open, part, secret, detail, explain, diff, pane, loading, screen, asked>>

\* d: the marked flow against the row under the cursor, in either mode.
AskDiff ==
  LET id == Selected(cursor, n) IN
  /\ mode \in {"list", "detail"} /\ id # 0 /\ marked \notin {0, id}
  /\ Ask({[kind |-> "diff", of |-> <<marked, id>>]}) /\ loading' = TRUE
  /\ UNCHANGED <<where, mode, open, part, secret, held, pane, screen>>

-----------------------------------------------------------------------------
(* The detail view. *)

\* closeDetail.
Close ==
  /\ mode = "detail"
  /\ mode' = "list" /\ open' = 0 /\ detail' = None /\ explain' = None /\ diff' = None
  /\ loading' = FALSE /\ pane' = "body" /\ screen' = [pane |-> "body", of |-> None]
  /\ UNCHANGED <<where, part, secret, marked, asked>>

\* J: the next row of the list, in the pane that is shown.
NextFlow ==
  /\ mode = "detail" /\ n > 0
  /\ cursor' = Moved(cursor) /\ follow' = (follow /\ Moved(cursor) = 0)
  /\ OpenAt(Moved(cursor), IF pane = "explain" THEN "explain" ELSE "body")
  /\ UNCHANGED n

\* refetchDetail.
Refetch(p, s) ==
  IF open = 0 THEN UNCHANGED <<asked, loading>>
  ELSE Ask({AskDetail(open, p, s)}) /\ loading' = TRUE

\* setTab(tabSummary), setTab(tabRequest).
BodyTab(p) ==
  /\ mode = "detail"
  /\ pane' = "body" /\ part' = p /\ Refetch(p, secret)
  /\ UNCHANGED <<where, mode, open, secret, held, screen>>

\* setTab(tabExplain): what is there is shown.
ExplainTab ==
  /\ mode = "detail" /\ open # 0
  /\ pane' = "explain"
  /\ IF explain = None
     THEN Ask({[kind |-> "explain", of |-> open]}) /\ loading' = TRUE /\ UNCHANGED screen
     ELSE screen' = Content("explain", detail, explain, diff) /\ UNCHANGED <<asked, loading>>
  /\ UNCHANGED <<where, mode, open, part, secret, held>>

DiffTab ==
  /\ mode = "detail" /\ diff # None
  /\ pane' = "diff" /\ screen' = Content("diff", detail, explain, diff)
  /\ UNCHANGED <<where, mode, open, part, secret, held, loading, asked>>

\* S.
Reveal ==
  /\ mode = "detail"
  /\ secret' = ~secret /\ Refetch(part, ~secret)
  /\ UNCHANGED <<where, mode, open, part, held, pane, screen>>

\* `/`, `?` and `o`, and the way back from them.
Prompt ==
  /\ mode = "detail" /\ mode' = "input"
  /\ UNCHANGED <<where, open, part, secret, held, pane, loading, screen, asked>>

Return ==
  /\ mode = "input" /\ mode' = "detail"
  /\ UNCHANGED <<where, open, part, secret, held, pane, loading, screen, asked>>

\* An EvDone of the open flow.
Finished ==
  /\ open # 0 /\ Ask({AskDetail(open, part, secret)})
  /\ UNCHANGED <<where, mode, open, part, secret, held, pane, loading, screen>>

-----------------------------------------------------------------------------
(* Answers. *)

\* Mutant: any flow's answer is taken for that of the open one.
DetailOfAny(r) ==
  /\ r.kind = "detail" /\ asked' = asked \ {r}
  /\ loading' = FALSE /\ detail' = r.of
  /\ screen' = Content(pane, r.of, explain, diff)
  /\ UNCHANGED <<where, mode, open, part, secret, explain, diff, marked, pane>>

\* detailMsg: the flow is compared, the rest of the query is not.
Detail(r) ==
  /\ r.kind = "detail" /\ asked' = asked \ {r}
  /\ IF r.of.id # open THEN UNCHANGED <<loading, detail, screen>>
     ELSE /\ loading' = FALSE /\ detail' = r.of
          /\ screen' = Content(pane, r.of, explain, diff)
  /\ UNCHANGED <<where, mode, open, part, secret, explain, diff, marked, pane>>

\* explainMsg: where there is nothing to explain, the summary.
Explained(r) ==
  /\ r.kind = "explain"
  /\ CASE r.of # open -> asked' = asked \ {r} /\ UNCHANGED <<loading, explain, pane, part, screen>>
       [] r.of = open /\ r.of \in Llm ->
            /\ asked' = asked \ {r} /\ loading' = FALSE /\ explain' = r.of /\ pane' = "explain"
            /\ screen' = Content("explain", detail, r.of, diff) /\ UNCHANGED part
       [] r.of = open /\ r.of \notin Llm /\ pane # "explain" ->
            asked' = asked \ {r} /\ loading' = FALSE /\ UNCHANGED <<explain, pane, part, screen>>
       [] OTHER ->
            /\ asked' = (asked \ {r}) \cup {AskDetail(open, "both", secret)}
            /\ loading' = TRUE /\ pane' = "body" /\ part' = "both" /\ UNCHANGED <<explain, screen>>
  /\ UNCHANGED <<where, mode, open, secret, detail, diff, marked>>

\* diffMsg: whatever the user has turned to meanwhile.
Diffed(r) ==
  /\ r.kind = "diff" /\ asked' = asked \ {r}
  /\ loading' = FALSE
  /\ diff' = r.of /\ pane' = "diff" /\ mode' = "detail"
  /\ open' = IF Selected(cursor, n) = 0 THEN open ELSE Selected(cursor, n)
  /\ screen' = Content("diff", detail, explain, r.of)
  /\ UNCHANGED <<where, part, secret, detail, explain, marked>>

\* A diff that failed.
DiffFailed(r) ==
  /\ r.kind = "diff" /\ asked' = asked \ {r}
  /\ loading' = FALSE /\ screen' = Content(pane, detail, explain, diff)
  /\ UNCHANGED <<where, mode, open, part, secret, held, pane>>

Key ==
  \/ Down \/ (\E p \in {"body", "explain"} : Open(p)) \/ Mark \/ AskDiff \/ Close \/ NextFlow
  \/ (\E p \in {"both", "request"} : BodyTab(p)) \/ ExplainTab \/ DiffTab \/ Reveal
  \/ Prompt \/ Return

Message == \E r \in asked : Detail(r) \/ Explained(r) \/ Diffed(r) \/ DiffFailed(r)

Next == Arrive \/ Finished \/ Key \/ Message

Spec == Init /\ [][Next]_view

-----------------------------------------------------------------------------
(* What the detail view promises. *)

\* A body on screen is that of the flow in the head, or an answer for that
\* flow is under way: no late answer, no tab, no move through the list leaves
\* another flow's body behind (detailMsg, openDetail, setTab).
BodyCatchesUp ==
  mode = "detail" /\ open # 0 /\ pane = "body" =>
    \/ screen.pane = "body" /\ screen.of # None /\ screen.of.id = open
    \/ \E r \in asked : r.kind = "detail" /\ r.of.id = open

\* A closed view is empty and stays so: answers that come after it was closed
\* neither open it nor fill it, but for a diff the user has asked for
\* (closeDetail, detailMsg, explainMsg).
ClosedStaysEmpty ==
  /\ open = 0 => detail = None /\ explain = None
  /\ mode = "list" => open = 0 /\ screen.of = None

-----------------------------------------------------------------------------
(* What one would expect of it and TLC refutes; no run checks these. *)

\* Once every answer is in, the screen shows what the keys last asked for.
SettledQuery ==
  asked = {} /\ mode = "detail" /\ pane = "body" /\ open # 0 => screen.of = Query(open)

\* The explanation shown is that of the flow in the head.
ExplainIsOfFlow == mode = "detail" /\ pane = "explain" /\ screen.pane = "explain"
                     => screen.of \in {None, open}

\* The diff shown has the flow in the head on its right-hand side.
DiffIsOfFlow == mode = "detail" /\ pane = "diff" => diff[2] = open

\* An arrival does not change which flow is selected.
SelectionKept == [][n' # n /\ ~follow => Selected(cursor', n') = Selected(cursor, n)]_view

\* Nothing but a key ends a prompt.
PromptKept == [][mode = "input" /\ mode' # mode => asked' = asked]_view
=============================================================================
