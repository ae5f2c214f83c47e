------------------------------ MODULE TuiList ------------------------------
(***************************************************************************)
(* The flow list of the terminal UI (internal/tui model.go and data.go):   *)
(* its table, the filter over it, reloads with their generation, the event *)
(* stream, pausing and clearing, against a daemon whose answers and events *)
(* come over different connections and so in any order.                    *)
(*                                                                         *)
(* A row is the stage of its flow.  "all" is the empty filter; "status"    *)
(* stands for one the row decides, once it is done; "tag" for one only the *)
(* daemon decides.                                                         *)
(***************************************************************************)
EXTENDS Naturals, FiniteSets, Sequences, FiniteSetsExt, Functions

CONSTANTS MaxFlows,    \* bound on the flows captured: their ids are 1..MaxFlows
          MaxRows,     \* flowTable.max
          PageLimit,   \* rows of an answer (200)
          MaxStream,   \* events the bus holds for the UI
          MaxLoads,    \* bound on flowsGen, which a clear raises too
          Tagged,      \* the flows the daemon finds for "tag"
          Nil          \* no hits yet

VARIABLES
  kept,       \* the daemon's ring: [id -> [stage, at]], at by when it was put in
  live,       \* the flows that go on, in the ring or not
  last,       \* the highest id given
  stream,     \* events under way to the UI
  asked,      \* flow requests not answered yet
  answers,    \* answers under way: [gen, filter, rows]
  clear,      \* doClear: "no", "asked", or its answer "under way"
  rows,       \* flowTable: [id -> stage]; newest first is by id
  filter, hits, watermark, gen, paused,   \* of Model
  missed,     \* flows whose last event the UI did not get, or did not keep
  cleared     \* flows the UI knows the daemon dropped, and has not recorded since

list == <<kept, live, last, stream, asked, answers, clear, rows, filter, hits,
          watermark, gen, paused, missed, cleared>>
backend == <<kept, live, last, asked, clear>>

Stage == {"active", "done"}
Filters == {"all", "status", "tag"}
Ids == 1..MaxFlows

\* The n highest of a set of ids.
Newest(S, n) == {i \in S : Cardinality({j \in S : j > i}) < n}
Last(S) == Max(S \cup {0})

\* rowMatcher.match: what a row can decide.
RowMatch(f, stage) == f = "status" => stage = "done"

\* The daemon's answer to a filter: a page of what was put into the ring last.
DaemonMatch(f, id, stage) == RowMatch(f, stage) /\ (f = "tag" => id \in Tagged)
Page(f) ==
  LET found == {i \in DOMAIN kept : DaemonMatch(f, i, kept[i].stage)}
  IN  [i \in {i \in found : Cardinality({j \in found : kept[j].at > kept[i].at}) < PageLimit} |->
         kept[i].stage]

\* Model.applyFilter, which every change of what it reads is followed by.
Visible ==
  IF filter = "all" THEN DOMAIN rows
  ELSE {i \in DOMAIN rows : /\ RowMatch(filter, rows[i])
                            /\ hits # Nil /\ i <= watermark => i \in hits}

\* flowTable.put of several rows, whatever their order: known rows are
\* replaced, the oldest fall off.
Put(table, new) ==
  LET all == [i \in DOMAIN table \cup DOMAIN new |-> IF i \in DOMAIN new THEN new[i] ELSE table[i]]
  IN  Restrict(all, Newest(DOMAIN all, MaxRows))

TypeOK ==
  /\ DOMAIN kept \subseteq Ids /\ live \subseteq Ids /\ DOMAIN rows \subseteq Ids /\ last \in 0..MaxFlows
  /\ Len(stream) <= MaxStream /\ filter \in Filters
  /\ hits = Nil \/ hits \subseteq Ids
  /\ watermark \in 0..MaxFlows /\ gen \in 0..MaxLoads + 1 /\ paused \in BOOLEAN

\* Model.Init has subscribed and asked for the first page.
Init ==
  /\ kept = <<>> /\ live = {} /\ last = 0 /\ stream = <<>> /\ answers = {} /\ clear = "no"
  /\ rows = <<>> /\ filter = "all" /\ hits = Nil /\ watermark = 0 /\ paused = FALSE
  /\ gen = 1 /\ asked = {[gen |-> 1, filter |-> "all"]} /\ missed = {} /\ cleared = {}

-----------------------------------------------------------------------------
(* The daemon. *)

\* Bus.Publish to a subscription that may be full: its oldest event goes.
Publish(ev) ==
  IF Len(stream) < MaxStream THEN stream' = Append(stream, ev) /\ UNCHANGED missed
  ELSE stream' = Append(Tail(stream), ev) /\ missed' = missed \cup {Head(stream).id}

\* Mem.Upsert: a flow that is not in the ring is put in as the last one.  Once
\* it is in again, it is not a flow that was dropped.
Upsert(i, stage) ==
  /\ kept' = [j \in DOMAIN kept \cup {i} |->
               IF j # i THEN kept[j]
               ELSE [stage |-> stage,
                     at |-> IF i \in DOMAIN kept THEN kept[i].at ELSE Cardinality(DOMAIN kept) + 1]]
  /\ cleared' = cleared \ {i}
  /\ Publish([id |-> i, stage |-> stage])
  /\ UNCHANGED <<asked, answers, clear, rows, filter, hits, watermark, gen, paused>>

Start ==
  /\ last < MaxFlows
  /\ last' = last + 1 /\ live' = live \cup {last + 1}
  /\ Upsert(last + 1, "active")

\* A flow that goes on and whose record a clear dropped is recorded again.
Updated(i) == i \in live /\ Upsert(i, "active") /\ UNCHANGED <<live, last>>

Done(i) ==
  /\ i \in live /\ live' = live \ {i}
  /\ Upsert(i, "done") /\ UNCHANGED last

Answer(q) ==
  /\ q \in asked
  /\ asked' = asked \ {q}
  /\ answers' = answers \cup {[gen |-> q.gen, filter |-> q.filter, rows |-> Page(q.filter)]}
  /\ UNCHANGED <<kept, live, last, clear, stream, rows, filter, hits, watermark, gen, paused,
                 missed, cleared>>

\* Capture "clear".
Clear ==
  /\ clear = "asked"
  /\ kept' = <<>> /\ clear' = "under way"
  /\ UNCHANGED <<live, last, asked, answers, stream, rows, filter, hits, watermark, gen, paused,
                 missed, cleared>>

-----------------------------------------------------------------------------
(* The UI: Model.Update and the keys of the list. *)

\* Model.reloadFlows.
Reload(f) ==
  /\ gen' = gen + 1
  /\ asked' = asked \cup {[gen |-> gen + 1, filter |-> f]}

\* setFilter, with `/` and enter, an item of the menu, or esc for "all".
SetFilter(f) ==
  /\ gen < MaxLoads /\ ~(f = "all" /\ filter = "all")
  /\ filter' = f /\ hits' = Nil /\ watermark' = Last(DOMAIN rows)
  /\ Reload(f)
  /\ UNCHANGED <<kept, live, last, clear, stream, answers, rows, paused, missed, cleared>>

\* Mutant: whatever was asked first is taken for the answer to the filter.
FlowsOfAny(a) ==
  /\ a \in answers
  /\ answers' = answers \ {a}
  /\ rows' = Put(rows, a.rows) /\ hits' = IF filter = "all" THEN Nil ELSE DOMAIN a.rows
  /\ UNCHANGED <<backend, stream, filter, watermark, gen, paused, missed, cleared>>

\* flowsMsg.
Flows(a) ==
  /\ a \in answers
  /\ answers' = answers \ {a}
  /\ IF a.gen # gen THEN UNCHANGED <<rows, hits>>
     ELSE /\ rows' = Put(rows, a.rows)
          /\ hits' = IF a.filter = "all" THEN Nil ELSE DOMAIN a.rows
  /\ UNCHANGED <<backend, stream, filter, watermark, gen, paused, missed, cleared>>

\* eventMsg: an event that comes while the list is paused is not shown later.  What
\* is put into the table before the answer to a clear goes with the rest.
Event ==
  LET ev == Head(stream) IN
  /\ stream # <<>>
  /\ stream' = Tail(stream)
  /\ rows' = IF paused THEN rows ELSE Put(rows, [i \in {ev.id} |-> ev.stage])
  /\ missed' = IF paused \/ clear = "under way" THEN missed \cup {ev.id} ELSE missed \ {ev.id}
  /\ UNCHANGED <<backend, answers, filter, hits, watermark, gen, paused, cleared>>

\* space.
Pause ==
  /\ paused' = ~paused
  /\ UNCHANGED <<backend, answers, stream, rows, filter, hits, watermark, gen, missed, cleared>>

\* X X: doClear.
PressClear ==
  /\ clear = "no" /\ gen < MaxLoads /\ DOMAIN rows # {}
  /\ clear' = "asked"
  /\ UNCHANGED <<kept, live, last, asked, answers, stream, rows, filter, hits, watermark, gen, paused,
                 missed, cleared>>

\* Mutant: answers asked for before the clear still count.
ClearedOnly ==
  /\ clear = "under way"
  /\ clear' = "no" /\ rows' = <<>> /\ hits' = Nil /\ watermark' = 0
  /\ cleared' = 1..last \ DOMAIN kept
  /\ UNCHANGED <<kept, live, last, gen, asked, answers, stream, filter, paused, missed>>

\* clearedMsg: the filter stays, and what has arrived since the daemon
\* cleared goes with the rest.
Cleared ==
  /\ clear = "under way"
  /\ clear' = "no" /\ rows' = <<>> /\ gen' = gen + 1 /\ hits' = Nil /\ watermark' = 0
  /\ cleared' = 1..last \ DOMAIN kept
  /\ UNCHANGED <<kept, live, last, asked, answers, stream, filter, paused, missed>>

Next ==
  \/ Start \/ (\E i \in Ids : Updated(i) \/ Done(i)) \/ (\E q \in asked : Answer(q)) \/ Clear
  \/ (\E f \in Filters : SetFilter(f)) \/ (\E a \in answers : Flows(a))
  \/ Event \/ Pause \/ PressClear \/ Cleared

Spec == Init /\ [][Next]_list

-----------------------------------------------------------------------------
(* What the list promises (CHANGELOG.md:35, comments of model.go, data.go). *)

\* Once the daemon has answered a filter, no row from before the filter shows
\* that this filter's answer does not hold, whatever was answered in between;
\* and without a filter everything in the table shows (setFilter, flowsMsg).
FilterHolds ==
  /\ filter = "all" => Visible = DOMAIN rows
  /\ filter = "tag" /\ hits # Nil => \A i \in Visible : i <= watermark => i \in Tagged

\* When nothing is under way, every flow in the ring has a row, or has fallen off
\* the end of a full table; but for those whose last event was dropped, or came
\* while the list was paused or between the daemon's clearing and the UI's.
\* Filters set and left, their late answers and flows that a clear found under way
\* lose nothing (merge, flowsGen).
NothingForgotten ==
  stream = <<>> /\ asked = {} /\ answers = {} /\ clear = "no"
    => \A i \in DOMAIN kept \ missed :
         i \in DOMAIN rows \/ Cardinality({j \in DOMAIN rows : j > i}) >= MaxRows

\* No answer brings back what the user has seen cleared, unless the daemon has
\* recorded it again since, as it does with a flow that goes on (clearedMsg,
\* flowsGen++, Daemon.Done).
ClearedStaysAway ==
  [][\A i \in DOMAIN rows' \ DOMAIN rows :
       i \in cleared => stream' # stream]_list

\* The list only ever grows, but for a clear and the oldest row of a full
\* table (data.go merge).
OnlyGrows ==
  [][clear = "under way" \/ \A i \in DOMAIN rows \ DOMAIN rows' :
       Cardinality({j \in DOMAIN rows' : j > i}) >= MaxRows]_list

-----------------------------------------------------------------------------
(* What one would expect of it and TLC refutes; no run checks it. *)

\* Once everything has arrived, a row that the filter matches is on screen.
MatchesShow ==
  stream = <<>> /\ asked = {} /\ answers = {} /\ clear = "no"
    => \A i \in DOMAIN rows \cap DOMAIN kept :
         rows[i] = kept[i].stage /\ DaemonMatch(filter, i, rows[i]) => i \in Visible
=============================================================================
