------------------------------ MODULE FlowStore ------------------------------
(***************************************************************************)
(* What is recorded, and who reads it: exchanges that insert their flows   *)
(* into the ring (internal/store/mem.go) and their WebSocket messages into *)
(* the log (ws.go), handlers that clear or delete sessions (sessions.go),  *)
(* and clients that poll with a cursor (Tail, internal/daemon/backend.go). *)
(*                                                                         *)
(* The ring calls back without its lock when a flow leaves it, and a flow  *)
(* comes back when its exchange goes on: both make the log and the ring    *)
(* two things that have to be kept together.  Flows are numbered when they *)
(* begin and are in the ring in the order they got there.                  *)
(***************************************************************************)
EXTENDS Naturals, FiniteSets, Functions

CONSTANTS
  MaxId,     \* bound on flows
  Cap,       \* size of the ring
  PerFlow, Budget,  \* of the log, in messages
  Session,
  WebSockets, \* flows that have messages
  Cleaner,   \* control handlers that remove flows
  Poller     \* clients, each with one call of Tail at a time

Id == 1..MaxId

ASSUME ConstantsAssumption ==
  /\ MaxId \in Nat /\ Cap \in Nat \ {0} /\ PerFlow \in Nat \ {0} /\ Budget \in Nat \ {0}
  /\ WebSockets \subseteq Id /\ Session # {} /\ Cleaner \cap Id = {}

VARIABLES
  last,            \* IDGen: the flow begun last
  at, of,          \* each flow's exchange, and its session
  place, count,    \* Mem: each flow's place in the ring, oldest first, 0 if not in it
  msgs, order,     \* WSLog: messages kept of each flow, its place among those that log
  owes,            \* flows that left the ring and whose messages a goroutine must drop
  sessions, current, begun,  \* Sessions: those there are, the current one, all ever
  doing, target,   \* each cleaner, and the session it deletes
  late,            \* history: in flight when its session was deleted
  tail, since, cursor, given  \* each poller's call; history: how often it got a flow

ring   == <<place, count>>
log    == <<msgs, order>>
sess   == <<sessions, current, begun>>
clean  == <<doing, target, late>>
polls  == <<tail, since, cursor, given>>
vars   == <<last, at, of, ring, log, owes, sess, clean, polls>>

Stages == {"none", "begun", "started", "updated", "done", "over"}
Actor  == Id \cup Cleaner

TypeOK ==
  /\ last \in 0..MaxId
  /\ at \in [Id -> Stages] /\ of \in [Id -> Session]
  /\ place \in [Id -> Nat] /\ count \in Nat
  /\ msgs \in [Id -> 0..PerFlow] /\ order \in [Id -> Nat]
  /\ owes \in [Actor -> SUBSET Id]
  /\ sessions \subseteq Session /\ current \in Session /\ begun \subseteq Session
  /\ doing \in [Cleaner -> {"idle", "delete", "drop", "clear", "wipe"}]
  /\ target \in [Cleaner -> Session] /\ late \subseteq Id
  /\ tail \in [Poller -> {"idle", "look", "looked", "waiting", "woken"}]
  /\ since \in [Poller -> 0..MaxId] /\ cursor \in [Poller -> 0..MaxId]
  /\ given \in [Poller -> [Id -> Nat]]

Init ==
  /\ last = 0
  /\ at = [i \in Id |-> "none"]
  /\ current \in Session /\ sessions = {current} /\ begun = {current}
  /\ of = [i \in Id |-> current]
  /\ place = [i \in Id |-> 0] /\ count = 0
  /\ msgs = [i \in Id |-> 0] /\ order = [i \in Id |-> 0]
  /\ owes = [a \in Actor |-> {}]
  /\ doing = [c \in Cleaner |-> "idle"] /\ target = [c \in Cleaner |-> current]
  /\ late = {}
  /\ tail = [p \in Poller |-> "idle"]
  /\ since = [p \in Poller |-> 0] /\ cursor = [p \in Poller |-> 0]
  /\ given = [p \in Poller |-> [i \in Id |-> 0]]

\* Where each of S is among S, by the places p.
Ranked(S, p) ==
  [i \in Id |-> IF i \in S THEN Cardinality({j \in S : p[j] <= p[i]}) ELSE 0]

-----------------------------------------------------------------------------
(* Mem.                                                                    *)

InRing == {i \in Id : place[i] > 0}

\* Mutant: a full ring takes one more.
OldestOverCap(i) == IF place[i] = 0 /\ count > Cap THEN {j \in Id : place[j] = 1} ELSE {}
Oldest(i) == IF place[i] = 0 /\ count = Cap THEN {j \in Id : place[j] = 1} ELSE {}

\* In place if the flow is there, at the newest end if not.
Upsert(i) ==
  /\ IF place[i] > 0 THEN UNCHANGED ring
     ELSE IF Oldest(i) = {}
          THEN count' = count + 1 /\ place' = [place EXCEPT ![i] = count + 1]
          ELSE /\ place' = [j \in Id |-> IF j = i THEN count
                                         ELSE IF place[j] = 0 THEN 0 ELSE place[j] - 1]
               /\ UNCHANGED count
  /\ owes' = [owes EXCEPT ![i] = Oldest(i)]

\* Delete and Clear: S goes, the others keep their order.
Delete(c, S) ==
  /\ place' = Ranked(InRing \ S, place)
  /\ count' = Cardinality(InRing \ S)
  /\ owes' = [owes EXCEPT ![c] = InRing \cap S]

-----------------------------------------------------------------------------
(* WSLog.                                                                  *)

Logged == {i \in Id : msgs[i] > 0}

Used(m, S) == SumFunctionOnSet(m, S)

\* Mutant: each flow's messages are held against the budget, not all of them.
OverBudgetEach(m, p, i) ==
  {j \in Id : m[j] > 0 /\ p[j] < p[i] /\ Used(m, {j}) > Budget}
\* The oldest are forgotten until the rest is within the budget, up to the one
\* that logs.
OverBudget(m, p, i) ==
  {j \in Id : m[j] > 0 /\ p[j] < p[i] /\ Used(m, {k \in Id : p[k] >= p[j]}) > Budget}

\* Mutant: a flow keeps all its messages.
KeepAll(n) == n + 1
\* One more message: with enough of them the flow's own oldest goes.
Keep(n) == IF n = PerFlow THEN n ELSE n + 1

Add(i) ==
  LET m == [msgs EXCEPT ![i] = Keep(@)]
      p == IF i \in Logged THEN order ELSE [order EXCEPT ![i] = Cardinality(Logged) + 1]
      gone == OverBudget(m, p, i)
  IN
  /\ at[i] = "updated" /\ owes[i] = {} /\ i \in WebSockets
  /\ msgs' = [j \in Id |-> IF j \in gone THEN 0 ELSE m[j]]
  /\ order' = Ranked({j \in Id : m[j] > 0} \ gone, p)
  /\ UNCHANGED <<last, at, of, ring, owes, sess, clean, polls>>

\* Mutant: nobody is told.
DropNothing(a, i) ==
  /\ i \in owes[a]
  /\ owes' = [owes EXCEPT ![a] = @ \ {i}]
  /\ UNCHANGED <<log, last, at, of, ring, sess, clean, polls>>
\* OnEvict, called without the ring's lock.
Drop(a, i) ==
  /\ i \in owes[a]
  /\ owes' = [owes EXCEPT ![a] = @ \ {i}]
  /\ msgs' = [msgs EXCEPT ![i] = 0]
  /\ order' = Ranked(Logged \ {i}, order)
  /\ UNCHANGED <<last, at, of, ring, sess, clean, polls>>

-----------------------------------------------------------------------------
(* An exchange.  Each call of the sink upserts, then publishes.            *)

Begin(i) ==
  /\ i = last + 1 /\ last' = i
  /\ at' = [at EXCEPT ![i] = "begun"]
  /\ of' = [of EXCEPT ![i] = current]
  /\ UNCHANGED <<ring, log, owes, sess, clean, polls>>

\* Not before what an earlier upsert evicted has been seen to.
Sink(i, from, to) ==
  /\ at[i] \in from /\ owes[i] = {}
  /\ at' = [at EXCEPT ![i] = to]
  /\ Upsert(i)
  /\ UNCHANGED <<last, of, log, sess, clean, polls>>

Started(i) == Sink(i, {"begun"}, "started")
Updated(i) == Sink(i, {"started"}, "updated")
\* An imported flow is done when it begins.
Done(i) == Sink(i, {"begun", "started", "updated"}, "done")

\* Publishing wakes the pollers that have subscribed.
Published(i) ==
  /\ at[i] = "done" /\ owes[i] = {}
  /\ at' = [at EXCEPT ![i] = "over"]
  /\ tail' = [p \in Poller |-> IF tail[p] = "waiting" /\ i > since[p] THEN "woken" ELSE tail[p]]
  /\ UNCHANGED <<last, of, ring, log, owes, sess, clean, since, cursor, given>>

\* A breakpoint publishes that it holds the flow, which changes nothing of it.
Held(i) ==
  /\ at[i] = "started"
  /\ \E p \in Poller : tail[p] = "waiting" /\ i > since[p]
  /\ tail' = [p \in Poller |-> IF tail[p] = "waiting" /\ i > since[p] THEN "woken" ELSE tail[p]]
  /\ UNCHANGED <<last, at, of, ring, log, owes, sess, clean, since, cursor, given>>

-----------------------------------------------------------------------------
(* Sessions.                                                               *)

StartSession(s) ==
  /\ s \notin begun
  /\ sessions' = sessions \cup {s} /\ current' = s /\ begun' = begun \cup {s}
  /\ UNCHANGED <<last, at, of, ring, log, owes, clean, polls>>

\* Mutant: the current session can be deleted.
ForgetAny(c, s) ==
  /\ doing[c] = "idle" /\ s \in sessions
  /\ sessions' = sessions \ {s}
  /\ doing' = [doing EXCEPT ![c] = "delete"] /\ target' = [target EXCEPT ![c] = s]
  /\ UNCHANGED <<last, at, of, ring, log, owes, current, begun, late, polls>>
\* DeleteSession: first the session, ...
Forget(c, s) ==
  /\ doing[c] = "idle" /\ s \in sessions /\ s # current
  /\ sessions' = sessions \ {s}
  /\ doing' = [doing EXCEPT ![c] = "delete"] /\ target' = [target EXCEPT ![c] = s]
  /\ UNCHANGED <<last, at, of, ring, log, owes, current, begun, late, polls>>

InFlight(i) == at[i] \in {"begun", "started", "updated"}

\* ... then its flows, ...
DeleteFlows(c) ==
  /\ doing[c] = "delete"
  /\ LET S == {i \in Id : of[i] = target[c]} IN
       Delete(c, S) /\ late' = late \cup {i \in S : InFlight(i)}
  /\ doing' = [doing EXCEPT ![c] = "drop"]
  /\ UNCHANGED <<last, at, of, log, sess, target, polls>>

\* Capture "clear": the flows, ...
Clear(c) ==
  /\ doing[c] = "idle"
  /\ Delete(c, Id)
  /\ doing' = [doing EXCEPT ![c] = "wipe"]
  /\ UNCHANGED <<last, at, of, log, sess, target, late, polls>>

\* ... and when their messages have been dropped, one by one, the log.
Wipe(c) ==
  /\ doing[c] = "wipe" /\ owes[c] = {}
  /\ msgs' = [i \in Id |-> 0] /\ order' = [i \in Id |-> 0]
  /\ doing' = [doing EXCEPT ![c] = "idle"]
  /\ UNCHANGED <<last, at, of, ring, owes, sess, target, late, polls>>

Deleted(c) ==
  /\ doing[c] = "drop" /\ owes[c] = {}
  /\ doing' = [doing EXCEPT ![c] = "idle"]
  /\ UNCHANGED <<last, at, of, ring, log, owes, sess, target, late, polls>>

-----------------------------------------------------------------------------
(* Tail.                                                                   *)

\* Everything newer in the ring than a flow it has passed is looked at.
Looked(s) == {i \in InRing : \A j \in InRing : place[j] >= place[i] => j > s}
Rows(s) == {i \in Looked(s) : ~InFlight(i)}

\* Mutant: the cursor is that of the row that comes first.
CursorOfOldest(s, rows) ==
  IF rows = {} THEN {s} ELSE {i \in rows : \A j \in rows : place[j] >= place[i]}
\* The highest id of the rows, the old cursor if there are none.
NextCursor(s, rows) == {n \in rows \cup {s} : \A m \in rows \cup {s} : m <= n}

Return(p, rows) ==
  /\ tail' = [tail EXCEPT ![p] = "idle"]
  /\ \E n \in NextCursor(since[p], rows) :
       cursor' = [cursor EXCEPT ![p] = IF n = 0 THEN last ELSE n]
  /\ given' = [given EXCEPT ![p] =
       [i \in Id |-> IF i \in rows THEN given[p][i] + 1 ELSE given[p][i]]]
  /\ UNCHANGED <<last, at, of, ring, log, owes, sess, clean, since>>

\* From now on, or from the cursor of the last call.
Call(p) ==
  /\ tail[p] = "idle" /\ tail' = [tail EXCEPT ![p] = "look"]
  /\ \E n \in {last, cursor[p]} : since' = [since EXCEPT ![p] = n]
  /\ UNCHANGED <<last, at, of, ring, log, owes, sess, clean, cursor, given>>

Look(p) ==
  /\ tail[p] = "look"
  /\ IF Rows(since[p]) # {} THEN Return(p, Rows(since[p]))
     ELSE /\ tail' = [tail EXCEPT ![p] = "looked"]
          /\ UNCHANGED <<last, at, of, ring, log, owes, sess, clean, since, cursor, given>>

Subscribe(p) ==
  /\ tail[p] = "looked" /\ tail' = [tail EXCEPT ![p] = "waiting"]
  /\ UNCHANGED <<last, at, of, ring, log, owes, sess, clean, since, cursor, given>>

TimedOut(p) == tail[p] = "waiting" /\ Return(p, {})

LookAgain(p) == tail[p] = "woken" /\ Return(p, Rows(since[p]))

-----------------------------------------------------------------------------
Exchange(i) ==
  \/ Begin(i) \/ Started(i) \/ Updated(i) \/ Done(i) \/ Published(i) \/ Held(i)
  \/ Add(i)

Clean(c) ==
  \/ \E s \in Session : Forget(c, s)
  \/ DeleteFlows(c) \/ Deleted(c) \/ Clear(c) \/ Wipe(c)

\* One call of Tail.
Poll(p) == Call(p) \/ Look(p) \/ Subscribe(p) \/ TimedOut(p) \/ LookAgain(p)

Next ==
  \/ \E i \in Id : Exchange(i)
  \/ \E a \in Actor, i \in Id : Drop(a, i)
  \/ \E s \in Session : StartSession(s)
  \/ \E c \in Cleaner : Clean(c)
  \/ \E p \in Poller : Poll(p)

Spec == Init /\ [][Next]_vars

-----------------------------------------------------------------------------
(* Properties.                                                             *)

\* mem.go: "a fixed-size ring", "newest last".  Places are those of a full ring
\* or less, each taken once.
RingInOrder ==
  /\ count <= Cap
  /\ {place[i] : i \in InRing} = 1..count /\ Cardinality(InRing) = count

\* docs/architecture.md: "the oldest flow is evicted and its WebSocket messages
\* go with it".  What the log keeps belongs to a flow that is in the ring, or
\* that will be, or whose messages are about to be dropped: nothing is left
\* behind that nobody can list.
LogFollowsRing ==
  \A i \in Logged :
    i \in InRing \/ at[i] = "updated" \/ \E a \in Actor : i \in owes[a]

\* However the flows take turns, the log is over its budget by less than one
\* flow's own allowance.
LogBounded == Used(msgs, Id) < Budget + PerFlow

\* docs/architecture.md: session rm "deletes a session together with its flows".
\* A flow is left of a session that is gone only while the handler is between
\* its two steps, or if its exchange was in flight then.
GoneIsGone ==
  \A i \in InRing :
    \/ of[i] \in sessions
    \/ \E c \in Cleaner : doing[c] = "delete" /\ target[c] = of[i]
    \/ i \in late

\* A client that goes on from the cursor it was given never gets a flow twice.
GivenOnce == \A p \in Poller, i \in Id : given[p][i] <= 1

\* backend.go: Tail "returns flows completed after the cursor".  No call takes
\* the cursor past a flow that is complete and in the ring without giving it.
NothingPassedOver ==
  [][\A p \in Poller : tail[p] # "idle" /\ tail'[p] = "idle" =>
       \A i \in InRing : ~InFlight(i) /\ since[p] < i /\ i <= cursor'[p] =>
         given'[p][i] > 0]_vars
=============================================================================
