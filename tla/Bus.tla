-------------------------------- MODULE Bus --------------------------------
(***************************************************************************)
(* The event bus (internal/bus/bus.go): exchanges publish, each subscriber *)
(* has a bounded queue.                                                    *)
(*                                                                         *)
(* A publisher stamps its event, then holds the bus's read lock while it   *)
(* pushes to one subscriber after the other, holding that one's mutex.     *)
(* Receiving takes no lock, so a reader may empty its queue between any    *)
(* two steps of a push.                                                    *)
(***************************************************************************)
EXTENDS Naturals, Sequences

CONSTANTS
  Exchange,  \* the goroutines that publish, one per exchange
  Reader,    \* Subscribers, each used once
  Wants,     \* the exchanges a reader's filter lets through
  Size,      \* of each queue, as asked for
  MaxSeq,    \* bound on the events published
  Nobody

ASSUME ConstantsAssumption ==
  /\ Size \in [Reader -> Nat \ {0}] /\ MaxSeq \in Nat
  /\ Wants \in [Reader -> SUBSET Exchange]
  /\ Nobody \notin Exchange

VARIABLES
  seq,       \* Bus.seq
  at, stamp, to,  \* of each exchange: where in Publish, its event, readers left
  lock,      \* who holds the mutex of each reader
  status,    \* of each reader
  queue, dropped, \* Subscriber.C and .dropped
  last, told \* history: the last event of each exchange a reader received,
             \* and how many markers

publisher  == <<seq, at, stamp, to>>
read == <<last, told>>
subscriber == <<lock, status, queue, dropped, read>>
vars == <<publisher, subscriber>>

Event  == [seq : Nat, by : Exchange]
Marker == [dropped : Nat]                     \* EvDropped

Pushing == {"mark", "try", "pop", "retry"}

TypeOK ==
  /\ seq \in 0..MaxSeq
  /\ at \in [Exchange -> {"idle", "stamped", "fan"} \cup Pushing]
  /\ stamp \in [Exchange -> 0..MaxSeq]
  /\ to \in [Exchange -> SUBSET Reader]
  /\ lock \in [Reader -> Exchange \cup {Nobody}]
  /\ status \in [Reader -> {"new", "open", "closed"}]
  /\ queue \in [Reader -> Seq(Event \cup Marker)]
  /\ \A r \in Reader : Len(queue[r]) <= Size[r]
  /\ dropped \in [Reader -> Nat]
  /\ last \in [Reader -> [Exchange -> Nat]] /\ told \in [Reader -> Nat]

Init ==
  /\ seq = 0
  /\ at = [x \in Exchange |-> "idle"]
  /\ stamp = [x \in Exchange |-> 0]
  /\ to = [x \in Exchange |-> {}]
  /\ lock = [r \in Reader |-> Nobody]
  /\ status = [r \in Reader |-> "new"]
  /\ queue = [r \in Reader |-> <<>>]
  /\ dropped = [r \in Reader |-> 0]
  /\ last = [r \in Reader |-> [x \in Exchange |-> 0]]
  /\ told = [r \in Reader |-> 0]

-----------------------------------------------------------------------------
(* Publish.                                                                *)

Stamp(x) ==
  /\ at[x] = "idle" /\ seq < MaxSeq
  /\ seq' = seq + 1
  /\ stamp' = [stamp EXCEPT ![x] = seq']
  /\ at' = [at EXCEPT ![x] = "stamped"]
  /\ UNCHANGED <<to, subscriber>>

FanOut(x) ==
  /\ at[x] = "stamped"
  /\ at' = [at EXCEPT ![x] = "fan"]
  /\ to' = [to EXCEPT ![x] = {r \in Reader : status[r] = "open"}]
  /\ UNCHANGED <<seq, stamp, subscriber>>

\* The filter is asked before the mutex is taken.
Filtered(x, r) ==
  /\ at[x] = "fan" /\ r \in to[x] /\ x \notin Wants[r]
  /\ to' = [to EXCEPT ![x] = @ \ {r}]
  /\ UNCHANGED <<seq, at, stamp, subscriber>>

Enter(x, r) ==
  /\ at[x] = "fan" /\ r \in to[x] /\ x \in Wants[r] /\ lock[r] = Nobody
  /\ lock' = [lock EXCEPT ![r] = x]
  /\ at' = [at EXCEPT ![x] = IF dropped[r] > 0 THEN "mark" ELSE "try"]
  /\ UNCHANGED <<seq, stamp, to, status, queue, dropped, read>>

Leave(x, r) ==
  /\ lock' = [lock EXCEPT ![r] = Nobody]
  /\ at' = [at EXCEPT ![x] = "fan"]
  /\ to' = [to EXCEPT ![x] = @ \ {r}]

Stay(x, step) == at' = [at EXCEPT ![x] = step] /\ UNCHANGED <<lock, to>>

\* Mutant: one more than the channel holds.
RoomForOneMore(r) == Len(queue[r]) <= Size[r]
Room(r) == Len(queue[r]) < Size[r]
Put(r, item) == queue' = [queue EXCEPT ![r] = Append(@, item)]
The(x) == [seq |-> stamp[x], by |-> x]

\* An earlier loss is reported first; with no room for that, this event is
\* lost as well.
Mark(x, r) ==
  /\ lock[r] = x /\ at[x] = "mark"
  /\ \/ /\ Room(r) /\ Put(r, [dropped |-> dropped[r]])
        /\ dropped' = [dropped EXCEPT ![r] = 0]
        /\ Stay(x, "try")
     \/ /\ ~Room(r) /\ UNCHANGED queue
        /\ dropped' = [dropped EXCEPT ![r] = @ + 1]
        /\ Leave(x, r)
  /\ UNCHANGED <<seq, stamp, status, read>>

\* Mutant: a full queue is waited for.
TryBlocks(x, r) ==
  /\ lock[r] = x /\ at[x] = "try"
  /\ Room(r) /\ Put(r, The(x)) /\ Leave(x, r)
  /\ UNCHANGED <<seq, stamp, status, dropped, read>>

Try(x, r) ==
  /\ lock[r] = x /\ at[x] = "try"
  /\ \/ Room(r) /\ Put(r, The(x)) /\ Leave(x, r)
     \/ ~Room(r) /\ Stay(x, "pop") /\ UNCHANGED queue
  /\ UNCHANGED <<seq, stamp, status, dropped, read>>

\* Mutant: a marker is spared.
OldestEvent(r) ==
  queue' = [queue EXCEPT ![r] = IF @ # <<>> /\ Head(@) \in Event THEN Tail(@) ELSE @]
Oldest(r) == queue' = [queue EXCEPT ![r] = IF @ = <<>> THEN @ ELSE Tail(@)]

\* Mutant: only an event counts as a loss, not a marker.
PopUncounted(x, r) ==
  /\ lock[r] = x /\ at[x] = "pop" /\ Oldest(r)
  /\ dropped' = [dropped EXCEPT ![r] =
       IF queue[r] # <<>> /\ Head(queue[r]) \in Event THEN @ + 1 ELSE @]
  /\ Stay(x, "retry")
  /\ UNCHANGED <<seq, stamp, status, read>>

\* By now the reader may have made room, or emptied the queue.
Pop(x, r) ==
  /\ lock[r] = x /\ at[x] = "pop" /\ Oldest(r)
  /\ dropped' = [dropped EXCEPT ![r] = @ + 1]
  /\ Stay(x, "retry")
  /\ UNCHANGED <<seq, stamp, status, read>>

Retry(x, r) ==
  /\ lock[r] = x /\ at[x] = "retry"
  /\ IF Room(r) THEN Put(r, The(x)) ELSE UNCHANGED queue
  /\ Leave(x, r)
  /\ UNCHANGED <<seq, stamp, status, dropped, read>>

Published(x) ==
  /\ at[x] = "fan" /\ to[x] = {}
  /\ at' = [at EXCEPT ![x] = "idle"]
  /\ UNCHANGED <<seq, stamp, to, subscriber>>

-----------------------------------------------------------------------------
(* Subscribers.                                                            *)

\* The write lock of the bus waits for every fan-out.
NoFanOut == \A x \in Exchange : at[x] \in {"idle", "stamped"}

Subscribe(r) ==
  /\ status[r] = "new" /\ NoFanOut
  /\ status' = [status EXCEPT ![r] = "open"]
  /\ UNCHANGED <<publisher, lock, queue, dropped, read>>

\* Once it is unsubscribed nothing pushes to it, so closing the channel and
\* the flag is one step with it.
Close(r) ==
  /\ status[r] = "open" /\ NoFanOut
  /\ status' = [status EXCEPT ![r] = "closed"]
  /\ UNCHANGED <<publisher, lock, queue, dropped, read>>

Receive(r) ==
  /\ status[r] = "open" /\ queue[r] # <<>>
  /\ LET item == Head(queue[r]) IN
       IF item \in Event
       THEN last' = [last EXCEPT ![r][item.by] = item.seq] /\ UNCHANGED told
       ELSE told' = [told EXCEPT ![r] = @ + 1] /\ UNCHANGED last
  /\ queue' = [queue EXCEPT ![r] = Tail(@)]
  /\ UNCHANGED <<publisher, lock, status, dropped>>

-----------------------------------------------------------------------------
Push(x, r) ==
  \/ Filtered(x, r) \/ Enter(x, r)
  \/ Mark(x, r) \/ Try(x, r) \/ Pop(x, r) \/ Retry(x, r)

Publishes(x) == FanOut(x) \/ Published(x) \/ \E r \in Reader : Push(x, r)

Next ==
  \/ \E x \in Exchange : Stamp(x) \/ Publishes(x)
  \/ \E r \in Reader : Subscribe(r) \/ Close(r) \/ Receive(r)

Spec == Init /\ [][Next]_vars

\* Publishers run; nobody has to read.
Fairness == \A x \in Exchange : WF_vars(Publishes(x))

FairSpec == Spec /\ Fairness

-----------------------------------------------------------------------------
(* Properties.                                                             *)

\* The event a publisher has made room for goes in: the last `select` of push
\* never takes its empty default, whoever else is publishing.
MadeRoom == \A x \in Exchange, r \in Reader :
  lock[r] = x /\ at[x] = "retry" => Room(r)

\* Losses are on record or announced, and the events of an exchange come in
\* order, although readers and several publishers work on a queue at once.
Promise == INSTANCE BusPromise
  WITH pending <- queue, missed <- [r \in Reader |-> dropped[r] > 0]
KeepsPromise == Promise!Spec

\* bus.go: "Publish ... Never blocks", whatever the readers do: "a slow consumer
\* never stalls the proxy" (docs/architecture.md).
PublishEnds == \A x \in Exchange : at[x] = "stamped" ~> at[x] = "idle"
=============================================================================
