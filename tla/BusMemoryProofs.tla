--------------------------- MODULE BusMemoryProofs ---------------------------
(***************************************************************************)
(* Proofs about what the daemon passes on and what it keeps.  Bus, for any *)
(* exchanges, readers, filters and queue sizes: the invariant says who may *)
(* touch a queue (the holder of its mutex, in the middle of a push) and    *)
(* that an event on its way to a reader is newer than everything of its    *)
(* exchange the reader has.  Memory, for any calls, sizes and limits: what *)
(* a call leaves of the entries that it is not about.                      *)
(***************************************************************************)
EXTENDS Bus, Memory, Sums, SequenceTheorems

-----------------------------------------------------------------------------
Item == Event \cup Marker

\* A marker of lost events has no sequence number of an exchange.
LEMMA MarkerIsNoEvent == ASSUME NEW n \in Nat PROVE [dropped |-> n] \in Marker \ Event
BY DEF Marker, Event

\* A queue something has joined.
LEMMA AppendFacts ==
  ASSUME NEW q \in Seq(Item), NEW e \in Item
  PROVE  /\ Append(q, e) \in Seq(Item) /\ Append(q, e) # <<>>
         /\ Len(q) \in Nat /\ Len(Append(q, e)) = Len(q) + 1
         /\ Append(q, e)[Len(Append(q, e))] = e
         /\ \A i \in 1..Len(Append(q, e)) : \/ i \in 1..Len(q) /\ Append(q, e)[i] = q[i]
                                           \/ Append(q, e)[i] = e
OBVIOUS

\* A queue whose oldest item is gone.
LEMMA TailFacts ==
  ASSUME NEW q \in Seq(Item), q # <<>>
  PROVE  /\ Tail(q) \in Seq(Item) /\ Head(q) \in Item /\ Head(q) = q[1] /\ 1 \in 1..Len(q)
         /\ Len(q) \in Nat /\ Len(Tail(q)) = Len(q) - 1
         /\ \A i \in 1..Len(Tail(q)) : i + 1 \in 1..Len(q) /\ Tail(q)[i] = q[i + 1]
OBVIOUS

\* The events of x in a queue are not newer than n.
NoNewer(q, x, n) ==
  \A i \in 1..Len(q) : q[i] \in Event /\ q[i].by = x => q[i].seq <= n

\* The same, strictly.
AllOlder(q, x, n) ==
  \A i \in 1..Len(q) : q[i] \in Event /\ q[i].by = x => q[i].seq < n

\* Still to be pushed to r.
Coming(x, r) == at[x] = "stamped" \/ r \in to[x]

\* What r has been sent, or will be, of x is older than what is to come.
HeardOf(x, r) ==
  /\ last[r][x] <= stamp[x] /\ NoNewer(queue[r], x, stamp[x])
  /\ Coming(x, r) => last[r][x] < stamp[x] /\ AllOlder(queue[r], x, stamp[x])

Turn(x) ==
  /\ stamp[x] <= seq
  /\ at[x] \in {"idle", "stamped"} => to[x] = {}

\* The holder of r's mutex is pushing to r.
Hold(r) == \A x \in Exchange : lock[r] = x =>
  /\ at[x] \in Pushing /\ r \in to[x]
  /\ at[x] = "mark" => dropped[r] > 0
  /\ at[x] = "retry" => Room(r)

\* ... and to no other reader.
Alone(x) == \A r, s \in Reader : lock[r] = x /\ lock[s] = x => r = s

Inv ==
  /\ TypeOK
  /\ \A x \in Exchange : Turn(x) /\ Alone(x)
  /\ \A r \in Reader : Hold(r)
  /\ \A x \in Exchange, r \in Reader : HeardOf(x, r)

-----------------------------------------------------------------------------
\* Nothing is published at first.
LEMMA InitInv == Init => Inv
<1>. SUFFICES ASSUME Init PROVE Inv
  OBVIOUS
<1>1. TypeOK
  BY ConstantsAssumption DEF ConstantsAssumption, Init, TypeOK
<1>2. \A x \in Exchange : Turn(x) /\ Alone(x)
  <2>1. ASSUME NEW x \in Exchange PROVE Turn(x)
    <3>1. seq = 0 /\ stamp[x] = 0 /\ to[x] = {}
      BY DEF Init
    <3>. QED BY <3>1 DEF Turn
  <2>2. \A x \in Exchange, r \in Reader : lock[r] # x
    BY ConstantsAssumption DEF ConstantsAssumption, Init
  <2>. QED BY <2>1, <2>2 DEF Alone
<1>3. \A r \in Reader : Hold(r)
  BY ConstantsAssumption DEF ConstantsAssumption, Init, Hold
<1>4. \A x \in Exchange, r \in Reader : HeardOf(x, r)
  BY DEF Init, HeardOf, NoNewer, AllOlder, Coming
<1>. QED BY <1>1, <1>2, <1>3, <1>4 DEF Inv

\* A queue another exchange's event or a marker joins is as old as it was.
LEMMA JoinKeepsOlder ==
  ASSUME NEW q \in Seq(Item), NEW e \in Item, NEW x \in Exchange, NEW n \in Nat,
         e \in Event => e.by # x
  PROVE  /\ NoNewer(q, x, n) => NoNewer(Append(q, e), x, n)
         /\ AllOlder(q, x, n) => AllOlder(Append(q, e), x, n)
BY AppendFacts DEF NoNewer, AllOlder

\* A queue older than an event is not newer once that event has joined it.
LEMMA JoinNewest ==
  ASSUME NEW q \in Seq(Item), NEW e \in Event, AllOlder(q, e.by, e.seq)
  PROVE  NoNewer(Append(q, e), e.by, e.seq)
<1>1. e \in Item /\ e.seq \in Nat
  BY DEF Item, Event
<1>2. \A i \in 1..Len(q) : q[i] \in Event => q[i].seq \in Nat
  BY DEF Event
<1>. QED BY <1>1, <1>2, AppendFacts DEF NoNewer, AllOlder

\* A queue without its oldest item is as old as it was.
LEMMA TailKeepsOlder ==
  ASSUME NEW q \in Seq(Item), q # <<>>, NEW x \in Exchange, NEW n \in Nat
  PROVE  /\ NoNewer(q, x, n) => NoNewer(Tail(q), x, n)
         /\ AllOlder(q, x, n) => AllOlder(Tail(q), x, n)
BY TailFacts DEF NoNewer, AllOlder

-----------------------------------------------------------------------------
(* Steps that leave the queues alone.                                      *)

\* A fresh stamp is newer than everything its exchange has published.
LEMMA StampInv ==
  ASSUME Inv, NEW x \in Exchange, Stamp(x)
  PROVE  Inv'
<1>. USE DEF Inv, Stamp, subscriber, read
<1>1. TypeOK'
  BY ConstantsAssumption DEF ConstantsAssumption, TypeOK, Item
<1>2. \A y \in Exchange : Turn(y)' /\ Alone(y)'
  BY DEF TypeOK, Turn, Alone
<1>3. \A r \in Reader : Hold(r)'
  <2>. SUFFICES ASSUME NEW r \in Reader, NEW y \in Exchange, lock[r] = y
               PROVE  /\ at'[y] \in Pushing /\ r \in to[y]
                      /\ at'[y] = "mark" => dropped[r] > 0
                      /\ at'[y] = "retry" => Room(r)
    BY DEF Hold, Room
  <2>. QED BY DEF Hold, TypeOK, Pushing
<1>4. ASSUME NEW y \in Exchange, NEW r \in Reader PROVE HeardOf(y, r)'
  <2>1. CASE y = x
    <3>1. /\ stamp'[x] = seq + 1 /\ stamp[x] <= seq /\ stamp[x] \in Nat /\ seq \in Nat
          /\ last[r][x] <= stamp[x] /\ last[r][x] \in Nat /\ NoNewer(queue[r], x, stamp[x])
      BY DEF TypeOK, Turn, HeardOf
    <3>2. \A i \in 1..Len(queue[r]) : queue[r][i] \in Event => queue[r][i].seq \in Nat
      BY DEF Event
    <3>3. AllOlder(queue[r], x, seq + 1) /\ NoNewer(queue[r], x, seq + 1)
      BY <3>1, <3>2 DEF AllOlder, NoNewer
    <3>. QED BY <2>1, <3>1, <3>3 DEF HeardOf, Coming
  <2>2. CASE y # x
    BY <2>2 DEF TypeOK, HeardOf, Coming
  <2>. QED BY <2>1, <2>2
<1>. QED BY <1>1, <1>2, <1>3, <1>4

\* The fan-out starts with the readers there are and ends with none left.
LEMMA FanOutInv ==
  ASSUME Inv, NEW x \in Exchange, FanOut(x) \/ Published(x)
  PROVE  Inv'
<1>. USE DEF Inv, FanOut, Published, subscriber, read
<1>1. TypeOK'
  BY ZenonT(60) DEF TypeOK
<1>2. \A y \in Exchange : Turn(y)' /\ Alone(y)'
  <2>1. ASSUME NEW y \in Exchange PROVE Turn(y)'
    BY DEF TypeOK, Turn
  <2>2. ASSUME NEW y \in Exchange PROVE Alone(y)'
    BY DEF Alone
  <2>. QED BY <2>1, <2>2
<1>3. \A r \in Reader : Hold(r)'
  <2>. SUFFICES ASSUME NEW r \in Reader, NEW y \in Exchange, lock[r] = y
               PROVE  /\ at'[y] \in Pushing /\ r \in to'[y]
                      /\ at'[y] = "mark" => dropped[r] > 0
                      /\ at'[y] = "retry" => Room(r)
    BY DEF Hold, Room
  <2>. QED BY DEF Hold, TypeOK, Pushing
<1>4. \A y \in Exchange, r \in Reader : HeardOf(y, r)'
  BY DEF TypeOK, HeardOf, Coming
<1>. QED BY <1>1, <1>2, <1>3, <1>4

\* A reader whose filter says no is passed by.
LEMMA FilteredInv ==
  ASSUME Inv, NEW x \in Exchange, NEW r \in Reader, Filtered(x, r)
  PROVE  Inv'
<1>. USE DEF Inv, Filtered, subscriber, read
<1>1. TypeOK'
  BY DEF TypeOK
<1>2. \A y \in Exchange : Turn(y)' /\ Alone(y)'
  BY DEF TypeOK, Turn, Alone
<1>3. \A s \in Reader : Hold(s)'
  <2>. SUFFICES ASSUME NEW s \in Reader, NEW y \in Exchange, lock[s] = y
               PROVE  /\ at[y] \in Pushing /\ s \in to'[y]
                      /\ at[y] = "mark" => dropped[s] > 0
                      /\ at[y] = "retry" => Room(s)
    BY DEF Hold, Room
  <2>1. y # x
    BY DEF Hold, Pushing
  <2>. QED BY <2>1 DEF Hold, TypeOK
<1>4. \A y \in Exchange, s \in Reader : HeardOf(y, s)'
  BY DEF TypeOK, HeardOf, Coming
<1>. QED BY <1>1, <1>2, <1>3, <1>4

\* Taking a mutex: it was free, and its taker holds no other.
LEMMA EnterInv ==
  ASSUME Inv, NEW x \in Exchange, NEW r \in Reader, Enter(x, r)
  PROVE  Inv'
<1>. USE DEF Inv, Enter, read
<1>1. TypeOK'
  BY DEF TypeOK, Pushing
<1>2. \A s \in Reader : lock[s] # x
  BY DEF Hold, Pushing
<1>3. \A y \in Exchange : Turn(y)' /\ Alone(y)'
  <2>1. ASSUME NEW y \in Exchange PROVE Turn(y)'
    BY DEF TypeOK, Turn
  <2>2. lock' = [s \in Reader |-> IF s = r THEN x ELSE lock[s]]
    BY DEF TypeOK
  <2>3. ASSUME NEW y \in Exchange PROVE Alone(y)'
    <3>1. \A s \in Reader : lock'[s] = IF s = r THEN x ELSE lock[s]
      BY <2>2
    <3>. QED BY <1>2, <3>1 DEF Alone
  <2>. QED BY <2>1, <2>3
<1>4. \A s \in Reader : Hold(s)'
  <2>. SUFFICES ASSUME NEW s \in Reader, NEW y \in Exchange, lock'[s] = y
               PROVE  /\ at'[y] \in Pushing /\ s \in to[y]
                      /\ at'[y] = "mark" => dropped[s] > 0
                      /\ at'[y] = "retry" => Room(s)
    BY DEF Hold, Room
  <2>1. CASE s = r
    BY <2>1 DEF TypeOK, Pushing
  <2>2. CASE s # r
    BY <2>2, <1>2 DEF TypeOK, Hold
  <2>. QED BY <2>1, <2>2
<1>5. \A y \in Exchange, s \in Reader : HeardOf(y, s)'
  BY DEF TypeOK, HeardOf, Coming
<1>. QED BY <1>1, <1>3, <1>4, <1>5

\* Readers come and go between fan-outs.
LEMMA ComeAndGoInv ==
  ASSUME Inv, NEW r \in Reader, Subscribe(r) \/ Close(r)
  PROVE  Inv'
<1>. USE DEF Inv, Subscribe, Close, publisher, read
<1>1. TypeOK'
  BY DEF TypeOK
<1>2. \A y \in Exchange : Turn(y)' /\ Alone(y)'
  BY DEF Turn, Alone
<1>3. \A s \in Reader : Hold(s)'
  BY DEF Hold, Room
<1>4. \A y \in Exchange, s \in Reader : HeardOf(y, s)'
  BY DEF HeardOf, Coming
<1>. QED BY <1>1, <1>2, <1>3, <1>4

-----------------------------------------------------------------------------
(* The steps of a push.                                                    *)

\* What they have in common: the holder of r's mutex goes to another step of
\* its push, or leaves r.
Pushes(x, r, step) ==
  /\ lock[r] = x /\ at[x] \in Pushing /\ step \in Pushing \cup {"fan"}
  /\ at' = [at EXCEPT ![x] = step]
  /\ \/ step # "fan" /\ UNCHANGED <<lock, to>>
     \/ /\ step = "fan" /\ lock' = [lock EXCEPT ![r] = Nobody]
        /\ to' = [to EXCEPT ![x] = @ \ {r}]
  /\ \A s \in Reader \ {r} : queue'[s] = queue[s] /\ dropped'[s] = dropped[s]
  /\ UNCHANGED <<seq, stamp, status, last, told>>

\* Such a step disturbs neither other readers nor other publishers.
LEMMA PushKeeps ==
  ASSUME Inv, NEW x \in Exchange, NEW r \in Reader, NEW step, Pushes(x, r, step)
  PROVE  /\ \A y \in Exchange : Turn(y)' /\ Alone(y)'
         /\ \A s \in Reader \ {r} : Hold(s)'
         /\ \A y \in Exchange, s \in Reader \ {r} : HeardOf(y, s)'
         /\ \A y \in Exchange, s \in Reader : Coming(y, s)' => Coming(y, s)
<1>. USE DEF Inv, Pushes, Pushing
<1>0. Nobody \notin Exchange
  BY ConstantsAssumption DEF ConstantsAssumption
<1>1. ASSUME NEW y \in Exchange PROVE Turn(y)' /\ Alone(y)'
  <2>1. at'[y] \in {"idle", "stamped"} => at'[y] = at[y] /\ to'[y] = to[y]
    BY DEF TypeOK
  <2>2. Turn(y)'
    BY <2>1 DEF Turn
  <2>3. \A s \in Reader : lock'[s] = y => lock[s] = y
    BY <1>0 DEF TypeOK
  <2>. QED BY <2>2, <2>3 DEF Alone
<1>2. \A y \in Exchange, s \in Reader : Coming(y, s)' => Coming(y, s)
  BY DEF TypeOK, Coming
<1>3. ASSUME NEW s \in Reader \ {r} PROVE Hold(s)'
  <2>. SUFFICES ASSUME NEW y \in Exchange, lock'[s] = y
               PROVE  /\ at'[y] \in Pushing /\ s \in to'[y]
                      /\ at'[y] = "mark" => dropped'[s] > 0
                      /\ at'[y] = "retry" => Len(queue'[s]) < Size[s]
    BY DEF Hold, Room
  <2>1. y # x /\ lock[s] = y
    BY DEF TypeOK, Alone
  <2>2. at'[y] = at[y] /\ to'[y] = to[y]
    BY <2>1 DEF TypeOK
  <2>. QED BY <2>1, <2>2 DEF Hold, Room
<1>4. \A y \in Exchange, s \in Reader \ {r} : HeardOf(y, s)'
  BY <1>2 DEF HeardOf
<1>. QED BY <1>1, <1>2, <1>3, <1>4

\* A queue that is no newer leaves what its reader has seen in order.
LEMMA SeenStays ==
  ASSUME NEW x \in Exchange, NEW r \in Reader, HeardOf(x, r),
         Coming(x, r)' => Coming(x, r), UNCHANGED <<stamp, last>>,
         NoNewer(queue[r], x, stamp[x]) => NoNewer(queue'[r], x, stamp[x]),
         AllOlder(queue[r], x, stamp[x]) => AllOlder(queue'[r], x, stamp[x])
  PROVE  HeardOf(x, r)'
<1>1. NoNewer(queue'[r], x, stamp'[x]) = NoNewer(queue[r], x, stamp[x])'
  BY DEF NoNewer
<1>2. AllOlder(queue'[r], x, stamp'[x]) = AllOlder(queue[r], x, stamp[x])'
  BY DEF AllOlder
<1>. QED BY <1>1, <1>2 DEF HeardOf

\* A marker is put in, or the event is given up.
LEMMA MarkInv ==
  ASSUME Inv, NEW x \in Exchange, NEW r \in Reader, Mark(x, r)
  PROVE  Inv'
<1>. USE DEF Inv, Mark, read
<1>0. queue[r] \in Seq(Item) /\ dropped[r] \in Nat /\ Size[r] \in Nat /\ Nobody \notin Exchange
  BY ConstantsAssumption DEF ConstantsAssumption, TypeOK, Item
<1>1. CASE Room(r) /\ Put(r, [dropped |-> dropped[r]]) /\ Stay(x, "try")
           /\ dropped' = [dropped EXCEPT ![r] = 0]
  <2>. DEFINE m == [dropped |-> dropped[r]]
  <2>1. m \in Item /\ m \notin Event
    BY <1>0, MarkerIsNoEvent DEF Item
  <2>2. queue' = [queue EXCEPT ![r] = Append(queue[r], m)]
    BY <1>1 DEF Put
  <2>3. Append(queue[r], m) \in Seq(Item) /\ Len(Append(queue[r], m)) <= Size[r]
    BY <1>0, <1>1, <2>1, AppendFacts DEF Room
  <2>4. Pushes(x, r, "try")
    BY <1>1, <2>2 DEF Pushes, Stay, Pushing, TypeOK
  <2>. HIDE DEF m
  <2>5. TypeOK'
    BY <1>1, <2>2, <2>3 DEF TypeOK, Stay, Pushing, Item
  <2>6. Hold(r)'
    BY <1>1, <2>4 DEF Hold, Pushes, Pushing, TypeOK
  <2>7. ASSUME NEW y \in Exchange PROVE HeardOf(y, r)'
    <3>1. stamp[y] \in Nat
      BY DEF TypeOK
    <3>2. queue'[r] = Append(queue[r], m)
      BY <2>2 DEF TypeOK
    <3>3. /\ NoNewer(queue[r], y, stamp[y]) => NoNewer(queue'[r], y, stamp[y])
          /\ AllOlder(queue[r], y, stamp[y]) => AllOlder(queue'[r], y, stamp[y])
      BY <1>0, <2>1, <3>1, <3>2, JoinKeepsOlder
    <3>. QED BY <2>4, <3>3, PushKeeps, SeenStays DEF Pushes
  <2>. QED BY <2>4, <2>5, <2>6, <2>7, PushKeeps
<1>2. CASE ~Room(r) /\ UNCHANGED queue /\ Leave(x, r)
           /\ dropped' = [dropped EXCEPT ![r] = @ + 1]
  <2>1. Pushes(x, r, "fan")
    BY <1>2 DEF Pushes, Leave, Pushing, TypeOK
  <2>2. TypeOK'
    BY <1>0, <1>2, SMTT(60) DEF TypeOK, Leave
  <2>3. Hold(r)'
    BY <1>0, <2>1 DEF Hold, Pushes, TypeOK
  <2>4. \A y \in Exchange : HeardOf(y, r)'
    BY <1>2, <2>1, PushKeeps, SeenStays DEF Pushes
  <2>. QED BY <2>1, <2>2, <2>3, <2>4, PushKeeps
<1>. QED BY <1>1, <1>2

\* The event goes in and the push is over.
LEMMA PutInv ==
  ASSUME Inv, NEW x \in Exchange, NEW r \in Reader, lock[r] = x, at[x] \in Pushing,
         Room(r), Put(r, The(x)), Leave(x, r),
         UNCHANGED <<seq, stamp, status, dropped, read>>
  PROVE  Inv'
<1>. USE DEF Inv, read
<1>0. /\ queue[r] \in Seq(Item) /\ Size[r] \in Nat /\ Nobody \notin Exchange
      /\ The(x) \in Event /\ The(x) \in Item /\ The(x).by = x /\ The(x).seq = stamp[x]
  BY ConstantsAssumption DEF ConstantsAssumption, TypeOK, Item, The, Event
<1>1. queue' = [queue EXCEPT ![r] = Append(queue[r], The(x))]
  BY DEF Put
<1>2. Append(queue[r], The(x)) \in Seq(Item) /\ Len(Append(queue[r], The(x))) <= Size[r]
  BY <1>0, AppendFacts DEF Room
<1>3. queue'[r] = Append(queue[r], The(x))
  BY <1>1 DEF TypeOK
<1>4. Pushes(x, r, "fan")
  BY <1>1 DEF Pushes, Leave, TypeOK
<1>5. TypeOK'
  BY <1>0, <1>1, <1>2 DEF TypeOK, Leave, Item
<1>6. Hold(r)'
  BY <1>0, <1>4 DEF Hold, Pushes, TypeOK
<1>7. ASSUME NEW y \in Exchange PROVE HeardOf(y, r)'
  <2>0. stamp[y] \in Nat
    BY DEF TypeOK
  <2>1. CASE y = x
    <3>1. /\ last[r][x] <= stamp[x] /\ AllOlder(queue[r], x, stamp[x])
          /\ Coming(x, r)
      BY DEF HeardOf, Coming, Hold
    <3>2. NoNewer(queue'[r], x, stamp[x])
      BY <1>0, <1>3, <3>1, JoinNewest
    <3>3. ~Coming(x, r)'
      BY <1>4 DEF Coming, Pushes, Pushing, TypeOK
    <3>4. NoNewer(queue[r], x, stamp[x])'
      BY <3>2 DEF NoNewer
    <3>. QED BY <2>1, <3>1, <3>3, <3>4 DEF HeardOf
  <2>2. CASE y # x
    <3>1. /\ NoNewer(queue[r], y, stamp[y]) => NoNewer(queue'[r], y, stamp[y])
          /\ AllOlder(queue[r], y, stamp[y]) => AllOlder(queue'[r], y, stamp[y])
      BY <1>0, <1>3, <2>0, <2>2, JoinKeepsOlder
    <3>. QED BY <1>4, <3>1, PushKeeps, SeenStays DEF Pushes
  <2>. QED BY <2>1, <2>2
<1>. QED BY <1>4, <1>5, <1>6, <1>7, PushKeeps

\* The event goes in, or the queue turns out to be full.
LEMMA TryInv ==
  ASSUME Inv, NEW x \in Exchange, NEW r \in Reader, Try(x, r)
  PROVE  Inv'
<1>1. CASE Room(r) /\ Put(r, The(x)) /\ Leave(x, r)
  BY <1>1, PutInv DEF Try, Pushing
<1>2. CASE ~Room(r) /\ Stay(x, "pop") /\ UNCHANGED queue
  <2>. USE DEF Inv, Try, read
  <2>1. Pushes(x, r, "pop")
    BY <1>2 DEF Pushes, Stay, Pushing, TypeOK
  <2>2. TypeOK'
    BY <1>2 DEF TypeOK, Stay, Pushing
  <2>3. Hold(r)'
    BY <2>1 DEF Hold, Pushes, Pushing, TypeOK
  <2>4. \A y \in Exchange : HeardOf(y, r)'
    BY <1>2, <2>1, PushKeeps, SeenStays DEF Pushes
  <2>. QED BY <2>1, <2>2, <2>3, <2>4, PushKeeps
<1>. QED BY <1>1, <1>2 DEF Try

\* Afterwards there is room.
LEMMA PopInv ==
  ASSUME Inv, NEW x \in Exchange, NEW r \in Reader, Pop(x, r)
  PROVE  Inv'
<1>. USE DEF Inv, Pop, read
<1>0. Size[r] \in Nat \ {0}
  BY ConstantsAssumption DEF ConstantsAssumption
<1>a. queue[r] \in Seq(Item) /\ dropped[r] \in Nat /\ Len(queue[r]) <= Size[r]
  BY DEF TypeOK, Item
<1>1. PICK q \in Seq(Item) : queue' = [queue EXCEPT ![r] = q] /\ Len(q) < Size[r]
        /\ \A y \in Exchange : /\ NoNewer(queue[r], y, stamp[y]) => NoNewer(q, y, stamp[y])
                               /\ AllOlder(queue[r], y, stamp[y]) => AllOlder(q, y, stamp[y])
  <2>1. CASE queue[r] = <<>>
    <3>1. queue' = [queue EXCEPT ![r] = queue[r]]
      BY <2>1 DEF Oldest
    <3>2. Len(queue[r]) < Size[r]
      BY <1>0, <2>1
    <3>. QED BY <1>a, <3>1, <3>2
  <2>2. CASE queue[r] # <<>>
    <3>1. queue' = [queue EXCEPT ![r] = Tail(queue[r])]
      BY <2>2 DEF Oldest
    <3>2. Tail(queue[r]) \in Seq(Item) /\ Len(Tail(queue[r])) < Size[r]
      BY <1>0, <1>a, <2>2, TailFacts
    <3>3. ASSUME NEW y \in Exchange
          PROVE  /\ NoNewer(queue[r], y, stamp[y]) => NoNewer(Tail(queue[r]), y, stamp[y])
                 /\ AllOlder(queue[r], y, stamp[y]) => AllOlder(Tail(queue[r]), y, stamp[y])
      <4>1. stamp[y] \in Nat
        BY DEF TypeOK
      <4>. QED BY <1>a, <2>2, <4>1, TailKeepsOlder
    <3>. QED BY <3>1, <3>2, <3>3
  <2>. QED BY <2>1, <2>2
<1>2. queue'[r] = q
  BY <1>1 DEF TypeOK
<1>3. Pushes(x, r, "retry")
  BY <1>1 DEF Pushes, Stay, Pushing, TypeOK
<1>4. TypeOK'
  <2>1. queue' \in [Reader -> Seq(Event \cup Marker)] /\ \A s \in Reader : Len(queue'[s]) <= Size[s]
    <3>1. queue' \in [Reader -> Seq(Event \cup Marker)]
      BY <1>1 DEF TypeOK, Item
    <3>2. Len(queue'[r]) <= Size[r]
      BY <1>0, <1>1, <1>2
    <3>3. ASSUME NEW s \in Reader, s # r PROVE queue'[s] = queue[s]
      BY <1>1, <3>3 DEF TypeOK
    <3>. QED BY <3>1, <3>2, <3>3 DEF TypeOK
  <2>2. at' \in [Exchange -> {"idle", "stamped", "fan"} \cup Pushing]
    BY DEF TypeOK, Stay, Pushing
  <2>3. dropped' \in [Reader -> Nat]
    BY <1>a DEF TypeOK
  <2>. QED BY <2>1, <2>2, <2>3 DEF TypeOK, Stay
<1>5. Hold(r)'
  BY <1>1, <1>2, <1>3 DEF Hold, Pushes, Pushing, Room, TypeOK
<1>6. ASSUME NEW y \in Exchange PROVE HeardOf(y, r)'
  <2>1. HeardOf(y, r) /\ (Coming(y, r)' => Coming(y, r)) /\ UNCHANGED <<stamp, last>>
    BY <1>3, PushKeeps DEF Pushes
  <2>. QED BY <1>1, <1>2, <2>1, SeenStays
<1>. QED BY <1>3, <1>4, <1>5, <1>6, PushKeeps

\* The room is still there.
LEMMA RetryInv ==
  ASSUME Inv, NEW x \in Exchange, NEW r \in Reader, Retry(x, r)
  PROVE  Inv'
<1>1. Room(r)
  BY DEF Inv, Hold, Retry
<1>. QED BY <1>1, PutInv DEF Retry, Pushing

\* A reader makes room and moves on to what is newer.
LEMMA ReceiveInv ==
  ASSUME Inv, NEW r \in Reader, Receive(r)
  PROVE  Inv'
<1>. USE DEF Inv, Receive, publisher
<1>0. queue[r] \in Seq(Item) /\ queue[r] # <<>> /\ Size[r] \in Nat
  BY ConstantsAssumption DEF ConstantsAssumption, TypeOK, Item
<1>1. /\ Tail(queue[r]) \in Seq(Item) /\ Head(queue[r]) \in Item /\ Head(queue[r]) = queue[r][1]
      /\ 1 \in 1..Len(queue[r]) /\ Len(Tail(queue[r])) = Len(queue[r]) - 1
      /\ Len(queue[r]) \in Nat
  BY <1>0, TailFacts
<1>2. queue'[r] = Tail(queue[r])
  BY DEF TypeOK
<1>3. TypeOK'
  <2>1. queue' \in [Reader -> Seq(Event \cup Marker)] /\ \A s \in Reader : Len(queue'[s]) <= Size[s]
    BY <1>0, <1>1, SMTT(60) DEF TypeOK, Item
  <2>2. CASE Head(queue[r]) \in Event
    <3>. DEFINE f == [last[r] EXCEPT ![Head(queue[r]).by] = Head(queue[r]).seq]
    <3>1. Head(queue[r]).seq \in Nat
      BY <2>2 DEF Event
    <3>2. f \in [Exchange -> Nat]
      BY <3>1 DEF TypeOK
    <3>3. last' = [last EXCEPT ![r] = f] /\ UNCHANGED told
      BY <2>2
    <3>. HIDE DEF f
    <3>4. last' \in [Reader -> [Exchange -> Nat]]
      BY <3>2, <3>3 DEF TypeOK
    <3>. QED BY <2>1, <3>3, <3>4 DEF TypeOK
  <2>3. CASE Head(queue[r]) \notin Event
    BY <2>1, <2>3, SMTT(60) DEF TypeOK
  <2>. QED BY <2>2, <2>3
<1>4. \A y \in Exchange : Turn(y)' /\ Alone(y)'
  BY DEF Turn, Alone
<1>5. ASSUME NEW s \in Reader PROVE Hold(s)'
  <2>1. Room(s) => Len(queue'[s]) < Size[s]
    <3>1. CASE s = r
      <4>1. Len(queue[r]) <= Size[r]
        BY DEF TypeOK
      <4>2. Len(queue'[r]) = Len(queue[r]) - 1
        BY <1>1, <1>2, Zenon
      <4>. HIDE DEF Inv, Receive
      <4>3. Len(queue'[r]) < Size[r]
        BY <1>0, <1>1, <4>1, <4>2
      <4>. QED BY <3>1, <4>3
    <3>2. CASE s # r
      <4>1. queue'[s] = queue[s]
        BY <3>2 DEF TypeOK
      <4>. QED BY <4>1 DEF Room
    <3>. QED BY <3>1, <3>2
  <2>. QED BY <2>1 DEF Hold, Room
<1>6. ASSUME NEW y \in Exchange, NEW s \in Reader PROVE HeardOf(y, s)'
  <2>0. stamp[y] \in Nat
    BY DEF TypeOK
  <2>1. /\ Coming(y, s)' = Coming(y, s) /\ NoNewer(queue[s], y, stamp[y])' = NoNewer(queue'[s], y, stamp[y])
        /\ AllOlder(queue[s], y, stamp[y])' = AllOlder(queue'[s], y, stamp[y])
    BY DEF Coming, NoNewer, AllOlder
  <2>2. CASE s # r
    BY <2>1, <2>2 DEF TypeOK, HeardOf
  <2>3. CASE s = r
    <3>1. /\ NoNewer(queue[r], y, stamp[y]) => NoNewer(queue'[r], y, stamp[y])
          /\ AllOlder(queue[r], y, stamp[y]) => AllOlder(queue'[r], y, stamp[y])
      BY <1>0, <1>2, <2>0, TailKeepsOlder
    <3>2. CASE Head(queue[r]) \in Event /\ Head(queue[r]).by = y
      <4>1. last'[r][y] = queue[r][1].seq
        BY <1>1, <3>2 DEF TypeOK
      <4>2. last'[r][y] <= stamp[y]
        BY <1>1, <3>2, <4>1 DEF HeardOf, NoNewer
      <4>3. Coming(y, r) => last'[r][y] < stamp[y]
        BY <1>1, <3>2, <4>1 DEF HeardOf, AllOlder
      <4>. QED BY <2>1, <2>3, <3>1, <4>2, <4>3 DEF HeardOf
    <3>3. CASE ~(Head(queue[r]) \in Event /\ Head(queue[r]).by = y)
      <4>1. last'[r][y] = last[r][y]
        BY <3>3, SMTT(60) DEF TypeOK, Event
      <4>. QED BY <2>1, <2>3, <3>1, <4>1 DEF HeardOf
    <3>. QED BY <3>2, <3>3
  <2>. QED BY <2>2, <2>3
<1>. QED BY <1>3, <1>4, <1>5, <1>6

\* Every step keeps the invariant.
LEMMA NextInv == Inv /\ [Next]_vars => Inv'
<1>. SUFFICES ASSUME Inv, [Next]_vars PROVE Inv'
  OBVIOUS
<1>1. ASSUME NEW x \in Exchange, Stamp(x) \/ FanOut(x) \/ Published(x) PROVE Inv'
  BY <1>1, StampInv, FanOutInv
<1>2. ASSUME NEW x \in Exchange, NEW r \in Reader, Push(x, r) PROVE Inv'
  BY <1>2, FilteredInv, EnterInv, MarkInv, TryInv, PopInv, RetryInv DEF Push
<1>3. ASSUME NEW r \in Reader, Subscribe(r) \/ Close(r) \/ Receive(r) PROVE Inv'
  BY <1>3, ComeAndGoInv, ReceiveInv
<1>4. CASE UNCHANGED vars
  BY <1>4 DEF Inv, TypeOK, Turn, Alone, Hold, Room, HeardOf, Coming, NoNewer, AllOlder,
              vars, publisher, subscriber, read
<1>. QED BY <1>1, <1>2, <1>3, <1>4 DEF Next, Publishes

\* The invariant holds in every reachable state.
LEMMA Invariance == Spec => []Inv
BY InitInv, NextInv, PTL DEF Spec

-----------------------------------------------------------------------------
\* Every variable keeps to its type; no queue outgrows its channel.
THEOREM TypeCorrect == Spec => []TypeOK
<1>1. Inv => TypeOK
  BY DEF Inv
<1>. QED BY <1>1, Invariance, PTL

\* The last `select` of push always finds the room the one before it made:
\* the mutex keeps every other publisher out, and readers only make more.
THEOREM MadeRoomHolds == Spec => []MadeRoom
<1>1. Inv => MadeRoom
  BY DEF Inv, Hold, MadeRoom
<1>. QED BY <1>1, Invariance, PTL

-----------------------------------------------------------------------------
(* Bus implements BusPromise.                                              *)

missed == [r \in Reader |-> dropped[r] > 0]

\* How a change of the counter shows in the promise.
LEMMA MissedChanges ==
  ASSUME dropped \in [Reader -> Nat], NEW r \in Reader, NEW n \in Nat,
         dropped' = [dropped EXCEPT ![r] = n]
  PROVE  missed' = [missed EXCEPT ![r] = n > 0]
<1>1. ASSUME NEW s \in Reader
      PROVE  (dropped'[s] > 0) = (IF s = r THEN n > 0 ELSE dropped[s] > 0)
  <2>1. CASE s = r
    BY <2>1
  <2>2. CASE s # r
    BY <2>2
  <2>. QED BY <2>1, <2>2
<1>2. missed' = [s \in Reader |-> IF s = r THEN n > 0 ELSE dropped[s] > 0]
  BY <1>1, Zenon DEF missed
<1>3. [missed EXCEPT ![r] = n > 0] = [s \in Reader |-> IF s = r THEN n > 0 ELSE dropped[s] > 0]
  BY Zenon DEF missed
<1>. QED BY <1>2, <1>3

\* What goes in is newer than what is there.
LEMMA PutDelivers ==
  ASSUME Inv, NEW x \in Exchange, NEW r \in Reader, lock[r] = x, at[x] \in Pushing,
         Room(r), Put(r, The(x)), UNCHANGED <<dropped, read>>
  PROVE  Promise!Deliver(r)
<1>1. /\ queue[r] \in Seq(Item) /\ The(x) \in Event /\ The(x) \in Item
      /\ The(x).by = x /\ The(x).seq = stamp[x]
  BY DEF Inv, TypeOK, Item, The, Event
<1>2. queue' = [queue EXCEPT ![r] = Append(@, The(x))] /\ queue'[r] = Append(queue[r], The(x))
  BY DEF Put, Inv, TypeOK
<1>3. queue'[r] # <<>> /\ Promise!Newcomer(r) = The(x)
  BY <1>1, <1>2, AppendFacts DEF Promise!Newcomer
<1>4. last[r][x] < stamp[x] /\ AllOlder(queue[r], x, stamp[x])
  BY DEF Inv, Hold, HeardOf, Coming
<1>5. Promise!Newest(r, The(x))
  BY <1>1, <1>4 DEF Promise!Newest, AllOlder, Promise!Event, Event
<1>6. Promise!Joins(r)
  BY <1>2, <1>3 DEF Promise!Joins, Room, read
<1>. QED BY <1>1, <1>3, <1>5, <1>6 DEF Promise!Deliver, Promise!Event, Event

\* A loss counted is a loss on record.
LEMMA LossMissed ==
  ASSUME dropped \in [Reader -> Nat], NEW r \in Reader,
         dropped' = [dropped EXCEPT ![r] = @ + 1]
  PROVE  missed' = [missed EXCEPT ![r] = TRUE]
<1>1. dropped[r] + 1 \in Nat /\ (dropped[r] + 1 > 0) = TRUE
  OBVIOUS
<1>2. missed' = [missed EXCEPT ![r] = dropped[r] + 1 > 0]
  BY <1>1, MissedChanges
<1>. QED BY <1>1, <1>2

\* A marker is the announcement of the losses on record, or one more loss.
LEMMA MarkPromise ==
  ASSUME Inv, NEW x \in Exchange, NEW r \in Reader, Mark(x, r)
  PROVE  Promise!Announce(r) \/ Promise!Lose(r)
<1>0. dropped \in [Reader -> Nat] /\ queue[r] \in Seq(Item) /\ dropped[r] > 0
  BY DEF Inv, TypeOK, Item, Hold, Mark
<1>1. CASE Room(r) /\ Put(r, [dropped |-> dropped[r]]) /\ dropped' = [dropped EXCEPT ![r] = 0]
  <2>. DEFINE m == [dropped |-> dropped[r]]
  <2>1. m \in Marker /\ m \in Item
    BY <1>0 DEF Marker, Item
  <2>2. queue' = [queue EXCEPT ![r] = Append(@, m)] /\ queue'[r] = Append(queue[r], m)
    BY <1>1 DEF Put, Inv, TypeOK
  <2>. HIDE DEF m
  <2>3. queue'[r] # <<>> /\ Promise!Newcomer(r) = m
    BY <1>0, <2>1, <2>2, AppendFacts DEF Promise!Newcomer
  <2>4. Promise!Joins(r)
    BY <1>1, <2>2, <2>3 DEF Promise!Joins, Room, Mark, read
  <2>5. missed[r]
    BY <1>0 DEF missed
  <2>6. missed' = [missed EXCEPT ![r] = 0 > 0]
    BY <1>0, <1>1, MissedChanges
  <2>7. (0 > 0) = FALSE
    OBVIOUS
  <2>8. missed' = [missed EXCEPT ![r] = FALSE]
    BY <2>6, <2>7, Zenon
  <2>. QED BY <2>1, <2>3, <2>4, <2>5, <2>8 DEF Promise!Announce, Promise!Notice, Marker, missed
<1>2. CASE UNCHANGED queue /\ dropped' = [dropped EXCEPT ![r] = @ + 1]
  <2>1. missed' = [missed EXCEPT ![r] = TRUE]
    BY <1>0, <1>2, LossMissed
  <2>. QED BY <1>2, <2>1 DEF Promise!Lose, missed, Mark, read
<1>. QED BY <1>1, <1>2 DEF Mark

\* Making room is a loss.
LEMMA PopPromise ==
  ASSUME Inv, NEW x \in Exchange, NEW r \in Reader, Pop(x, r)
  PROVE  Promise!Lose(r)
<1>1. missed' = [missed EXCEPT ![r] = TRUE]
  BY LossMissed DEF Inv, TypeOK, Pop
<1>2. \/ UNCHANGED queue
      \/ queue[r] # <<>> /\ queue' = [queue EXCEPT ![r] = Tail(@)]
  BY DEF Inv, TypeOK, Pop, Oldest
<1>. QED BY <1>1, <1>2 DEF Promise!Lose, missed, Pop, read

\* Bus implements BusPromise with `missed` read as: dropped is not zero.
THEOREM ImplementsPromise == Spec => KeepsPromise
<1>. DEFINE pvars == <<queue, missed, last, told>>
<1>1. ASSUME Init PROVE Promise!Init
  <2>1. \A r \in Reader : (dropped[r] > 0) = FALSE
    BY <1>1 DEF Init
  <2>2. missed = [r \in Reader |-> FALSE]
    BY <2>1, Zenon DEF missed
  <2>. QED BY <1>1, <2>2 DEF Init, Promise!Init, missed
<1>2. Inv /\ [Next]_vars => Promise!Next \/ UNCHANGED pvars
  <2>. SUFFICES ASSUME Inv, [Next]_vars PROVE Promise!Next \/ UNCHANGED pvars
    OBVIOUS
  <2>1. CASE UNCHANGED <<queue, dropped, last, told>>
    BY <2>1 DEF missed
  <2>2. ASSUME NEW x \in Exchange, NEW r \in Reader, Push(x, r)
        PROVE  Promise!Next \/ UNCHANGED pvars
    <3>1. CASE Filtered(x, r) \/ Enter(x, r)
      BY <2>1, <3>1 DEF Filtered, Enter, subscriber, read
    <3>2. CASE Mark(x, r)
      BY <3>2, MarkPromise DEF Promise!Next
    <3>3. CASE Try(x, r) /\ Room(r) /\ Put(r, The(x))
      BY <3>3, PutDelivers DEF Promise!Next, Try, Pushing
    <3>4. CASE Try(x, r) /\ UNCHANGED queue
      BY <2>1, <3>4 DEF Try, read
    <3>5. CASE Pop(x, r)
      BY <3>5, PopPromise DEF Promise!Next
    <3>6. CASE Retry(x, r)
      <4>1. Room(r)
        BY <3>6 DEF Inv, Hold, Retry
      <4>. QED BY <3>6, <4>1, PutDelivers DEF Promise!Next, Retry, Pushing
    <3>. QED BY <2>2, <3>1, <3>2, <3>3, <3>4, <3>5, <3>6 DEF Push, Try
  <2>3. ASSUME NEW r \in Reader, Receive(r) PROVE Promise!Read(r)
    BY <2>3 DEF Receive, Promise!Read, Promise!Event, Event, Inv, TypeOK
  <2>4. ASSUME NEW x \in Exchange, Stamp(x) \/ FanOut(x) \/ Published(x)
        PROVE  UNCHANGED <<queue, dropped, last, told>>
    BY <2>4 DEF Stamp, FanOut, Published, subscriber, read
  <2>5. ASSUME NEW r \in Reader, Subscribe(r) \/ Close(r)
        PROVE  UNCHANGED <<queue, dropped, last, told>>
    BY <2>5 DEF Subscribe, Close, read
  <2>6. CASE UNCHANGED vars
    BY <2>1, <2>6 DEF vars, subscriber, read
  <2>. QED BY <2>1, <2>2, <2>3, <2>4, <2>5, <2>6 DEF Next, Publishes, Promise!Next
<1>. QED BY <1>1, <1>2, Invariance, PTL DEF Spec, KeepsPromise, Promise!Spec, missed

-----------------------------------------------------------------------------
(* What is remembered: calls and their numbers. *)

\* A set of numbers up to n that has members has a first and a last.
LEMMA EndsAre ==
  ASSUME NEW n \in Nat, NEW S \in SUBSET (1..n), S # {}
  PROVE  /\ Latest(S) \in S /\ \A j \in S : j <= Latest(S)
         /\ Earliest(S) \in S /\ \A j \in S : Earliest(S) <= j
<1>1. PICK x \in S : \A y \in S : x <= y
  BY LeastNumber
<1>2. PICK d \in {n - y : y \in S} : \A e \in {n - y : y \in S} : d <= e
  <2>1. {n - y : y \in S} \in SUBSET Nat /\ {n - y : y \in S} # {}
    OBVIOUS
  <2> HIDE DEF Latest
  <2> QED
    BY <2>1, LeastNumber
<1>3. n - d \in S /\ \A y \in S : y <= n - d
  BY <1>2
<1>4. \E i \in S : \A j \in S : j <= i
  BY <1>3
<1> QED
  BY <1>1, <1>4 DEF Latest, Earliest

\* One that is not less than the others is the last, and one that is not more the first.
LEMMA EndIs ==
  ASSUME NEW S \in SUBSET Nat, NEW k \in S
  PROVE  /\ (\A j \in S : j <= k) => Latest(S) = k
         /\ (\A j \in S : k <= j) => Earliest(S) = k
<1>1. ASSUME \A j \in S : j <= k PROVE Latest(S) = k
  <2>1. Latest(S) \in S /\ \A j \in S : j <= Latest(S)
    BY <1>1 DEF Latest
  <2>2. \A m \in S : (\A j \in S : j <= m) => m = k
    BY <1>1
  <2> QED
    BY <2>1, <2>2, Zenon
<1>2. ASSUME \A j \in S : k <= j PROVE Earliest(S) = k
  <2>1. Earliest(S) \in S /\ \A j \in S : Earliest(S) <= j
    BY <1>2 DEF Earliest
  <2>2. \A m \in S : (\A j \in S : m <= j) => m = k
    BY <1>2
  <2> QED
    BY <2>1, <2>2, Zenon
<1> QED
  BY <1>1, <1>2

\* A call after the others is the last of them.
LEMMA LaterEnds ==
  ASSUME NEW n \in Nat, NEW S \in SUBSET (1..n)
  PROVE  /\ Latest(S \cup {n + 1}) = n + 1
         /\ Earliest(S \cup {n + 1}) = IF S = {} THEN n + 1 ELSE Earliest(S)
<1>1. S \cup {n + 1} \in SUBSET Nat /\ n + 1 \in S \cup {n + 1} /\ \A j \in S \cup {n + 1} : j <= n + 1
  OBVIOUS
<1>2. Latest(S \cup {n + 1}) = n + 1
  BY <1>1, EndIs
<1>3. CASE S = {}
  BY <1>1, <1>2, <1>3, EndIs
<1>4. CASE S # {}
  <2>1. Earliest(S) \in S /\ \A j \in S : Earliest(S) <= j
    BY <1>4, EndsAre
  <2>2. Earliest(S) \in S \cup {n + 1} /\ \A j \in S \cup {n + 1} : Earliest(S) <= j
    <3>1. Earliest(S) \in 1..n
      BY <2>1
    <3> QED
      BY <2>1, <3>1
  <2>3. Earliest(S \cup {n + 1}) = Earliest(S)
    BY <1>1, <2>2, EndIs
  <2> QED
    BY <1>2, <1>4, <2>3
<1> QED
  BY <1>3, <1>4

\* Calls have distinct times, in their order.
InTime(calls) == \A i, j \in DOMAIN calls : i < j => calls[i].at < calls[j].at

\* One more call.
LEMMA CallsGrow ==
  ASSUME NEW Call, NEW calls \in Seq(Call), NEW call \in Call,
         \A c \in Call : c.at \in Nat, InTime(calls), Clock(calls) < call.at
  PROVE  /\ Append(calls, call) \in Seq(Call) /\ InTime(Append(calls, call))
         /\ DOMAIN calls = 1..Len(calls) /\ DOMAIN Append(calls, call) = 1..(Len(calls) + 1)
         /\ Len(Append(calls, call)) = Len(calls) + 1 /\ Len(calls) \in Nat
         /\ Append(calls, call)[Len(calls) + 1] = call
         /\ \A i \in 1..Len(calls) : Append(calls, call)[i] = calls[i] /\ calls[i].at < call.at
<1> DEFINE n == Len(calls)
<1>1. /\ Append(calls, call) \in Seq(Call)
      /\ DOMAIN calls = 1..n /\ DOMAIN Append(calls, call) = 1..(n + 1)
      /\ Len(Append(calls, call)) = n + 1 /\ n \in Nat
      /\ Append(calls, call)[n + 1] = call
      /\ \A i \in 1..n : Append(calls, call)[i] = calls[i]
  BY AppendProperties, LenProperties
<1>2. \A i \in 1..n : calls[i] \in Call /\ calls[i].at \in Nat
  BY ElementOfSeq
<1>3. \A i \in 1..n : calls[i].at < call.at
  <2> SUFFICES ASSUME NEW i \in 1..n PROVE calls[i].at < call.at
    OBVIOUS
  <2>1. calls # <<>> /\ n \in 1..n
    BY <1>1
  <2>2. calls[n].at < call.at
    BY <2>1 DEF Clock
  <2>3. i = n \/ calls[i].at < calls[n].at
    <3> HIDE DEF n
    <3>1. n \in 1..n /\ (i = n \/ i < n)
      BY <1>1, <2>1
    <3>2. i \in DOMAIN calls /\ n \in DOMAIN calls
      BY <1>1, <3>1, Zenon
    <3> QED
      BY <3>1, <3>2, Zenon DEF InTime
  <2> QED
    BY <1>2, <2>1, <2>2, <2>3
<1>4. InTime(Append(calls, call))
  BY <1>1, <1>3 DEF InTime
<1> QED
  BY <1>1, <1>3, <1>4

\* A table with one entry more, or one of them anew.
LEMMA WithIs ==
  ASSUME NEW t, NEW k, NEW v
  PROVE  /\ DOMAIN With(t, k, v) = {k} \cup DOMAIN t /\ With(t, k, v)[k] = v
         /\ \A x \in DOMAIN t \ {k} : With(t, k, v)[x] = t[x]
BY DEF With

\* A table without some of its entries: the others are as they were.
LEMMA WithoutIs ==
  ASSUME NEW t, NEW S
  PROVE  /\ DOMAIN Without(t, S) = DOMAIN t \ S
         /\ \A x \in DOMAIN t \ S : Without(t, S)[x] = t[x]
BY DEF Without, Restrict

\* The entry that makes room is the one that is there longest.
LEMMA StalestIs ==
  ASSUME NEW t, DOMAIN t # {}, \A k \in DOMAIN t : t[k].last \in Nat
  PROVE  Stalest(t) \in DOMAIN t /\ \A j \in DOMAIN t : t[Stalest(t)].last <= t[j].last
<1>1. PICK x \in {t[k].last : k \in DOMAIN t} : \A y \in {t[k].last : k \in DOMAIN t} : x <= y
  <2>1. {t[k].last : k \in DOMAIN t} \in SUBSET Nat /\ {t[k].last : k \in DOMAIN t} # {}
    OBVIOUS
  <2> QED
    BY <2>1, LeastNumber
<1>2. \E k \in DOMAIN t : \A j \in DOMAIN t : t[k].last <= t[j].last
  BY <1>1
<1> QED
  BY <1>2 DEF Stalest

-----------------------------------------------------------------------------
(* The devices. *)

\* What the table holds of a device, and a call of touch.
Device == [first : Nat, last : Nat, requests : Nat, decrypted : Nat, rejected : Nat]
Touch == [ip : Client, what : What, at : Nat]

DevicesType ==
  /\ touches \in Seq(Touch) /\ InTime(touches)
  /\ devices \in [DOMAIN devices -> Device] /\ DOMAIN devices \subseteq Client
  /\ IsFiniteSet(DOMAIN devices)

\* The property is inductive once the calls have their times.
DevicesInv == DevicesType /\ DevicesTrue

\* The calls by number, each later than the one before it.
LEMMA TouchesAre ==
  ASSUME DevicesType
  PROVE  /\ Len(touches) \in Nat /\ DOMAIN touches = 1..Len(touches)
         /\ \A i \in 1..Len(touches) : touches[i] \in Touch /\ touches[i].at \in Nat
<1>1. Len(touches) \in Nat /\ DOMAIN touches = 1..Len(touches)
  BY LenProperties DEF DevicesType
<1>2. \A i \in 1..Len(touches) : touches[i] \in Touch
  BY ElementOfSeq DEF DevicesType
<1> QED
  BY <1>1, <1>2 DEF Touch

\* What a device did since it was let in is the last of what it did.
LEMMA VisitEnds ==
  ASSUME DevicesInv, NEW ip \in DOMAIN devices
  PROVE  /\ Seen(ip) \in SUBSET (1..Len(touches)) /\ Visit(ip) \in SUBSET Seen(ip) /\ Visit(ip) # {}
         /\ Len(touches) \in Nat
         /\ Latest(Visit(ip)) = Latest(Seen(ip)) /\ Latest(Seen(ip)) \in Seen(ip)
         /\ \A i \in Seen(ip) : i <= Latest(Seen(ip))
         /\ devices[ip].last = touches[Latest(Seen(ip))].at
         /\ devices[ip].first <= devices[ip].last
<1>1. Len(touches) \in Nat /\ DOMAIN touches = 1..Len(touches)
  BY LenProperties DEF DevicesInv, DevicesType
<1>2. Seen(ip) \in SUBSET (1..Len(touches)) /\ Visit(ip) \in SUBSET Seen(ip)
  BY <1>1 DEF Seen, Visit
<1>3. Visit(ip) # {} /\ devices[ip].last = touches[Latest(Visit(ip))].at
  BY DEF DevicesInv, DevicesTrue, DeviceIsTrue
<1>4. Latest(Visit(ip)) \in Visit(ip) /\ Latest(Seen(ip)) \in Seen(ip) /\ \A i \in Seen(ip) : i <= Latest(Seen(ip))
  BY <1>1, <1>2, <1>3, EndsAre
<1>5. \A i \in Visit(ip) : i <= Latest(Visit(ip))
  BY <1>1, <1>2, <1>3, EndsAre
<1>6. \A i \in 1..Len(touches) : touches[i].at \in Nat
  BY TouchesAre DEF DevicesInv
<1>7. devices[ip].first \in Nat /\ devices[ip].last \in Nat
  BY DEF DevicesInv, DevicesType, Device
<1>8. \A i, j \in 1..Len(touches) : i < j => touches[i].at < touches[j].at
  BY <1>1 DEF DevicesInv, DevicesType, InTime
<1>9. PICK v \in Visit(ip) : v = Latest(Visit(ip))
  BY <1>4, Zenon
<1>10. PICK z \in Seen(ip) : z = Latest(Seen(ip))
  BY <1>4, Zenon
<1>11. touches[v].at >= devices[ip].first
  BY DEF Visit
<1>12. v <= z
  BY <1>2, <1>4, <1>9, <1>10
<1>13. z \in Visit(ip)
  <2>1. v \in 1..Len(touches) /\ z \in 1..Len(touches)
    BY <1>2
  <2>2. touches[v].at <= touches[z].at
    BY <1>6, <1>8, <1>12, <2>1
  <2> QED
    BY <1>6, <1>7, <1>11, <2>1, <2>2 DEF Visit
<1>14. z = v
  BY <1>1, <1>2, <1>5, <1>9, <1>12, <1>13
<1> QED
  BY <1>1, <1>2, <1>3, <1>4, <1>9, <1>10, <1>11, <1>14

\* Room is made, when there is none for a newcomer, by the device not seen for longest.
LEMMA RoomIsMade ==
  ASSUME DevicesInv, NEW ip \in Client
  PROVE  \/ evictLocked(devices, ip) = devices /\ (ip \in DOMAIN devices \/ Cardinality(DOMAIN devices) < maxDevices)
         \/ /\ ip \notin DOMAIN devices /\ Cardinality(DOMAIN devices) = maxDevices
            /\ \E s \in DOMAIN devices :
                 /\ evictLocked(devices, ip) = Without(devices, {s})
                 /\ \A q \in DOMAIN devices \ {s} : Latest(Seen(s)) < Latest(Seen(q))
<1> DEFINE D == DOMAIN devices
<1>1. Cardinality(D) \in Nat /\ Cardinality(D) <= maxDevices /\ maxDevices \in Nat \ {0}
  BY FS_CardinalityType, TablesAssumption DEF DevicesInv, DevicesType, DevicesTrue, TablesAssumption
<1>2. CASE ip \in D \/ Cardinality(D) < maxDevices
  BY <1>1, <1>2 DEF evictLocked
<1>3. CASE ip \notin D /\ Cardinality(D) = maxDevices
  <2> DEFINE s == Stalest(devices)
  <2>1. D # {}
    BY <1>1, <1>3, FS_EmptySet
  <2>2. s \in D /\ \A q \in D : devices[s].last <= devices[q].last
    <3>1. \A q \in D : devices[q].last \in Nat
      BY DEF DevicesInv, DevicesType, Device
    <3> QED
      BY <2>1, <3>1, StalestIs
  <2>3. evictLocked(devices, ip) = Without(devices, {s})
    BY <1>1, <1>3 DEF evictLocked
  <2> HIDE DEF s
  <2>4. ASSUME NEW q \in D \ {s} PROVE Latest(Seen(s)) < Latest(Seen(q))
    <3>1. PICK i \in Seen(s) : i = Latest(Seen(s)) /\ devices[s].last = touches[i].at
      BY <2>2, VisitEnds, Zenon
    <3>2. PICK j \in Seen(q) : j = Latest(Seen(q)) /\ devices[q].last = touches[j].at
      BY VisitEnds, Zenon
    <3>3. i \in 1..Len(touches) /\ j \in 1..Len(touches) /\ DOMAIN touches = 1..Len(touches) /\ Len(touches) \in Nat
      BY LenProperties DEF Seen, DevicesInv, DevicesType
    <3>4. touches[i].at \in Nat /\ touches[j].at \in Nat
      BY <3>3, TouchesAre DEF DevicesInv
    <3>5. i # j
      BY DEF Seen
    <3>6. touches[i].at <= touches[j].at
      BY <2>2, <3>1, <3>2
    <3>7. j < i => touches[j].at < touches[i].at
      BY <3>3 DEF DevicesInv, DevicesType, InTime
    <3>8. i < j
      BY <3>3, <3>4, <3>5, <3>6, <3>7
    <3> QED
      BY <3>1, <3>2, <3>8, Zenon
  <2> QED
    BY <1>3, <2>2, <2>3, <2>4
<1> QED
  BY <1>1, <1>2, <1>3

\* The hosts of some calls, or the devices, are finitely many.
LEMMA FewAreNamed ==
  ASSUME NEW S, IsFiniteSet(S), NEW f
  PROVE  IsFiniteSet({f[i] : i \in S}) /\ Cardinality({f[i] : i \in S}) <= Cardinality(S)
<1> DEFINE g == [i \in S |-> f[i]]
<1>1. g \in Surjection(S, {f[i] : i \in S})
  BY DEF Surjection
<1> QED
  BY <1>1, FS_Surjection

\* A device is touched.
LEMMA DeviceIsTouched ==
  ASSUME DevicesInv, NEW ip \in Client, NEW what \in What, NEW time \in Nat, Clock(touches) < time,
         devices' = touch(devices, ip, what, time),
         touches' = Append(touches, [ip |-> ip, what |-> what, at |-> time])
  PROVE  DevicesInv'
<1> DEFINE n == Len(touches)
           D == DOMAIN devices
           room == evictLocked(devices, ip)
           old == IF ip \in DOMAIN room THEN room[ip] ELSE NewDevice(time)
<1>1. /\ touches' \in Seq(Touch) /\ InTime(touches')
      /\ DOMAIN touches = 1..n /\ DOMAIN touches' = 1..(n + 1) /\ Len(touches') = n + 1 /\ n \in Nat
      /\ touches'[n + 1] = [ip |-> ip, what |-> what, at |-> time]
      /\ \A i \in 1..n : touches'[i] = touches[i] /\ touches[i].at < time
  <2>1. [ip |-> ip, what |-> what, at |-> time] \in Touch /\ \A c \in Touch : c.at \in Nat
    BY DEF Touch
  <2>2. touches \in Seq(Touch) /\ InTime(touches)
    BY DEF DevicesInv, DevicesType
  <2> QED
    BY <2>1, <2>2, CallsGrow
<1>2. ASSUME NEW q
      PROVE  /\ Seen(q) \in SUBSET (1..n)
             /\ Seen(q)' = IF q = ip THEN Seen(q) \cup {n + 1} ELSE Seen(q)
  BY <1>1 DEF Seen
<1>3. \A q \in D : devices[q] \in Device
  BY DEF DevicesInv, DevicesType
<1>4. \/ room = devices /\ (ip \in D \/ Cardinality(D) < maxDevices)
      \/ /\ ip \notin D /\ Cardinality(D) = maxDevices
         /\ \E s \in D : /\ room = Without(devices, {s})
                         /\ \A q \in D \ {s} : Latest(Seen(s)) < Latest(Seen(q))
  BY RoomIsMade
<1>5. DOMAIN room \subseteq D /\ \A q \in DOMAIN room : room[q] = devices[q]
  <2>1. ASSUME NEW s \in D, room = Without(devices, {s})
        PROVE  DOMAIN room \subseteq D /\ \A q \in DOMAIN room : room[q] = devices[q]
    <3>1. /\ DOMAIN Without(devices, {s}) = D \ {s}
          /\ \A q \in D \ {s} : Without(devices, {s})[q] = devices[q]
      BY WithoutIs
    <3> HIDE DEF room
    <3> QED
      BY <2>1, <3>1
  <2> QED
    BY <1>4, <2>1
<1>6. devices' = With(room, ip, Noted(old, what, time))
  BY DEF touch
<1> HIDE DEF room
<1> HIDE DEF old
<1>7. DOMAIN devices' = DOMAIN room \cup {ip} /\ devices'[ip] = Noted(old, what, time)
  <2>1. /\ DOMAIN With(room, ip, Noted(old, what, time)) = {ip} \cup DOMAIN room
        /\ With(room, ip, Noted(old, what, time))[ip] = Noted(old, what, time)
    BY DEF With
  <2> QED
    BY <1>6, <2>1
<1>8. \A q \in DOMAIN room \ {ip} : devices'[q] = devices[q]
  <2>1. \A q \in DOMAIN room \ {ip} : With(room, ip, Noted(old, what, time))[q] = room[q]
    BY DEF With
  <2> QED
    BY <1>5, <1>6, <2>1
<1>9. old \in Device
  BY <1>3, <1>5 DEF old, NewDevice, Device
<1>10. IsFiniteSet(D) /\ D \subseteq Client /\ Cardinality(D) \in Nat /\ maxDevices \in Nat \ {0} /\ Cardinality(D) <= maxDevices
  BY FS_CardinalityType, TablesAssumption DEF DevicesInv, DevicesType, DevicesTrue, TablesAssumption
<1>11. DevicesType'
  <2>1. Noted(old, what, time) \in Device
    <3>1. \A l, a, b, c \in Nat :
            [old EXCEPT !.last = l, !.requests = a, !.decrypted = b, !.rejected = c] \in Device
      BY <1>9 DEF Device
    <3> DEFINE a == IF what = "request" THEN old.requests + 1 ELSE old.requests
               b == IF what = "accepted" THEN old.decrypted + 1 ELSE old.decrypted
               c == IF what = "refused" THEN old.rejected + 1 ELSE old.rejected
    <3>2. a \in Nat /\ b \in Nat /\ c \in Nat
      BY <1>9 DEF Device
    <3>3. Noted(old, what, time) = [old EXCEPT !.last = time, !.requests = a, !.decrypted = b, !.rejected = c]
      BY Zenon DEF Noted
    <3> HIDE DEF a, b, c
    <3>4. [old EXCEPT !.last = time, !.requests = a, !.decrypted = b, !.rejected = c] \in Device
      BY <3>1, <3>2
    <3> QED
      BY <3>3, <3>4, Zenon
  <2>2. devices' \in [DOMAIN devices' -> Device]
    <3>1. \A q \in DOMAIN devices' : devices'[q] \in Device
      BY <1>3, <1>5, <1>7, <1>8, <2>1
    <3>2. devices' = [q \in DOMAIN devices' |-> devices'[q]]
      BY <1>6 DEF With
    <3> QED
      BY <3>1, <3>2
  <2>3. DOMAIN devices' \subseteq Client /\ IsFiniteSet(DOMAIN devices')
    <3>1. IsFiniteSet(DOMAIN room)
      BY <1>5, <1>10, FS_Subset
    <3> QED
      BY <1>5, <1>7, <1>10, <3>1, FS_AddElement
  <2> QED
    BY <1>1, <2>2, <2>3 DEF DevicesType
<1>12. Cardinality(DOMAIN devices') <= maxDevices /\ (Cardinality(D) = maxDevices => Cardinality(DOMAIN devices') = maxDevices)
  <2>1. CASE room = devices /\ ip \in D
    <3>1. DOMAIN devices' = D
      BY <1>7, <2>1
    <3> QED
      BY <1>10, <3>1
  <2>2. CASE room = devices /\ ip \notin D /\ Cardinality(D) < maxDevices
    <3>1. DOMAIN devices' = D \cup {ip}
      BY <1>7, <2>2
    <3>2. Cardinality(D \cup {ip}) = Cardinality(D) + 1
      BY <1>10, <2>2, FS_AddElement
    <3> QED
      BY <1>10, <2>2, <3>1, <3>2
  <2>3. ASSUME ip \notin D, Cardinality(D) = maxDevices, NEW s \in D, room = Without(devices, {s})
        PROVE  Cardinality(DOMAIN devices') = maxDevices
    <3>1. DOMAIN devices' = (D \ {s}) \cup {ip}
      BY <1>7, <2>3, WithoutIs
    <3>2. IsFiniteSet(D \ {s}) /\ Cardinality(D \ {s}) = maxDevices - 1
      BY <1>10, <2>3, FS_RemoveElement
    <3>3. Cardinality((D \ {s}) \cup {ip}) = maxDevices - 1 + 1
      BY <2>3, <3>2, FS_AddElement
    <3> QED
      BY <1>10, <3>1, <3>3
  <2> QED
    BY <1>4, <1>10, <2>1, <2>2, <2>3
<1>13. \A q \in Client \ D : Seen(q) # {} =>
          Cardinality(D) = maxDevices /\ \A p \in D : Latest(Seen(q)) < Latest(Seen(p))
  BY DEF DevicesInv, DevicesTrue
<1>14. Latest(Seen(ip)') = n + 1 /\ \A q : q # ip => Latest(Seen(q)') = Latest(Seen(q))
  <2>1. Latest(Seen(ip) \cup {n + 1}) = n + 1
    BY <1>1, <1>2, LaterEnds
  <2>2. Seen(ip)' = Seen(ip) \cup {n + 1} /\ \A q : q # ip => Seen(q)' = Seen(q)
    BY <1>2
  <2> QED
    BY <2>1, <2>2, Zenon
<1>15. ASSUME NEW q \in Client, Seen(q) # {}
       PROVE  Latest(Seen(q)) \in 1..n
  BY <1>1, <1>2, <1>15, EndsAre
<1>16. ASSUME NEW q \in Client \ DOMAIN devices', Seen(q)' # {}
       PROVE  /\ Cardinality(DOMAIN devices') = maxDevices
              /\ \A p \in DOMAIN devices' : Latest(Seen(q)') < Latest(Seen(p)')
  <2>1. q # ip /\ Seen(q)' = Seen(q) /\ Seen(q) # {} /\ q \notin DOMAIN room
    BY <1>2, <1>7, <1>16
  <2>2. Latest(Seen(q)) \in 1..n
    BY <1>15, <2>1
  <2>3. Cardinality(D) = maxDevices /\ \A p \in DOMAIN room : Latest(Seen(q)) < Latest(Seen(p))
    <3>1. CASE q \notin D
      BY <1>5, <1>13, <2>1, <3>1
    <3>2. CASE q \in D
      <4>1. room # devices
        BY <2>1, <3>2
      <4>2. PICK s \in D : /\ Cardinality(D) = maxDevices /\ room = Without(devices, {s})
                           /\ \A p \in D \ {s} : Latest(Seen(s)) < Latest(Seen(p))
        BY <1>4, <4>1
      <4>3. DOMAIN room = D \ {s} /\ q = s
        BY <2>1, <3>2, <4>2, WithoutIs
      <4> QED
        BY <4>2, <4>3
    <3> QED
      BY <3>1, <3>2
  <2>4. ASSUME NEW p \in DOMAIN devices' PROVE Latest(Seen(q)') < Latest(Seen(p)')
    <3>1. CASE p = ip
      <4>1. Latest(Seen(p)') = n + 1 /\ Latest(Seen(q)') = Latest(Seen(q))
        BY <1>14, <2>1, <3>1, Zenon
      <4>2. \A k \in 1..n : k < n + 1
        BY <1>1
      <4>3. Latest(Seen(q)) < n + 1
        BY <2>2, <4>2, Zenon
      <4> QED
        BY <4>1, <4>3, Zenon
    <3>2. CASE p # ip
      <4>1. Latest(Seen(p)') = Latest(Seen(p)) /\ Latest(Seen(q)') = Latest(Seen(q)) /\ p \in DOMAIN room
        BY <1>7, <1>14, <2>1, <3>2, Zenon
      <4> QED
        BY <2>3, <4>1, Zenon
    <3> QED
      BY <3>1, <3>2
  <2> QED
    BY <1>12, <2>3, <2>4
<1>17. ASSUME NEW q \in DOMAIN room, q # ip
       PROVE  DeviceIsTrue(q)'
  <2>1. q \in D /\ devices'[q] = devices[q] /\ Seen(q)' = Seen(q) /\ Seen(q) \subseteq 1..n
    BY <1>2, <1>5, <1>8, <1>17
  <2>2. Visit(q)' = Visit(q) /\ Visit(q) \subseteq 1..n
    BY <1>1, <2>1 DEF Visit
  <2>3. Former(q)' = Former(q) /\ Former(q) \subseteq 1..n
    BY <2>1, <2>2 DEF Former
  <2>4. DeviceIsTrue(q) /\ Visit(q) # {}
    BY <2>1 DEF DevicesInv, DevicesTrue, DeviceIsTrue
  <2>5. \A what_1 : {i \in Visit(q)' : touches'[i].what = what_1} = {i \in Visit(q) : touches[i].what = what_1}
    BY <1>1, <2>2
  <2>6. Latest(Visit(q)) \in Visit(q) /\ Earliest(Visit(q)) \in Visit(q)
    BY <1>1, <2>2, <2>4, EndsAre
  <2>7. touches'[Latest(Visit(q)')] = touches[Latest(Visit(q))]
    BY <1>1, <2>2, <2>6
  <2>8. ASSUME Former(q) # {}
        PROVE  {touches'[i].ip : i \in Latest(Former(q)')..Earliest(Visit(q)')}
                 = {touches[i].ip : i \in Latest(Former(q))..Earliest(Visit(q))}
    <3>1. Latest(Former(q)) \in 1..n /\ Earliest(Visit(q)) \in 1..n
      BY <1>1, <2>2, <2>3, <2>6, <2>8, EndsAre
    <3>2. \A a, b \in 1..n : \A i \in a..b : touches'[i] = touches[i]
      BY <1>1
    <3>3. \A i \in Latest(Former(q))..Earliest(Visit(q)) : touches'[i] = touches[i]
      BY <3>1, <3>2, Zenon
    <3> QED
      BY <2>2, <2>3, <3>3
  <2> QED
    BY <2>1, <2>2, <2>3, <2>4, <2>5, <2>7, <2>8 DEF DeviceIsTrue
<1>18. DeviceIsTrue(ip)'
  <2> DEFINE base == IF ip \in DOMAIN room THEN Visit(ip) ELSE {}
             of(w) == {i \in base : touches[i].what = w}
  <2>1. ip \in DOMAIN room <=> ip \in D
    BY <1>4, <1>5
  <2>2. base \in SUBSET Seen(ip) /\ base \in SUBSET (1..n) /\ IsFiniteSet(base) /\ n + 1 \notin base
    <3>1. base \in SUBSET Seen(ip) /\ base \in SUBSET (1..n)
      BY <1>2 DEF Visit
    <3>2. IsFiniteSet(1..n)
      BY <1>1, FS_Interval
    <3> QED
      BY <1>1, <3>1, <3>2, FS_Subset
  <2>3. devices'[ip].first = old.first /\ devices'[ip].last = time
    BY <1>7, <1>9 DEF Noted, Device
  <2>4. Visit(ip)' = base \cup {n + 1}
    <3>1. CASE ip \in D
      <4>1. old = devices[ip] /\ base = Visit(ip)
        BY <1>5, <2>1, <3>1 DEF old
      <4>2. devices[ip].first \in Nat /\ devices[ip].last \in Nat /\ devices[ip].first <= devices[ip].last
        BY <1>3, <3>1, VisitEnds DEF Device
      <4>3. devices[ip].last < time
        <5>1. PICK i \in Seen(ip) : devices[ip].last = touches[i].at
          BY <3>1, VisitEnds, Zenon
        <5> QED
          BY <1>1, <1>2, <5>1
      <4>4. devices[ip].first <= time
        BY <4>2, <4>3
      <4> QED
        BY <1>1, <1>2, <2>3, <4>1, <4>2, <4>4 DEF Visit
    <3>2. CASE ip \notin D
      <4>1. old.first = time /\ base = {}
        BY <2>1, <3>2 DEF old, NewDevice
      <4>2. \A i \in 1..n : touches'[i].at \in Nat /\ touches'[i].at < time
        BY <1>1, TouchesAre DEF DevicesInv
      <4> QED
        BY <1>1, <1>2, <2>3, <4>1, <4>2 DEF Visit
    <3> QED
      BY <3>1, <3>2
  <2>5. Former(ip)' = Seen(ip) \ base
    BY <1>1, <1>2, <2>4 DEF Former
  <2>6. Latest(Visit(ip)') = n + 1 /\ Earliest(Visit(ip)') = IF base = {} THEN n + 1 ELSE Earliest(base)
    BY <1>1, <2>2, <2>4, LaterEnds
  <2>7. /\ old.requests = Cardinality(of("request")) /\ old.decrypted = Cardinality(of("accepted"))
        /\ old.rejected = Cardinality(of("refused"))
    <3>1. CASE ip \in D
      BY <1>5, <2>1, <3>1 DEF old, DevicesInv, DevicesTrue, DeviceIsTrue
    <3>2. CASE ip \notin D
      <4>1. \A w : of(w) = {}
        BY <2>1, <3>2
      <4> HIDE DEF of
      <4> QED
        BY <2>1, <3>2, <4>1, FS_EmptySet DEF old, NewDevice
    <3> QED
      BY <3>1, <3>2
  <2>8. ASSUME NEW w
        PROVE  /\ Cardinality(of(w)) \in Nat
               /\ Cardinality({i \in Visit(ip)' : touches'[i].what = w}) =
                    IF what = w THEN Cardinality(of(w)) + 1 ELSE Cardinality(of(w))
    <3>1. {i \in Visit(ip)' : touches'[i].what = w} = of(w) \cup (IF what = w THEN {n + 1} ELSE {})
      BY <1>1, <2>2, <2>4
    <3>2. IsFiniteSet(of(w)) /\ n + 1 \notin of(w)
      BY <2>2, FS_Subset
    <3> HIDE DEF of
    <3>3. Cardinality(of(w)) \in Nat /\ Cardinality(of(w) \cup {n + 1}) = Cardinality(of(w)) + 1
      BY <3>2, FS_AddElement, FS_CardinalityType
    <3>4. of(w) \cup {} = of(w)
      OBVIOUS
    <3> QED
      BY <3>1, <3>3, <3>4
  <2> HIDE DEF of, base
  <2>9. /\ devices'[ip].requests = Cardinality({i \in Visit(ip)' : touches'[i].what = "request"})
        /\ devices'[ip].decrypted = Cardinality({i \in Visit(ip)' : touches'[i].what = "accepted"})
        /\ devices'[ip].rejected = Cardinality({i \in Visit(ip)' : touches'[i].what = "refused"})
    <3>1. /\ devices'[ip].requests = IF what = "request" THEN old.requests + 1 ELSE old.requests
          /\ devices'[ip].decrypted = IF what = "accepted" THEN old.decrypted + 1 ELSE old.decrypted
          /\ devices'[ip].rejected = IF what = "refused" THEN old.rejected + 1 ELSE old.rejected
      BY <1>7, <1>9 DEF Noted, Device
    <3> QED
      BY <2>7, <2>8, <3>1
  <2>10. ASSUME Former(ip)' # {}
         PROVE  Cardinality({touches'[i].ip : i \in Latest(Former(ip)')..Earliest(Visit(ip)')} \ {ip}) >= maxDevices
    <3> DEFINE a == Latest(Seen(ip) \ base)
               b == IF base = {} THEN n + 1 ELSE Earliest(base)
               others == {touches'[i].ip : i \in a..b} \ {ip}
    <3>1. Seen(ip) \ base # {} /\ a \in 1..n /\ b \in 1..(n + 1)
      <4>1. Seen(ip) \ base # {} /\ Seen(ip) \ base \in SUBSET (1..n)
        BY <1>2, <2>5, <2>10
      <4>2. a \in 1..n
        BY <1>1, <4>1, EndsAre
      <4>3. base # {} => Earliest(base) \in 1..n
        BY <1>1, <2>2, EndsAre
      <4> QED
        BY <1>1, <4>1, <4>2, <4>3
    <3>2. Cardinality(others) >= maxDevices
      <4>1. CASE ip \in D
        <5>1. base = Visit(ip) /\ Visit(ip) # {} /\ Seen(ip) \ base = Former(ip)
          BY <2>1, <4>1, VisitEnds DEF base, Former
        <5>2. Cardinality({touches[i].ip : i \in a..b} \ {ip}) >= maxDevices
          BY <3>1, <4>1, <5>1 DEF DevicesInv, DevicesTrue, DeviceIsTrue
        <5>3. b \in 1..n
          BY <1>1, <2>2, <5>1, EndsAre
        <5> HIDE DEF a, b
        <5>4. \A i \in a..b : touches'[i] = touches[i]
          BY <1>1, <3>1, <5>3
        <5>5. others = {touches[i].ip : i \in a..b} \ {ip}
          BY <5>4
        <5> QED
          BY <5>2, <5>5
      <4>2. CASE ip \notin D
        <5>1. base = {} /\ b = n + 1 /\ a = Latest(Seen(ip))
          <6>1. base = {}
            BY <2>1, <4>2 DEF base
          <6>2. Seen(ip) \ {} = Seen(ip)
            OBVIOUS
          <6> QED
            BY <6>1, <6>2
        <5>2. Cardinality(D) = maxDevices /\ \A p \in D : a < Latest(Seen(p))
          BY <1>13, <3>1, <4>2, <5>1
        <5> HIDE DEF a, b
        <5>3. ASSUME NEW p \in D PROVE p \in others
          <6>1. PICK i \in Seen(p) : i = Latest(Seen(p))
            BY VisitEnds, Zenon
          <6>2. a < i
            BY <5>2, <6>1, Zenon
          <6>3. i \in a..b
            BY <1>1, <1>2, <3>1, <5>1, <6>2
          <6>4. touches'[i].ip = p /\ p # ip
            BY <1>1, <1>2, <4>2 DEF Seen
          <6> QED
            BY <6>3, <6>4
        <5>4. IsFiniteSet(others)
          <6>1. IsFiniteSet(a..b)
            BY <3>1, FS_Interval
          <6> DEFINE f == [i \in a..b |-> touches'[i].ip]
          <6>2. {f[i] : i \in a..b} = {touches'[i].ip : i \in a..b}
            OBVIOUS
          <6>3. IsFiniteSet({f[i] : i \in a..b})
            BY <6>1, FewAreNamed, ZenonT(60)
          <6> QED
            BY <6>2, <6>3, FS_Subset
        <5> HIDE DEF others
        <5>5. Cardinality(D) <= Cardinality(others) /\ Cardinality(others) \in Nat
          BY <5>3, <5>4, FS_Subset, FS_CardinalityType
        <5> QED
          BY <1>10, <5>2, <5>5
      <4> QED
        BY <4>1, <4>2
    <3> QED
      BY <2>5, <2>6, <3>2
  <2>11. Visit(ip)' # {} /\ devices'[ip].last = touches'[Latest(Visit(ip)')].at
    BY <1>1, <2>3, <2>4, <2>6
  <2> QED
    BY <2>9, <2>10, <2>11 DEF DeviceIsTrue
<1> QED
  BY <1>7, <1>11, <1>12, <1>16, <1>17, <1>18 DEF DevicesInv, DevicesTrue

-----------------------------------------------------------------------------
(* The hosts that refused. *)

\* What the ring holds of a host, and a call of add, forget or list.
Rejection == [count : Nat, first : Nat, last : Nat]
Refusal == [op : {"add", "forget", "list"}, host : Host \cup Pattern \cup {<<>>}, at : Nat]

RejectedType ==
  /\ refusals \in Seq(Refusal) /\ InTime(refusals)
  /\ rejected \in [DOMAIN rejected -> Rejection] /\ DOMAIN rejected \subseteq Host
  /\ IsFiniteSet(DOMAIN rejected)

\* The property is inductive once the calls have their times.
RejectedInv == RejectedType /\ RejectedTrue

\* The calls by number, each later than the one before it.
LEMMA RefusalsAre ==
  ASSUME NEW calls \in Seq(Refusal)
  PROVE  /\ Len(calls) \in Nat /\ DOMAIN calls = 1..Len(calls)
         /\ \A i \in 1..Len(calls) : calls[i] \in Refusal /\ calls[i].at \in Nat
<1>1. Len(calls) \in Nat /\ DOMAIN calls = 1..Len(calls)
  BY LenProperties
<1>2. \A i \in 1..Len(calls) : calls[i] \in Refusal
  BY ElementOfSeq
<1> QED
  BY <1>1, <1>2 DEF Refusal

\* The others that have refused are finitely many, and stay.
LEMMA CrowdGrows ==
  ASSUME NEW calls, NEW more, NEW h, NEW i \in Int, NEW k \in Int, NEW m \in Int, k <= m,
         \A j \in i..k : more[j] = calls[j]
  PROVE  /\ Crowd(calls, h, i, k) \subseteq Crowd(more, h, i, m)
         /\ IsFiniteSet(Crowd(more, h, i, m))
         /\ Cardinality(Crowd(calls, h, i, k)) <= Cardinality(Crowd(more, h, i, m))
         /\ Cardinality(Crowd(calls, h, i, k)) \in Nat
<1>1. \A j \in i..k : j \in i..m
  OBVIOUS
<1>2. Crowd(calls, h, i, k) \subseteq Crowd(more, h, i, m)
  BY <1>1 DEF Crowd
<1>3. IsFiniteSet(Crowd(more, h, i, m))
  <2> DEFINE S == {l \in i..m : more[l].op = "add"}
             f == [l \in S |-> more[l].host]
  <2>1. IsFiniteSet(S)
    BY FS_Interval, FS_Subset
  <2>2. Crowd(more, h, i, m) \subseteq {f[l] : l \in S}
    BY DEF Crowd
  <2> HIDE DEF f, S
  <2>3. IsFiniteSet({f[l] : l \in S})
    BY <2>1, FewAreNamed
  <2> QED
    BY <2>2, <2>3, FS_Subset
<1> QED
  BY <1>2, <1>3, FS_Subset, FS_CardinalityType

\* What was lost stays so, whatever calls come.
LEMMA LostStays ==
  ASSUME NEW calls \in Seq(Refusal), InTime(calls), NEW more \in Seq(Refusal), InTime(more),
         Len(calls) <= Len(more), \A j \in 1..Len(calls) : more[j] = calls[j],
         NEW h, NEW i \in 1..Len(calls), NEW k \in i..Len(calls), NEW m \in k..Len(more),
         Lost(calls, h, i, k)
  PROVE  Lost(more, h, i, m)
<1>1. /\ Len(calls) \in Nat /\ Len(more) \in Nat /\ DOMAIN more = 1..Len(more)
      /\ \A j \in 1..Len(more) : more[j].at \in Nat
  BY RefusalsAre
<1>2. k <= m /\ k \in 1..Len(calls) /\ m \in 1..Len(more) /\ i \in 1..Len(more) /\ k \in 1..Len(more)
  BY <1>1
<1>3. more[k].at <= more[m].at
  <2>1. k = m \/ k < m
    BY <1>2
  <2>2. k < m => more[k].at < more[m].at
    BY <1>1, <1>2 DEF InTime
  <2> QED
    BY <1>1, <1>2, <2>1, <2>2
<1>4. more[i] = calls[i] /\ more[k] = calls[k]
  BY <1>2
<1>5. \A j \in i..k : j \in i..m /\ more[j] = calls[j]
  BY <1>1, <1>2
<1>6. CASE calls[k].at - calls[i].at > rejectedWindow
  <2>1. more[m].at - more[i].at > rejectedWindow
    BY <1>1, <1>2, <1>3, <1>4, <1>6, TablesAssumption, SMTT(60) DEF TablesAssumption
  <2> QED
    BY <2>1 DEF Lost
<1>7. CASE Forgotten(calls, h, i, k)
  BY <1>5, <1>7 DEF Lost, Forgotten
<1>8. CASE Cardinality(Crowd(calls, h, i, k)) >= rejectedLimit
  <2>1. i \in Int /\ k \in Int /\ m \in Int
    BY <1>1
  <2>2. /\ Cardinality(Crowd(calls, h, i, k)) <= Cardinality(Crowd(more, h, i, m))
        /\ Cardinality(Crowd(calls, h, i, k)) \in Nat /\ IsFiniteSet(Crowd(more, h, i, m))
    BY <1>2, <1>5, <2>1, CrowdGrows
  <2>3. Cardinality(Crowd(more, h, i, m)) \in Nat
    BY <2>2, FS_CardinalityType
  <2>4. Cardinality(Crowd(more, h, i, m)) >= rejectedLimit
    BY <1>8, <2>2, <2>3, TablesAssumption DEF TablesAssumption
  <2> QED
    BY <2>4 DEF Lost
<1> QED
  BY <1>6, <1>7, <1>8 DEF Lost

\* What was lost by the last call is lost by the next.
LEMMA LostByNext ==
  ASSUME NEW calls \in Seq(Refusal), InTime(calls), NEW more \in Seq(Refusal), InTime(more),
         Len(more) = Len(calls) + 1, \A j \in 1..Len(calls) : more[j] = calls[j],
         NEW h, NEW i \in 1..Len(calls), Lost(calls, h, i, Len(calls))
  PROVE  Lost(more, h, i, Len(calls) + 1)
<1>1. Len(calls) \in Nat
  BY LenProperties
<1>2. PICK k \in i..Len(calls) : k = Len(calls)
  BY <1>1
<1>3. PICK m \in k..Len(more) : m = Len(calls) + 1
  BY <1>1, <1>2
<1>4. Len(calls) <= Len(more) /\ Lost(calls, h, i, k)
  BY <1>1, <1>2
<1>5. Lost(more, h, i, m)
  BY <1>4, LostStays
<1> QED
  BY <1>3, <1>5

\* The refusals that are counted are the last of a host.
LEMMA StreakEnds ==
  ASSUME RejectedInv, NEW h \in DOMAIN rejected
  PROVE  /\ Refused(h) \in SUBSET (1..Len(refusals)) /\ Streak(h) \in SUBSET Refused(h) /\ Streak(h) # {}
         /\ Latest(Streak(h)) = Latest(Refused(h)) /\ Latest(Refused(h)) \in Refused(h)
         /\ rejected[h].last = refusals[Latest(Refused(h))].at
         /\ rejected[h].first <= rejected[h].last /\ rejected[h].first \in Nat /\ rejected[h].last \in Nat
<1>1. /\ Len(refusals) \in Nat /\ DOMAIN refusals = 1..Len(refusals)
      /\ \A i \in 1..Len(refusals) : refusals[i].at \in Nat
  BY RefusalsAre DEF RejectedInv, RejectedType
<1>2. Refused(h) \in SUBSET (1..Len(refusals)) /\ Streak(h) \in SUBSET Refused(h)
  BY <1>1 DEF Refused, Streak
<1>3. Streak(h) # {} /\ rejected[h].last = refusals[Latest(Streak(h))].at
  BY DEF RejectedInv, RejectedTrue, HostIsTrue
<1>4. /\ Latest(Streak(h)) \in Streak(h) /\ \A i \in Streak(h) : i <= Latest(Streak(h))
      /\ Latest(Refused(h)) \in Refused(h) /\ \A i \in Refused(h) : i <= Latest(Refused(h))
  BY <1>1, <1>2, <1>3, EndsAre
<1>5. rejected[h].first \in Nat /\ rejected[h].last \in Nat
  BY DEF RejectedInv, RejectedType, Rejection
<1>6. \A i, j \in 1..Len(refusals) : i < j => refusals[i].at < refusals[j].at
  BY <1>1 DEF RejectedInv, RejectedType, InTime
<1>7. PICK v \in Streak(h) : v = Latest(Streak(h))
  BY <1>4, Zenon
<1>8. PICK z \in Refused(h) : z = Latest(Refused(h))
  BY <1>4, Zenon
<1>9. refusals[v].at >= rejected[h].first
  BY DEF Streak
<1>10. v <= z /\ v \in 1..Len(refusals) /\ z \in 1..Len(refusals)
  BY <1>2, <1>4, <1>7, <1>8
<1>11. refusals[v].at <= refusals[z].at
  BY <1>1, <1>6, <1>10
<1>12. z \in Streak(h)
  BY <1>1, <1>5, <1>9, <1>10, <1>11 DEF Streak
<1>13. z = v
  BY <1>1, <1>4, <1>7, <1>10, <1>12
<1> QED
  BY <1>2, <1>3, <1>4, <1>5, <1>7, <1>8, <1>9, <1>13

\* What there is of refusals before and after one more call.
LEMMA RefusalsGrow ==
  ASSUME RejectedInv, NEW call \in Refusal, Clock(refusals) < call.at, refusals' = Append(refusals, call)
  PROVE  /\ refusals \in Seq(Refusal) /\ refusals' \in Seq(Refusal) /\ InTime(refusals) /\ InTime(refusals')
         /\ Len(refusals) \in Nat /\ Len(refusals') = Len(refusals) + 1
         /\ DOMAIN refusals = 1..Len(refusals) /\ DOMAIN refusals' = 1..(Len(refusals) + 1)
         /\ refusals'[Len(refusals) + 1] = call /\ call.at \in Nat
         /\ \A i \in 1..Len(refusals) :
              /\ refusals'[i] = refusals[i] /\ refusals[i].at < call.at /\ refusals[i].at \in Nat
         /\ \A h : /\ Refused(h) \in SUBSET (1..Len(refusals))
                   /\ call.op = "add" /\ call.host = h => Refused(h)' = Refused(h) \cup {Len(refusals) + 1}
                   /\ ~(call.op = "add" /\ call.host = h) => Refused(h)' = Refused(h)
<1> DEFINE n == Len(refusals)
<1>1. \A c \in Refusal : c.at \in Nat
  BY DEF Refusal
<1>2. refusals \in Seq(Refusal) /\ InTime(refusals)
  BY DEF RejectedInv, RejectedType
<1>3. /\ refusals' \in Seq(Refusal) /\ InTime(refusals')
      /\ DOMAIN refusals = 1..n /\ DOMAIN refusals' = 1..(n + 1) /\ Len(refusals') = n + 1 /\ n \in Nat
      /\ refusals'[n + 1] = call
      /\ \A i \in 1..n : refusals'[i] = refusals[i] /\ refusals[i].at < call.at
  BY <1>1, <1>2, CallsGrow
<1>4. \A i \in 1..n : refusals[i].at \in Nat
  BY <1>2, RefusalsAre
<1>5. ASSUME NEW h
      PROVE  /\ Refused(h) \in SUBSET (1..n)
             /\ call.op = "add" /\ call.host = h => Refused(h)' = Refused(h) \cup {n + 1}
             /\ ~(call.op = "add" /\ call.host = h) => Refused(h)' = Refused(h)
  BY <1>3 DEF Refused
<1> QED
  BY <1>1, <1>2, <1>3, <1>4, <1>5

\* What happened to a listed host before its last streak is not changed by calls.
LEMMA EarlierStays ==
  ASSUME RejectedInv, NEW call \in Refusal, Clock(refusals) < call.at, refusals' = Append(refusals, call),
         NEW h \in DOMAIN rejected, Earlier(h) # {}
  PROVE  Lost(refusals', h, Latest(Earlier(h)), Earliest(Streak(h)))
<1>1. Lost(refusals, h, Latest(Earlier(h)), Earliest(Streak(h)))
  BY DEF RejectedInv, RejectedTrue, HostIsTrue
<1>2. /\ refusals \in Seq(Refusal) /\ refusals' \in Seq(Refusal) /\ InTime(refusals) /\ InTime(refusals')
      /\ Len(refusals) <= Len(refusals') /\ \A j \in 1..Len(refusals) : refusals'[j] = refusals[j]
      /\ Len(refusals) \in Nat /\ Len(refusals') \in Nat /\ DOMAIN refusals = 1..Len(refusals)
      /\ \A j \in 1..Len(refusals) : refusals[j].at \in Nat
  BY RefusalsGrow
<1>3. /\ Refused(h) \in SUBSET (1..Len(refusals)) /\ Streak(h) \in SUBSET Refused(h) /\ Streak(h) # {}
      /\ rejected[h].first \in Nat
  BY StreakEnds
<1>4. PICK i \in Earlier(h) : i = Latest(Earlier(h))
  <2>1. Earlier(h) \in SUBSET (1..Len(refusals))
    BY <1>3 DEF Earlier
  <2> QED
    BY <1>2, <2>1, EndsAre, Zenon
<1>5. PICK k \in Streak(h) : k = Earliest(Streak(h))
  <2>1. Streak(h) \in SUBSET (1..Len(refusals))
    BY <1>3
  <2> QED
    BY <1>2, <1>3, <2>1, EndsAre, Zenon
<1>6. i < k
  <2>1. i \in 1..Len(refusals) /\ k \in 1..Len(refusals)
    BY <1>3 DEF Earlier
  <2>2. ~(refusals[i].at >= rejected[h].first) /\ refusals[k].at >= rejected[h].first
    BY <1>3 DEF Earlier, Streak
  <2>3. refusals[i].at < refusals[k].at
    BY <1>2, <1>3, <2>1, <2>2
  <2>4. k < i => refusals[k].at < refusals[i].at
    BY <1>2, <2>1 DEF InTime
  <2>5. i # k
    BY <1>2, <2>1, <2>3
  <2> QED
    BY <1>2, <2>1, <2>3, <2>4, <2>5
<1>7. i \in 1..Len(refusals) /\ k \in i..Len(refusals) /\ k \in k..Len(refusals')
  BY <1>2, <1>3, <1>6 DEF Earlier
<1>8. Lost(refusals, h, i, k)
  BY <1>1, <1>4, <1>5, Zenon
<1>9. Lost(refusals', h, i, k)
  BY <1>2, <1>7, <1>8, LostStays
<1> QED
  BY <1>4, <1>5, <1>9, Zenon

\* A host whose entry a call leaves alone.
LEMMA HostStays ==
  ASSUME RejectedInv, NEW call \in Refusal, Clock(refusals) < call.at, refusals' = Append(refusals, call),
         NEW h \in DOMAIN rejected, rejected'[h] = rejected[h],
         ~(call.op = "add" /\ call.host = h), ~(call.op = "forget" /\ HostMatch(call.host, h))
  PROVE  HostIsTrue(h)'
<1> DEFINE n == Len(refusals)
<1>1. /\ n \in Nat /\ Len(refusals') = n + 1 /\ refusals'[n + 1] = call /\ Refused(h) \in SUBSET (1..n)
      /\ \A i \in 1..n : refusals'[i] = refusals[i] /\ refusals[i].at \in Nat
      /\ Refused(h)' = Refused(h)
  BY RefusalsGrow
<1>2. Streak(h)' = Streak(h) /\ Streak(h) \in SUBSET (1..n) /\ Earlier(h)' = Earlier(h)
  BY <1>1 DEF Streak, Earlier
<1>3. HostIsTrue(h) /\ Streak(h) # {}
  BY DEF RejectedInv, RejectedTrue, HostIsTrue
<1>4. PICK a \in Streak(h) : a = Earliest(Streak(h))
  BY <1>1, <1>2, <1>3, EndsAre, Zenon
<1>5. PICK z \in Streak(h) : z = Latest(Streak(h))
  BY <1>1, <1>2, <1>3, EndsAre, Zenon
<1>6. ~Forgotten(refusals', h, a, n + 1)
  <2>1. ~Forgotten(refusals, h, a, n)
    BY <1>3, <1>4, Zenon DEF HostIsTrue
  <2>2. \A j \in a..(n + 1) : j = n + 1 \/ (j \in a..n /\ refusals'[j] = refusals[j])
    BY <1>1, <1>2
  <2> QED
    BY <1>1, <2>1, <2>2 DEF Forgotten
<1>7. rejected'[h].last = refusals'[z].at
  BY <1>1, <1>2, <1>3, <1>5 DEF HostIsTrue
<1>8. \A i \in Streak(h) : i # Latest(Streak(h)) =>
        \E j \in Streak(h) : j > i /\ refusals'[j].at - refusals'[i].at <= rejectedWindow
  BY <1>1, <1>2, <1>3 DEF HostIsTrue
<1>9. Earlier(h) # {} => Lost(refusals', h, Latest(Earlier(h)), Earliest(Streak(h)))
  BY EarlierStays
<1>10. rejected'[h].count = Cardinality(Streak(h))
  BY <1>3 DEF HostIsTrue
<1>11. ~Forgotten(refusals', h, Earliest(Streak(h)), Len(refusals')) /\ rejected'[h].last = refusals'[Latest(Streak(h))].at
  BY <1>1, <1>4, <1>5, <1>6, <1>7, Zenon
<1> QED
  BY <1>2, <1>3, <1>8, <1>9, <1>10, <1>11, Zenon DEF HostIsTrue

\* A listed host refuses again, soon after.
LEMMA HostRefusesAgain ==
  ASSUME RejectedInv, NEW call \in Refusal, Clock(refusals) < call.at, refusals' = Append(refusals, call),
         NEW h \in DOMAIN rejected, call.op = "add", call.host = h, call.at - rejected[h].last <= rejectedWindow,
         rejected'[h] = [count |-> rejected[h].count + 1, first |-> rejected[h].first, last |-> call.at]
  PROVE  HostIsTrue(h)'
<1> DEFINE n == Len(refusals)
<1>1. /\ n \in Nat /\ Len(refusals') = n + 1 /\ refusals'[n + 1] = call /\ Refused(h) \in SUBSET (1..n)
      /\ \A i \in 1..n : refusals'[i] = refusals[i] /\ refusals[i].at \in Nat /\ refusals[i].at < call.at
      /\ Refused(h)' = Refused(h) \cup {n + 1} /\ call.at \in Nat
  BY RefusalsGrow
<1>2. /\ Streak(h) \in SUBSET Refused(h) /\ Streak(h) # {}
      /\ Latest(Streak(h)) = Latest(Refused(h)) /\ Latest(Refused(h)) \in Refused(h)
      /\ rejected[h].last = refusals[Latest(Refused(h))].at
      /\ rejected[h].first <= rejected[h].last /\ rejected[h].first \in Nat /\ rejected[h].last \in Nat
  BY StreakEnds
<1>3. PICK z \in Refused(h) : z = Latest(Streak(h)) /\ rejected[h].last = refusals[z].at
  BY <1>2, Zenon
<1>4. call.at >= rejected[h].first
  BY <1>1, <1>2, <1>3
<1>5. rejected'[h].first = rejected[h].first /\ rejected'[h].last = call.at /\ rejected'[h].count = rejected[h].count + 1
  OBVIOUS
<1>6. Streak(h)' = Streak(h) \cup {n + 1}
  BY <1>1, <1>4, <1>5 DEF Streak
<1>7. Earlier(h)' = Earlier(h)
  BY <1>1, <1>6 DEF Earlier
<1>8. Streak(h) \in SUBSET (1..n)
  BY <1>1, <1>2
<1>9. Latest(Streak(h)') = n + 1 /\ Earliest(Streak(h)') = Earliest(Streak(h))
  <2>1. n \in Nat /\ Streak(h) # {}
    BY <1>1, <1>2, Zenon
  <2>2. Latest(Streak(h) \cup {n + 1}) = n + 1 /\ Earliest(Streak(h) \cup {n + 1}) = Earliest(Streak(h))
    BY <1>8, <2>1, LaterEnds, Zenon
  <2> QED
    BY <1>6, <2>2, Zenon
<1>10. HostIsTrue(h)
  BY DEF RejectedInv, RejectedTrue
<1>11. rejected'[h].count = Cardinality(Streak(h)')
  <2>1. IsFiniteSet(Streak(h)) /\ n + 1 \notin Streak(h)
    <3>1. IsFiniteSet(1..n) /\ n + 1 \notin 1..n
      BY <1>1, FS_Interval
    <3> QED
      BY <1>8, <3>1, FS_Subset
  <2>2. Cardinality(Streak(h) \cup {n + 1}) = Cardinality(Streak(h)) + 1
    BY <2>1, FS_AddElement
  <2> QED
    BY <1>5, <1>6, <1>10, <2>2 DEF HostIsTrue
<1>12. rejected'[h].last = refusals'[Latest(Streak(h)')].at
  BY <1>1, <1>5, <1>9, Zenon
<1>13. PICK a \in Streak(h) : a = Earliest(Streak(h))
  BY <1>1, <1>2, <1>8, EndsAre, Zenon
<1>14. ~Forgotten(refusals', h, a, n + 1)
  <2>1. ~Forgotten(refusals, h, a, n)
    BY <1>10, <1>13, Zenon DEF HostIsTrue
  <2>2. \A j \in a..(n + 1) : j = n + 1 \/ (j \in a..n /\ refusals'[j] = refusals[j])
    BY <1>1, <1>8
  <2> QED
    BY <1>1, <2>1, <2>2 DEF Forgotten
<1>15. ~Forgotten(refusals', h, Earliest(Streak(h)'), Len(refusals'))
  BY <1>1, <1>9, <1>13, <1>14, Zenon
<1>16. ASSUME NEW i \in Streak(h)', i # Latest(Streak(h)')
       PROVE  \E j \in Streak(h)' : j > i /\ refusals'[j].at - refusals'[i].at <= rejectedWindow
  <2>1. i \in Streak(h) /\ i \in 1..n
    BY <1>6, <1>8, <1>9, <1>16
  <2>2. CASE i = z
    <3>1. n + 1 \in Streak(h)' /\ n + 1 > i /\ refusals'[n + 1].at - refusals'[i].at <= rejectedWindow
      BY <1>1, <1>3, <1>6, <2>1, <2>2
    <3> QED
      BY <3>1
  <2>3. CASE i # z
    <3>1. i # Latest(Streak(h))
      BY <1>3, <2>3, Zenon
    <3>2. PICK j \in Streak(h) : j > i /\ refusals[j].at - refusals[i].at <= rejectedWindow
      BY <1>10, <2>1, <3>1 DEF HostIsTrue
    <3> QED
      BY <1>1, <1>6, <1>8, <2>1, <3>2
  <2> QED
    BY <2>2, <2>3
<1>17. Earlier(h)' # {} => Lost(refusals', h, Latest(Earlier(h)'), Earliest(Streak(h)'))
  BY <1>7, <1>9, EarlierStays, Zenon
<1> QED
  BY <1>1, <1>6, <1>11, <1>12, <1>15, <1>16, <1>17 DEF HostIsTrue

\* By the next call, a host is lost that was not listed, or whose last refusal is too
\* old by then.
LEMMA LostByNow ==
  ASSUME RejectedInv, NEW call \in Refusal, Clock(refusals) < call.at, refusals' = Append(refusals, call),
         NEW h \in Host, Refused(h) # {},
         h \notin DOMAIN rejected \/ call.at - rejected[h].last > rejectedWindow
  PROVE  Lost(refusals', h, Latest(Refused(h)), Len(refusals) + 1)
<1> DEFINE n == Len(refusals)
<1>1. /\ refusals \in Seq(Refusal) /\ refusals' \in Seq(Refusal) /\ InTime(refusals) /\ InTime(refusals')
      /\ n \in Nat /\ Len(refusals') = n + 1 /\ refusals'[n + 1] = call /\ Refused(h) \in SUBSET (1..n)
      /\ \A i \in 1..n : refusals'[i] = refusals[i]
  BY RefusalsGrow
<1>2. PICK i \in Refused(h) : i = Latest(Refused(h))
  BY <1>1, EndsAre, Zenon
<1>3. CASE h \notin DOMAIN rejected
  <2>1. Lost(refusals, h, i, n)
    BY <1>2, <1>3, Zenon DEF RejectedInv, RejectedTrue
  <2>2. i \in 1..n /\ n \in i..n /\ n + 1 \in n..Len(refusals') /\ n <= Len(refusals')
    BY <1>1
  <2>3. Lost(refusals', h, i, n + 1)
    BY <1>1, <2>1, <2>2, LostByNext
  <2> QED
    BY <1>2, <2>3, Zenon
<1>4. CASE h \in DOMAIN rejected /\ call.at - rejected[h].last > rejectedWindow
  <2>1. rejected[h].last = refusals[i].at
    BY <1>2, <1>4, StreakEnds, Zenon
  <2>2. refusals'[n + 1].at - refusals'[i].at > rejectedWindow
    BY <1>1, <1>4, <2>1
  <2>3. Lost(refusals', h, i, n + 1)
    BY <2>2 DEF Lost
  <2> QED
    BY <1>2, <2>3, Zenon
<1> QED
  BY <1>3, <1>4

\* A host is listed anew.
LEMMA HostIsListed ==
  ASSUME RejectedInv, NEW call \in Refusal, Clock(refusals) < call.at, refusals' = Append(refusals, call),
         NEW h \in Host, call.op = "add", call.host = h,
         h \notin DOMAIN rejected \/ call.at - rejected[h].last > rejectedWindow,
         rejected'[h] = [count |-> 1, first |-> call.at, last |-> call.at]
  PROVE  HostIsTrue(h)'
<1> DEFINE n == Len(refusals)
<1>1. /\ n \in Nat /\ Len(refusals') = n + 1 /\ refusals'[n + 1] = call /\ Refused(h) \in SUBSET (1..n)
      /\ \A i \in 1..n : refusals'[i] = refusals[i] /\ refusals[i].at \in Nat /\ refusals[i].at < call.at
      /\ Refused(h)' = Refused(h) \cup {n + 1} /\ call.at \in Nat
  BY RefusalsGrow
<1>2. Streak(h)' = {n + 1}
  BY <1>1 DEF Streak
<1>3. Earlier(h)' = Refused(h)
  BY <1>1, <1>2 DEF Earlier
<1>4. Latest({n + 1}) = n + 1 /\ Earliest({n + 1}) = n + 1
  BY <1>1, EndIs
<1>5. Latest(Streak(h)') = n + 1 /\ Earliest(Streak(h)') = n + 1
  BY <1>2, <1>4, Zenon
<1>6. rejected'[h].count = Cardinality(Streak(h)')
  <2>1. Cardinality({n + 1}) = 1
    BY FS_Singleton
  <2> QED
    BY <1>2, <2>1
<1>7. rejected'[h].last = refusals'[Latest(Streak(h)')].at
  BY <1>1, <1>5
<1>8. ~Forgotten(refusals', h, n + 1, n + 1)
  BY <1>1 DEF Forgotten
<1>9. Earlier(h)' # {} => Lost(refusals', h, Latest(Earlier(h)'), n + 1)
  BY <1>3, LostByNow, Zenon
<1>10. ~Forgotten(refusals', h, Earliest(Streak(h)'), Len(refusals'))
  BY <1>1, <1>5, <1>8, Zenon
<1>11. \A i \in Streak(h)' : i = Latest(Streak(h)')
  BY <1>2, <1>5
<1> QED
  BY <1>2, <1>5, <1>6, <1>7, <1>9, <1>10, <1>11 DEF HostIsTrue

\* Pruning keeps the hosts that are not too old, as they were.
LEMMA PrunedIs ==
  ASSUME RejectedInv, NEW time
  PROVE  LET p == pruneLocked(rejected, time) IN
         /\ DOMAIN p = {h \in DOMAIN rejected : ~(time - rejected[h].last > rejectedWindow)}
         /\ \A h \in DOMAIN p : p[h] = rejected[h]
         /\ p \in [DOMAIN p -> Rejection]
         /\ IsFiniteSet(DOMAIN p) /\ Cardinality(DOMAIN p) \in Nat /\ Cardinality(DOMAIN p) <= rejectedLimit
<1> DEFINE p == pruneLocked(rejected, time)
<1>1. /\ DOMAIN p = {h \in DOMAIN rejected : ~(time - rejected[h].last > rejectedWindow)}
      /\ \A h \in DOMAIN p : p[h] = rejected[h]
  BY DEF pruneLocked, Without, Restrict
<1>2. p \in [DOMAIN p -> Rejection]
  <2>1. p = [h \in DOMAIN p |-> p[h]]
    BY DEF pruneLocked, Without, Restrict
  <2>2. \A h \in DOMAIN p : p[h] \in Rejection
    BY <1>1 DEF RejectedInv, RejectedType
  <2> HIDE DEF p
  <2> QED
    BY <2>1, <2>2
<1> HIDE DEF p
<1>3. /\ IsFiniteSet(DOMAIN rejected) /\ Cardinality(DOMAIN rejected) <= rejectedLimit
      /\ Cardinality(DOMAIN rejected) \in Nat /\ rejectedLimit \in Nat
  BY FS_CardinalityType, TablesAssumption DEF RejectedInv, RejectedType, RejectedTrue, TablesAssumption
<1>4. IsFiniteSet(DOMAIN p) /\ Cardinality(DOMAIN p) <= Cardinality(DOMAIN rejected)
  BY <1>1, <1>3, FS_Subset
<1>5. Cardinality(DOMAIN p) \in Nat
  BY <1>4, FS_CardinalityType
<1> QED
  BY <1>1, <1>2, <1>3, <1>4, <1>5 DEF p

\* The list is asked for.
LEMMA ListKeeps ==
  ASSUME RejectedInv, NEW time \in Nat, Clock(refusals) < time, ListRejected(time)
  PROVE  RejectedInv'
<1> DEFINE n == Len(refusals)
           call == [op |-> "list", host |-> <<>>, at |-> time]
           p == pruneLocked(rejected, time)
<1>1. call \in Refusal /\ refusals' = Append(refusals, call) /\ Clock(refusals) < call.at /\ rejected' = p
  BY DEF ListRejected, Refusal
<1>2. /\ DOMAIN p = {h \in DOMAIN rejected : ~(time - rejected[h].last > rejectedWindow)}
      /\ \A h \in DOMAIN p : p[h] = rejected[h]
      /\ p \in [DOMAIN p -> Rejection]
      /\ IsFiniteSet(DOMAIN p) /\ Cardinality(DOMAIN p) <= rejectedLimit
  BY PrunedIs
<1>3. call.op = "list" /\ call.at = time
  OBVIOUS
<1> HIDE DEF p, call
<1>4. /\ refusals' \in Seq(Refusal) /\ InTime(refusals') /\ n \in Nat /\ Len(refusals') = n + 1
      /\ refusals'[n + 1] = call /\ \A h : Refused(h)' = Refused(h)
  BY <1>1, <1>3, RefusalsGrow
<1>5. RejectedType'
  BY <1>1, <1>2, <1>4 DEF RejectedInv, RejectedType
<1>6. ASSUME NEW h \in DOMAIN rejected' PROVE HostIsTrue(h)'
  BY <1>1, <1>2, <1>3, HostStays
<1>7. ASSUME NEW h \in Host \ DOMAIN rejected', Refused(h)' # {}
      PROVE  Lost(refusals', h, Latest(Refused(h)'), n + 1)
  <2>1. h \notin DOMAIN rejected \/ call.at - rejected[h].last > rejectedWindow
    BY <1>1, <1>2, <1>3, <1>7
  <2>2. Refused(h)' = Refused(h) /\ Refused(h) # {}
    BY <1>4, <1>7
  <2> QED
    BY <1>1, <2>1, <2>2, LostByNow, Zenon
<1>8. \A h \in DOMAIN rejected' : Clock(refusals') - rejected'[h].last <= rejectedWindow
  <2>1. Clock(refusals') = time
    BY <1>3, <1>4 DEF Clock
  <2>2. \A h \in DOMAIN p : rejected[h].last \in Nat
    BY <1>2, StreakEnds
  <2> QED
    BY <1>1, <1>2, <2>1, <2>2, TablesAssumption DEF TablesAssumption
<1> QED
  BY <1>1, <1>2, <1>4, <1>5, <1>6, <1>7, <1>8 DEF RejectedInv, RejectedTrue

\* Hosts that match a pattern of the never list are forgotten.
LEMMA ForgetKeeps ==
  ASSUME RejectedInv, NEW time \in Nat, Clock(refusals) < time, NEW pattern \in Pattern, Forget(pattern, time)
  PROVE  RejectedInv'
<1> DEFINE n == Len(refusals)
           call == [op |-> "forget", host |-> pattern, at |-> time]
<1>1. call \in Refusal /\ refusals' = Append(refusals, call) /\ Clock(refusals) < call.at
  BY DEF Forget, Refusal
<1>2. /\ DOMAIN rejected' = {h \in DOMAIN rejected : ~HostMatch(pattern, h)}
      /\ \A h \in DOMAIN rejected' : rejected'[h] = rejected[h]
      /\ rejected' = [h \in DOMAIN rejected' |-> rejected'[h]]
  BY DEF Forget, forget, Without, Restrict
<1>3. call.op = "forget" /\ call.at = time /\ call.host = pattern
  OBVIOUS
<1> HIDE DEF call
<1>4. /\ refusals \in Seq(Refusal) /\ InTime(refusals)
      /\ refusals' \in Seq(Refusal) /\ InTime(refusals') /\ n \in Nat /\ Len(refusals') = n + 1
      /\ refusals'[n + 1] = call /\ \A h : Refused(h)' = Refused(h) /\ Refused(h) \in SUBSET (1..n)
  BY <1>1, <1>3, RefusalsGrow
<1>5. /\ IsFiniteSet(DOMAIN rejected) /\ Cardinality(DOMAIN rejected) <= rejectedLimit
      /\ DOMAIN rejected \subseteq Host /\ \A h \in DOMAIN rejected : rejected[h] \in Rejection
  BY DEF RejectedInv, RejectedType, RejectedTrue
<1>6. IsFiniteSet(DOMAIN rejected') /\ Cardinality(DOMAIN rejected') <= rejectedLimit
  <2>1. IsFiniteSet(DOMAIN rejected') /\ Cardinality(DOMAIN rejected') <= Cardinality(DOMAIN rejected)
    BY <1>2, <1>5, FS_Subset
  <2>2. Cardinality(DOMAIN rejected') \in Nat /\ Cardinality(DOMAIN rejected) \in Nat /\ rejectedLimit \in Nat
    BY <1>5, <2>1, FS_CardinalityType, TablesAssumption DEF TablesAssumption
  <2> QED
    BY <1>5, <2>1, <2>2
<1>7. RejectedType'
  BY <1>2, <1>4, <1>5, <1>6 DEF RejectedType
<1>8. ASSUME NEW h \in DOMAIN rejected' PROVE HostIsTrue(h)'
  BY <1>1, <1>2, <1>3, HostStays
<1>9. ASSUME NEW h \in Host \ DOMAIN rejected', Refused(h)' # {}
      PROVE  Lost(refusals', h, Latest(Refused(h)'), n + 1)
  <2>1. CASE h \notin DOMAIN rejected
    BY <1>1, <1>4, <1>9, <2>1, LostByNow, Zenon
  <2>2. CASE h \in DOMAIN rejected
    <3>1. HostMatch(pattern, h)
      BY <1>2, <1>9, <2>2
    <3>2. Latest(Refused(h)) \in 1..n
      BY <1>4, <1>9, EndsAre
    <3>3. n + 1 \in Latest(Refused(h))..(n + 1)
      BY <1>4, <3>2
    <3>4. Forgotten(refusals', h, Latest(Refused(h)), n + 1)
      BY <1>3, <1>4, <3>1, <3>3 DEF Forgotten
    <3> QED
      BY <1>4, <3>4 DEF Lost
  <2> QED
    BY <2>1, <2>2
<1>10. refusals'[Len(refusals')].op = "forget"
  BY <1>3, <1>4
<1> QED
  BY <1>4, <1>6, <1>7, <1>8, <1>9, <1>10 DEF RejectedInv, RejectedTrue

\* What add does to the table: a host is counted again, or listed; then the one that is
\* not seen for longest makes room, if there is none.
Added(p, t, host, time) ==
  \/ /\ host \in DOMAIN p /\ DOMAIN t = DOMAIN p
     /\ t[host] = [count |-> p[host].count + 1, first |-> p[host].first, last |-> time]
     /\ \A h \in DOMAIN p \ {host} : t[h] = p[h]
  \/ /\ host \notin DOMAIN p /\ Cardinality(DOMAIN p) < rejectedLimit
     /\ DOMAIN t = DOMAIN p \cup {host}
     /\ t[host] = [count |-> 1, first |-> time, last |-> time]
     /\ \A h \in DOMAIN p : t[h] = p[h]
  \/ /\ host \notin DOMAIN p /\ Cardinality(DOMAIN p) = rejectedLimit
     /\ \E s \in DOMAIN p :
          /\ DOMAIN t = (DOMAIN p \ {s}) \cup {host}
          /\ t[host] = [count |-> 1, first |-> time, last |-> time]
          /\ \A h \in DOMAIN p \ {s} : t[h] = p[h] /\ p[s].last <= p[h].last

\* What add does is one of the three.
LEMMA AddIs ==
  ASSUME RejectedInv, NEW host \in Host, NEW time \in Nat,
         NEW p, p = pruneLocked(rejected, time), NEW t, t = add(rejected, host, time)
  PROVE  Added(p, t, host, time)
<1> DEFINE new == [count |-> 1, first |-> time, last |-> time]
<1>1. /\ p \in [DOMAIN p -> Rejection] /\ IsFiniteSet(DOMAIN p)
      /\ Cardinality(DOMAIN p) \in Nat /\ Cardinality(DOMAIN p) <= rejectedLimit /\ rejectedLimit \in Nat \ {0}
  BY PrunedIs, TablesAssumption DEF TablesAssumption
<1>2. t = IF host \in DOMAIN p THEN [p EXCEPT ![host].count = @ + 1, ![host].last = time]
          ELSE With(IF Cardinality(DOMAIN p) >= rejectedLimit THEN Without(p, {Stalest(p)}) ELSE p, host, new)
  BY DEF add
<1>3. CASE host \in DOMAIN p
  <2>1. t = [p EXCEPT ![host].count = @ + 1, ![host].last = time]
    BY <1>2, <1>3
  <2>2. DOMAIN t = DOMAIN p /\ \A h \in DOMAIN p \ {host} : t[h] = p[h]
    BY <1>1, <1>3, <2>1
  <2>3. t[host] = [p[host] EXCEPT !.count = p[host].count + 1, !.last = time]
    BY <1>1, <1>3, <2>1
  <2>4. p[host] \in Rejection
    BY <1>1, <1>3
  <2>5. t[host] = [count |-> p[host].count + 1, first |-> p[host].first, last |-> time]
    BY <2>3, <2>4 DEF Rejection
  <2> QED
    BY <1>3, <2>2, <2>5 DEF Added
<1>4. CASE host \notin DOMAIN p /\ Cardinality(DOMAIN p) < rejectedLimit
  <2>1. t = With(p, host, new)
    BY <1>1, <1>2, <1>4
  <2>2. DOMAIN t = DOMAIN p \cup {host} /\ t[host] = new /\ \A h \in DOMAIN p \ {host} : t[h] = p[h]
    BY <2>1 DEF With
  <2> QED
    BY <1>4, <2>2 DEF Added
<1>5. CASE host \notin DOMAIN p /\ Cardinality(DOMAIN p) = rejectedLimit
  <2> DEFINE s == Stalest(p)
  <2>1. s \in DOMAIN p /\ \A h \in DOMAIN p : p[s].last <= p[h].last
    <3>1. DOMAIN p # {}
      BY <1>1, <1>5, FS_EmptySet
    <3>2. \A h \in DOMAIN p : p[h].last \in Nat
      BY <1>1 DEF Rejection
    <3> QED
      BY <3>1, <3>2, StalestIs
  <2>2. t = With(Without(p, {s}), host, new)
    BY <1>1, <1>2, <1>5
  <2> HIDE DEF s
  <2>3. /\ DOMAIN t = (DOMAIN p \ {s}) \cup {host} /\ t[host] = new
        /\ \A h \in DOMAIN p \ {s} : t[h] = p[h]
    BY <1>5, <2>1, <2>2 DEF With, Without, Restrict
  <2> QED
    BY <1>5, <2>1, <2>3 DEF Added
<1>6. Cardinality(DOMAIN p) < rejectedLimit \/ Cardinality(DOMAIN p) = rejectedLimit
  BY <1>1
<1> QED
  BY <1>3, <1>4, <1>5, <1>6

\* A host refuses.
LEMMA RefuseKeeps ==
  ASSUME RejectedInv, NEW time \in Nat, Clock(refusals) < time, NEW host \in Host, Reject(host, time)
  PROVE  RejectedInv'
<1> DEFINE n == Len(refusals)
           call == [op |-> "add", host |-> host, at |-> time]
           p == pruneLocked(rejected, time)
           new == [count |-> 1, first |-> time, last |-> time]
<1>1. call \in Refusal /\ refusals' = Append(refusals, call) /\ Clock(refusals) < call.at
  BY DEF Reject, Refusal
<1>2. call.op = "add" /\ call.at = time /\ call.host = host
  OBVIOUS
<1>3. rejected' = add(rejected, host, time)
  BY DEF Reject
<1>4. /\ DOMAIN p = {h \in DOMAIN rejected : ~(time - rejected[h].last > rejectedWindow)}
      /\ \A h \in DOMAIN p : p[h] = rejected[h]
      /\ p \in [DOMAIN p -> Rejection]
      /\ IsFiniteSet(DOMAIN p) /\ Cardinality(DOMAIN p) \in Nat /\ Cardinality(DOMAIN p) <= rejectedLimit
  BY PrunedIs
<1>5. \/ /\ host \in DOMAIN p /\ DOMAIN rejected' = DOMAIN p
         /\ rejected'[host] = [count |-> p[host].count + 1, first |-> p[host].first, last |-> time]
         /\ \A h \in DOMAIN p \ {host} : rejected'[h] = p[h]
      \/ /\ host \notin DOMAIN p /\ Cardinality(DOMAIN p) < rejectedLimit
         /\ DOMAIN rejected' = DOMAIN p \cup {host} /\ rejected'[host] = new
         /\ \A h \in DOMAIN p : rejected'[h] = p[h]
      \/ /\ host \notin DOMAIN p /\ Cardinality(DOMAIN p) = rejectedLimit
         /\ \E s \in DOMAIN p :
              /\ DOMAIN rejected' = (DOMAIN p \ {s}) \cup {host} /\ rejected'[host] = new
              /\ \A h \in DOMAIN p \ {s} : rejected'[h] = p[h] /\ p[s].last <= p[h].last
  <2>1. p = pruneLocked(rejected, time)
    OBVIOUS
  <2> HIDE DEF p
  <2>2. Added(p, rejected', host, time)
    BY <1>3, <2>1, AddIs, Zenon
  <2> QED
    BY <2>2 DEF Added
<1> HIDE DEF p, call
<1>6. /\ refusals \in Seq(Refusal) /\ InTime(refusals)
      /\ refusals' \in Seq(Refusal) /\ InTime(refusals') /\ n \in Nat /\ Len(refusals') = n + 1
      /\ refusals'[n + 1] = call /\ \A i \in 1..n : refusals'[i] = refusals[i]
      /\ \A h : Refused(h) \in SUBSET (1..n) /\ (h # host => Refused(h)' = Refused(h))
  BY <1>1, <1>2, RefusalsGrow
<1>7. rejectedLimit \in Nat \ {0} /\ rejectedWindow \in Nat
  BY TablesAssumption DEF TablesAssumption
<1>8. DOMAIN p \subseteq DOMAIN rejected /\ DOMAIN rejected \subseteq Host
  BY <1>4 DEF RejectedInv, RejectedType
<1>9. /\ DOMAIN rejected' \subseteq DOMAIN p \cup {host} /\ host \in DOMAIN rejected'
      /\ \A h \in DOMAIN rejected' \ {host} : h \in DOMAIN p /\ rejected'[h] = rejected[h]
  BY <1>4, <1>5
<1>10. IsFiniteSet(DOMAIN rejected') /\ Cardinality(DOMAIN rejected') <= rejectedLimit
  <2>1. CASE DOMAIN rejected' = DOMAIN p
    BY <1>4, <2>1
  <2>2. CASE host \notin DOMAIN p /\ Cardinality(DOMAIN p) < rejectedLimit /\ DOMAIN rejected' = DOMAIN p \cup {host}
    <3>1. IsFiniteSet(DOMAIN p \cup {host}) /\ Cardinality(DOMAIN p \cup {host}) = Cardinality(DOMAIN p) + 1
      BY <1>4, <2>2, FS_AddElement
    <3> QED
      BY <1>4, <1>7, <2>2, <3>1
  <2>3. ASSUME NEW s \in DOMAIN p, host \notin DOMAIN p, Cardinality(DOMAIN p) = rejectedLimit,
               DOMAIN rejected' = (DOMAIN p \ {s}) \cup {host}
        PROVE  IsFiniteSet(DOMAIN rejected') /\ Cardinality(DOMAIN rejected') <= rejectedLimit
    <3>1. IsFiniteSet(DOMAIN p \ {s}) /\ Cardinality(DOMAIN p \ {s}) = rejectedLimit - 1
      BY <1>4, <2>3, FS_RemoveElement
    <3>2. IsFiniteSet((DOMAIN p \ {s}) \cup {host}) /\ Cardinality((DOMAIN p \ {s}) \cup {host}) = rejectedLimit - 1 + 1
      BY <2>3, <3>1, FS_AddElement
    <3> QED
      BY <1>7, <2>3, <3>2
  <2> QED
    BY <1>5, <2>1, <2>2, <2>3
<1>11. \/ rejected'[host] = new
       \/ /\ host \in DOMAIN p
          /\ rejected'[host] =
               [count |-> rejected[host].count + 1, first |-> rejected[host].first, last |-> time]
  BY <1>4, <1>5
<1>12. rejected'[host] = new => host \notin DOMAIN rejected \/ time - rejected[host].last > rejectedWindow
  <2>1. CASE host \in DOMAIN p
    <3>1. rejected[host] \in Rejection /\ rejected[host].count # 0
      <4>1. rejected[host].count = Cardinality(Streak(host)) /\ Streak(host) # {}
        BY <1>8, <2>1 DEF RejectedInv, RejectedTrue, HostIsTrue
      <4>2. Streak(host) \in SUBSET (1..n)
        BY <1>6 DEF Streak
      <4>3. IsFiniteSet(Streak(host))
        <5>1. IsFiniteSet(1..n)
          BY <1>6, FS_Interval
        <5> QED
          BY <4>2, <5>1, FS_Subset
      <4>4. rejected[host].count # 0
        BY <4>1, <4>3, FS_EmptySet
      <4> QED
        BY <1>8, <2>1, <4>4 DEF RejectedInv, RejectedType
    <3>2. rejected'[host].count = rejected[host].count + 1
      BY <1>4, <1>5, <2>1
    <3> QED
      BY <3>1, <3>2 DEF Rejection
  <2>2. CASE host \notin DOMAIN p
    BY <1>4, <2>2
  <2> QED
    BY <2>1, <2>2
<1>13. HostIsTrue(host)'
  <2>1. CASE rejected'[host] = new
    BY <1>1, <1>2, <1>12, <2>1, HostIsListed
  <2>2. CASE host \in DOMAIN p /\ rejected'[host] =
               [count |-> rejected[host].count + 1, first |-> rejected[host].first, last |-> time]
    <3>1. host \in DOMAIN rejected /\ time - rejected[host].last <= rejectedWindow
      <4>1. host \in DOMAIN rejected /\ ~(time - rejected[host].last > rejectedWindow)
        BY <1>4, <2>2
      <4>2. rejected[host].last \in Nat
        BY <4>1, StreakEnds
      <4> QED
        BY <1>7, <4>1, <4>2
    <3> QED
      BY <1>1, <1>2, <2>2, <3>1, HostRefusesAgain
  <2> QED
    BY <1>11, <2>1, <2>2
<1>14. ASSUME NEW h \in DOMAIN rejected' PROVE HostIsTrue(h)'
  <2>1. CASE h # host
    BY <1>1, <1>2, <1>8, <1>9, <2>1, HostStays
  <2> QED
    BY <1>13, <2>1
<1>15. RejectedType'
  <2>1. rejected'[host] \in Rejection
    <3>1. new \in Rejection
      BY DEF Rejection
    <3>2. host \in DOMAIN p => rejected[host] \in Rejection
      BY <1>4
    <3> QED
      BY <1>11, <3>1, <3>2 DEF Rejection
  <2>2. \A h \in DOMAIN rejected' : rejected'[h] \in Rejection
    BY <1>4, <1>9, <2>1
  <2>3. rejected' = [h \in DOMAIN rejected' |-> rejected'[h]]
    <3>1. p = [h \in DOMAIN p |-> p[h]]
      BY <1>4
    <3> QED
      BY <1>3, <3>1 DEF add, With, p
  <2>4. rejected' \in [DOMAIN rejected' -> Rejection]
    BY <2>2, <2>3
  <2> QED
    BY <1>6, <1>8, <1>9, <1>10, <2>4 DEF RejectedType
<1>16. ASSUME NEW h \in Host \ DOMAIN rejected', Refused(h)' # {}
       PROVE  Lost(refusals', h, Latest(Refused(h)'), n + 1)
  <2>1. h # host /\ Refused(h)' = Refused(h) /\ Refused(h) # {} /\ Refused(h) \in SUBSET (1..n)
    BY <1>6, <1>9, <1>16
  <2>2. CASE h \notin DOMAIN p
    <3>1. h \notin DOMAIN rejected \/ call.at - rejected[h].last > rejectedWindow
      BY <1>2, <1>4, <2>2
    <3> QED
      BY <1>1, <2>1, <3>1, LostByNow, Zenon
  <2>3. CASE h \in DOMAIN p
    <3>1. PICK s \in DOMAIN p :
            /\ DOMAIN rejected' = (DOMAIN p \ {s}) \cup {host} /\ host \notin DOMAIN p
            /\ Cardinality(DOMAIN p) = rejectedLimit
            /\ \A g \in DOMAIN p \ {s} : p[s].last <= p[g].last
      BY <1>5, <1>16, <2>1, <2>3
    <3>2. h = s
      BY <1>16, <2>3, <3>1
    <3>3. PICK i \in Refused(h) : i = Latest(Refused(h)) /\ rejected[h].last = refusals[i].at
      BY <1>8, <2>3, StreakEnds, Zenon
    <3> DEFINE crowd == Crowd(refusals', h, i, n + 1)
    <3>4. ASSUME NEW g \in (DOMAIN p \ {s}) \cup {host} PROVE g \in crowd
      <4>1. CASE g = host
        <5>1. n + 1 \in i..(n + 1) /\ refusals'[n + 1].op = "add" /\ refusals'[n + 1].host = g
          BY <1>2, <1>6, <2>1, <4>1
        <5> QED
          BY <2>1, <4>1, <5>1 DEF Crowd
      <4>2. CASE g # host
        <5>1. g \in DOMAIN p /\ g # h /\ g \in DOMAIN rejected
          BY <1>8, <3>2, <3>4, <4>2
        <5>2. PICK j \in Refused(g) : rejected[g].last = refusals[j].at
          BY <5>1, StreakEnds, Zenon
        <5>3. rejected[h].last <= rejected[g].last
          BY <1>4, <3>1, <3>2, <3>4, <4>2
        <5>4. i \in 1..n /\ j \in 1..n /\ refusals[i].at <= refusals[j].at
          BY <1>6, <2>1, <3>3, <5>2, <5>3
        <5>5. refusals[j].op = "add" /\ refusals[j].host = g
          BY DEF Refused
        <5>6. i <= j
          <6>1. j < i => refusals[j].at < refusals[i].at
            BY <1>6, <5>4, RefusalsAre DEF InTime
          <6>2. refusals[i].at \in Nat /\ refusals[j].at \in Nat
            BY <1>6, <5>4, RefusalsAre
          <6> QED
            BY <1>6, <5>4, <6>1, <6>2
        <5>7. j \in i..(n + 1) /\ refusals'[j] = refusals[j]
          BY <1>6, <5>4, <5>6
        <5> QED
          BY <5>1, <5>5, <5>7 DEF Crowd
      <4> QED
        BY <4>1, <4>2
    <3>5. Cardinality((DOMAIN p \ {s}) \cup {host}) = rejectedLimit
      <4>1. IsFiniteSet(DOMAIN p \ {s}) /\ Cardinality(DOMAIN p \ {s}) = rejectedLimit - 1
        BY <1>4, <3>1, FS_RemoveElement
      <4>2. Cardinality((DOMAIN p \ {s}) \cup {host}) = rejectedLimit - 1 + 1
        BY <3>1, <4>1, FS_AddElement
      <4> QED
        BY <1>7, <4>2
    <3>6. IsFiniteSet(crowd)
      <4>1. i \in Int /\ n + 1 \in Int /\ n + 1 <= n + 1
        BY <1>6, <2>1
      <4> QED
        BY <4>1, CrowdGrows
    <3>7. Cardinality(crowd) >= rejectedLimit
      <4> HIDE DEF crowd
      <4>1. Cardinality((DOMAIN p \ {s}) \cup {host}) <= Cardinality(crowd)
        BY <3>4, <3>6, FS_Subset
      <4>2. Cardinality(crowd) \in Nat
        BY <3>6, FS_CardinalityType
      <4> QED
        BY <1>7, <3>5, <4>1, <4>2
    <3>8. Lost(refusals', h, i, n + 1)
      BY <3>7 DEF Lost
    <3> QED
      BY <2>1, <3>3, <3>8, Zenon
  <2> QED
    BY <2>2, <2>3
<1>17. \A h \in DOMAIN rejected' : Clock(refusals') - rejected'[h].last <= rejectedWindow
  <2>1. Clock(refusals') = time
    BY <1>2, <1>6 DEF Clock
  <2>2. rejected'[host].last = time
    BY <1>11
  <2>3. \A h \in DOMAIN p : time - rejected[h].last <= rejectedWindow
    <3>1. \A h \in DOMAIN p : rejected[h].last \in Nat
      BY <1>8, StreakEnds
    <3> QED
      BY <1>4, <1>7, <3>1
  <2>4. time - time <= rejectedWindow
    BY <1>7
  <2> QED
    BY <1>9, <2>1, <2>2, <2>3, <2>4
<1> QED
  BY <1>6, <1>10, <1>14, <1>15, <1>16, <1>17 DEF RejectedInv, RejectedTrue

-----------------------------------------------------------------------------
(* The bodies. *)

\* A call of Put, Get or Clear.
Use == [op : {"put", "get"}, blob : Blob, hit : BOOLEAN] \cup [op : {"clear"}, hit : {FALSE}]

BlobsType == uses \in Seq(Use) /\ blobs \in Seq(Blob)

\* The property is inductive once the calls and the list are sequences.
BlobsInv == BlobsType /\ BlobsTrue

\* A sum is that of a part and that of the rest.
LEMMA SumSplits ==
  ASSUME NEW S, IsFiniteSet(S), NEW f, \A x \in S : f[x] \in Nat, NEW R \in SUBSET S
  PROVE  SumFunctionOnSet(f, S) = SumFunctionOnSet(f, R) + SumFunctionOnSet(f, S \ R)
<1> DEFINE F(s) == SumFunctionOnSet(f, s)
           T == {s \in SUBSET S : R \subseteq s /\ F(s) # F(R) + F(s \ R)}
<1> SUFFICES ASSUME T # {} PROVE FALSE
  OBVIOUS
<1>1. PICK s \in T : \A u \in T : u \subseteq s => u = s
  <2>1. T \in SUBSET (SUBSET S)
    OBVIOUS
  <2> HIDE DEF T
  <2> QED
    BY <2>1, MinimalSet
<1>2. s \in SUBSET S /\ R \subseteq s /\ F(s) # F(R) + F(s \ R)
  OBVIOUS
<1>3. \A u \in SUBSET S : IsFiniteSet(u) /\ F(u) \in Nat /\ \A x \in u : f[x] \in Nat
  BY FS_Subset, SumSteps
<1>4. F({}) = 0
  BY SumSteps
<1>5. s # R
  <2> SUFFICES ASSUME s = R PROVE FALSE
    OBVIOUS
  <2>1. s \ R = {}
    OBVIOUS
  <2> HIDE DEF F
  <2>2. F(s \ R) = 0
    BY <1>4, <2>1
  <2>3. F(R) \in Nat
    BY <1>3
  <2>4. F(R) # F(R) + F(s \ R)
    BY <1>2
  <2> QED
    BY <2>2, <2>3, <2>4
<1>6. PICK x \in s : x \notin R
  BY <1>2, <1>5
<1>7. s \ {x} \notin T
  BY <1>1, <1>6
<1>8. F(s \ {x}) = F(R) + F((s \ {x}) \ R)
  BY <1>2, <1>6, <1>7
<1>9. F(s) = f[x] + F(s \ {x})
  BY <1>2, <1>3, <1>6, SumTakes
<1>10. F(s \ R) = f[x] + F((s \ R) \ {x})
  <2>1. s \ R \in SUBSET S /\ x \in s \ R
    BY <1>2, <1>6
  <2> QED
    BY <1>3, <2>1, SumTakes
<1>11. (s \ R) \ {x} = (s \ {x}) \ R
  OBVIOUS
<1>12. f[x] \in Nat /\ F(R) \in Nat /\ F((s \ {x}) \ R) \in Nat
  <2>1. R \in SUBSET S /\ (s \ {x}) \ R \in SUBSET S /\ x \in S
    BY <1>2, <1>6
  <2> QED
    BY <1>3, <2>1
<1> HIDE DEF F
<1>13. F((s \ R) \ {x}) = F((s \ {x}) \ R)
  BY <1>11
<1>14. F(s) = f[x] + (F(R) + F((s \ {x}) \ R)) /\ F(s \ R) = f[x] + F((s \ {x}) \ R)
  BY <1>8, <1>9, <1>10, <1>13
<1>15. F(s) = F(R) + F(s \ R)
  BY <1>12, <1>14
<1> QED
  BY <1>2, <1>15

\* The sizes of bodies are summed: a part has no more than the whole.
LEMMA TotalIs ==
  ASSUME NEW S \in SUBSET Blob, NEW R \in SUBSET S
  PROVE  /\ Total(S) \in Nat /\ Total(R) \in Nat /\ Total(S \ R) \in Nat
         /\ Total(R) <= Total(S) /\ Total(S) = Total(R) + Total(S \ R)
<1>1. \A s \in SUBSET Blob : IsFiniteSet(s) /\ \A x \in s : bodySize[x] \in Nat
  BY TablesAssumption, FS_Subset DEF TablesAssumption
<1>2. \A s \in SUBSET Blob : Total(s) \in Nat
  BY <1>1, SumSteps DEF Total
<1>3. S \in SUBSET Blob /\ R \in SUBSET Blob /\ S \ R \in SUBSET Blob
  OBVIOUS
<1>4. Total(S) = Total(R) + Total(S \ R)
  BY <1>1, SumSplits DEF Total
<1>5. Total(S) \in Nat /\ Total(R) \in Nat /\ Total(S \ R) \in Nat
  BY <1>2, <1>3
<1> QED
  BY <1>4, <1>5

\* What is there is in the order of its uses, each once.
LEMMA BlobsAre ==
  ASSUME BlobsInv
  PROVE  /\ Len(uses) \in Nat /\ DOMAIN uses = 1..Len(uses)
         /\ Len(blobs) \in Nat /\ DOMAIN blobs = 1..Len(blobs)
         /\ \A n \in 1..Len(blobs) : blobs[n] \in Blob /\ Used(uses, blobs[n]) # {}
         /\ \A m, n \in 1..Len(blobs) : m # n => blobs[m] # blobs[n]
         /\ ToSet(blobs) \in SUBSET Blob
         /\ \A b : Contains(blobs, b) <=> b \in ToSet(blobs)
         /\ \A b : Used(uses, b) \in SUBSET (1..Len(uses)) /\ (Used(uses, b) # {} => LastUse(uses, b) \in 1..Len(uses))
         /\ budget \in Nat
<1>1. Len(uses) \in Nat /\ DOMAIN uses = 1..Len(uses)
  BY LenProperties DEF BlobsInv, BlobsType
<1>2. Len(blobs) \in Nat /\ DOMAIN blobs = 1..Len(blobs)
  BY LenProperties DEF BlobsInv, BlobsType
<1>3. \A n \in 1..Len(blobs) : blobs[n] \in Blob
  BY ElementOfSeq DEF BlobsInv, BlobsType
<1>4. \A n \in 1..Len(blobs) : Used(uses, blobs[n]) # {}
  BY <1>2 DEF BlobsInv, BlobsTrue
<1>5. \A b : Used(uses, b) \in SUBSET (1..Len(uses))
  BY <1>1 DEF Used
<1>6. \A b : Used(uses, b) # {} => LastUse(uses, b) \in 1..Len(uses)
  <2> SUFFICES ASSUME NEW b, Used(uses, b) # {} PROVE LastUse(uses, b) \in 1..Len(uses)
    OBVIOUS
  <2>1. LastUse(uses, b) \in Used(uses, b)
    BY <1>1, <1>5, EndsAre DEF LastUse
  <2> QED
    BY <1>5, <2>1
<1>7. ASSUME NEW m \in 1..Len(blobs), NEW n \in 1..Len(blobs), m < n PROVE blobs[m] # blobs[n]
  <2>1. LastUse(uses, blobs[m]) > LastUse(uses, blobs[n])
    BY <1>2, <1>7 DEF BlobsInv, BlobsTrue
  <2>2. LastUse(uses, blobs[n]) \in Nat
    <3>1. LastUse(uses, blobs[n]) \in 1..Len(uses)
      BY <1>4, <1>6
    <3> QED
      BY <1>1, <3>1
  <2>3. ~(LastUse(uses, blobs[n]) > LastUse(uses, blobs[n]))
    BY <2>2
  <2> QED
    BY <2>1, <2>3, Zenon
<1>8. \A m, n \in 1..Len(blobs) : m # n => blobs[m] # blobs[n]
  <2> SUFFICES ASSUME NEW m \in 1..Len(blobs), NEW n \in 1..Len(blobs), m # n PROVE blobs[m] # blobs[n]
    OBVIOUS
  <2>1. m < n \/ n < m
    BY <1>2
  <2> QED
    BY <1>7, <2>1
<1>9. ToSet(blobs) \in SUBSET Blob /\ \A b : Contains(blobs, b) <=> b \in ToSet(blobs)
  BY <1>2, <1>3 DEF ToSet, Contains
<1>10. budget \in Nat
  BY TablesAssumption DEF TablesAssumption
<1> QED
  BY <1>1, <1>2, <1>3, <1>4, <1>5, <1>6, <1>8, <1>9, <1>10

\* A body is used.
LEMMA UsedNow ==
  ASSUME BlobsInv, NEW b \in Blob, NEW op \in {"put", "get"},
         uses' = Append(uses, [op |-> op, blob |-> b, hit |-> TRUE])
  PROVE  /\ uses' \in Seq(Use)
         /\ Used(uses', b) = Used(uses, b) \cup {Len(uses) + 1} /\ LastUse(uses', b) = Len(uses) + 1
         /\ \A c : c # b => Used(uses', c) = Used(uses, c) /\ LastUse(uses', c) = LastUse(uses, c)
         /\ \A c \in Blob \ {b} : Used(uses, c) # {} =>
              /\ LastUse(uses', b) > LastUse(uses', c)
              /\ Since(uses, c) \subseteq Since(uses', c) /\ b \in Since(uses', c)
<1> DEFINE n == Len(uses)
           call == [op |-> op, blob |-> b, hit |-> TRUE]
<1>1. uses \in Seq(Use) /\ call \in Use
  BY DEF BlobsInv, BlobsType, Use
<1>2. /\ uses' \in Seq(Use) /\ Len(uses') = n + 1 /\ DOMAIN uses' = 1..(n + 1) /\ n \in Nat
      /\ uses'[n + 1] = call /\ \A i \in 1..n : uses'[i] = uses[i]
      /\ DOMAIN uses = 1..n
  <2> HIDE DEF call
  <2>1. uses' = Append(uses, call)
    BY DEF call
  <2> QED
    BY <1>1, <2>1, AppendProperties, LenProperties
<1>3. call.op # "clear" /\ call.hit /\ call.blob = b
  OBVIOUS
<1> HIDE DEF call
<1>4. ASSUME NEW c, NEW i \in 1..n
      PROVE  i \in Used(uses', c) <=> i \in Used(uses, c)
  <2>1. \A j \in i..(n + 1) : j = n + 1 \/ (j \in i..n /\ uses'[j] = uses[j])
    BY <1>2
  <2>2. \A j \in i..n : j \in i..(n + 1) /\ uses'[j] = uses[j]
    BY <1>2
  <2>3. (\A j \in i..(n + 1) : uses'[j].op # "clear") <=> (\A j \in i..n : uses[j].op # "clear")
    BY <1>2, <1>3, <2>1, <2>2
  <2> QED
    BY <1>2, <2>3 DEF Used
<1>5. ASSUME NEW c
      PROVE  n + 1 \in Used(uses', c) <=> c = b
  <2>1. \A j \in (n + 1)..(n + 1) : uses'[j].op # "clear"
    BY <1>2, <1>3
  <2> QED
    BY <1>2, <1>3, <2>1 DEF Used
<1>6. \A c : Used(uses', c) \in SUBSET (1..(n + 1)) /\ Used(uses, c) \in SUBSET (1..n)
  BY <1>2 DEF Used
<1>7. Used(uses', b) = Used(uses, b) \cup {n + 1}
  <2>1. \A i \in 1..(n + 1) : i = n + 1 \/ i \in 1..n
    BY <1>2
  <2>2. \A i : i \in Used(uses', b) <=> i \in Used(uses, b) \cup {n + 1}
    BY <1>4, <1>5, <1>6, <2>1
  <2> QED
    BY <2>2
<1>8. \A c : c # b => Used(uses', c) = Used(uses, c)
  <2> SUFFICES ASSUME NEW c, c # b PROVE Used(uses', c) = Used(uses, c)
    OBVIOUS
  <2>1. \A i \in 1..(n + 1) : i = n + 1 \/ i \in 1..n
    BY <1>2
  <2>2. Used(uses', c) \in SUBSET (1..n)
    BY <1>5, <1>6, <2>1
  <2>3. \A i : i \in Used(uses', c) <=> i \in Used(uses, c)
    BY <1>4, <1>6, <2>2
  <2> QED
    BY <2>3
<1>9. LastUse(uses', b) = n + 1
  BY <1>2, <1>6, <1>7, LaterEnds DEF LastUse
<1>10. \A c : c # b => LastUse(uses', c) = LastUse(uses, c)
  BY <1>8 DEF LastUse
<1>11. ASSUME NEW c \in Blob \ {b}, Used(uses, c) # {}
       PROVE  /\ LastUse(uses', b) > LastUse(uses', c)
              /\ Since(uses, c) \subseteq Since(uses', c) /\ b \in Since(uses', c)
  <2>1. LastUse(uses', c) \in 1..n
    <3>1. LastUse(uses, c) \in 1..n
      BY <1>11, BlobsAre
    <3> QED
      BY <1>10, <3>1
  <2>2. LastUse(uses', b) > LastUse(uses', c)
    BY <1>2, <1>9, <2>1
  <2>3. b \in Since(uses', c)
    BY <1>7, <2>2 DEF Since
  <2>4. ASSUME NEW d \in Since(uses, c) PROVE d \in Since(uses', c)
    <3>1. CASE d = b
      BY <2>3, <3>1
    <3>2. CASE d # b
      <4>1. d \in Blob /\ Used(uses, d) # {} /\ LastUse(uses, d) > LastUse(uses, c)
        BY DEF Since
      <4>2. Used(uses', d) # {} /\ LastUse(uses', d) > LastUse(uses', c)
        BY <1>8, <1>10, <3>2, <4>1
      <4> QED
        BY <4>1, <4>2 DEF Since
    <3> QED
      BY <3>1, <3>2
  <2> QED
    BY <2>2, <2>3, <2>4
<1> QED
  BY <1>2, <1>7, <1>8, <1>9, <1>10, <1>11

\* Those that are gone and are not used stay gone, for more was used since.
LEMMA GoneStays ==
  ASSUME BlobsInv, NEW b \in Blob, NEW op \in {"put", "get"},
         uses' = Append(uses, [op |-> op, blob |-> b, hit |-> TRUE]),
         NEW c \in Blob \ {b}, Used(uses, c) # {}, Since(uses, c) # {}, Total(Since(uses, c) \cup {c}) > budget
  PROVE  Since(uses', c) # {} /\ Total(Since(uses', c) \cup {c}) > budget
<1>1. Since(uses, c) \subseteq Since(uses', c) /\ b \in Since(uses', c)
  BY UsedNow
<1>2. Since(uses', c) \cup {c} \in SUBSET Blob /\ Since(uses, c) \cup {c} \in SUBSET (Since(uses', c) \cup {c})
  BY <1>1 DEF Since
<1>3. /\ Total(Since(uses, c) \cup {c}) <= Total(Since(uses', c) \cup {c})
      /\ Total(Since(uses, c) \cup {c}) \in Nat /\ Total(Since(uses', c) \cup {c}) \in Nat
  BY <1>2, TotalIs
<1> DEFINE before == Total(Since(uses, c) \cup {c})
           after == Total(Since(uses', c) \cup {c})
<1>4. before <= after /\ before \in Nat /\ after \in Nat /\ before > budget /\ budget \in Nat
  BY <1>3, TablesAssumption DEF TablesAssumption
<1> HIDE DEF before, after
<1>5. after > budget
  BY <1>4
<1> QED
  BY <1>1, <1>5 DEF after

\* A sequence with one of its members moved to its front.
Shifted(S, l, k, r) ==
  /\ r \in Seq(S) /\ Len(r) = Len(l) /\ DOMAIN r = 1..Len(l)
  /\ r[1] = l[k]
  /\ \A m \in 2..Len(l) : r[m] = IF m <= k THEN l[m - 1] ELSE l[m]
  /\ ToSet(r) = ToSet(l)

\* What MoveToFront leaves.
LEMMA MovedIs ==
  ASSUME NEW S, NEW l \in Seq(S), NEW k \in 1..Len(l), NEW r, r = <<l[k]>> \o RemoveAt(l, k)
  PROVE  Shifted(S, l, k, r)
<1> DEFINE N == Len(l)
           front == SubSeq(l, 1, k - 1)
           back == SubSeq(l, k + 1, N)
<1>1. N \in Nat /\ k \in Nat /\ 1 <= k /\ k <= N /\ DOMAIN l = 1..N /\ \A m \in 1..N : l[m] \in S
  BY LenProperties, ElementOfSeq
<1>2. r = <<l[k]>> \o (front \o back)
  BY DEF RemoveAt
<1>3. front \in Seq(S) /\ Len(front) = k - 1 /\ \A m \in 1..(k - 1) : front[m] = l[m]
  <2>1. \A m \in 1..(k - 1) : l[m] \in S
    BY <1>1
  <2>2. 1 \in Int /\ k - 1 \in Int
    BY <1>1
  <2>3. /\ front \in Seq(S) /\ Len(front) = (IF 1 <= k - 1 THEN k - 1 - 1 + 1 ELSE 0)
        /\ \A m \in 1..(k - 1 - 1 + 1) : front[m] = l[1 + m - 1]
    BY <2>1, <2>2, SubSeqProperties
  <2> HIDE DEF front, N
  <2> QED
    BY <1>1, <2>3
<1>4. back \in Seq(S) /\ Len(back) = N - k /\ \A m \in 1..(N - k) : back[m] = l[k + m]
  <2>1. \A m \in (k + 1)..N : l[m] \in S
    BY <1>1
  <2>2. k + 1 \in Int /\ N \in Int
    BY <1>1
  <2>3. /\ back \in Seq(S) /\ Len(back) = (IF k + 1 <= N THEN N - (k + 1) + 1 ELSE 0)
        /\ \A m \in 1..(N - (k + 1) + 1) : back[m] = l[k + 1 + m - 1]
    BY <2>1, <2>2, SubSeqProperties
  <2> HIDE DEF back, N
  <2>4. Len(back) = N - k
    BY <1>1, <2>3
  <2>5. \A m \in 1..(N - k) : m \in 1..(N - (k + 1) + 1) /\ k + 1 + m - 1 = k + m
    BY <1>1
  <2>6. \A m \in 1..(N - k) : back[m] = l[k + m]
    BY <2>3, <2>5
  <2> QED
    BY <2>3, <2>4, <2>6
<1> HIDE DEF front, back, N
<1>5. /\ front \o back \in Seq(S) /\ Len(front \o back) = N - 1
      /\ \A m \in 1..(N - 1) : (front \o back)[m] = IF m <= k - 1 THEN l[m] ELSE l[m + 1]
  <2>1. /\ front \o back \in Seq(S) /\ Len(front \o back) = Len(front) + Len(back)
        /\ \A m \in 1..(Len(front) + Len(back)) :
             (front \o back)[m] = IF m <= Len(front) THEN front[m] ELSE back[m - Len(front)]
    BY <1>3, <1>4, ConcatProperties
  <2>2. Len(front) + Len(back) = N - 1
    BY <1>1, <1>3, <1>4
  <2>3. ASSUME NEW m \in 1..(N - 1)
        PROVE  (front \o back)[m] = IF m <= k - 1 THEN l[m] ELSE l[m + 1]
    <3>1. CASE m <= k - 1
      <4>1. (front \o back)[m] = front[m] /\ m \in 1..(k - 1)
        BY <1>1, <1>3, <2>1, <2>2, <3>1
      <4> QED
        BY <1>3, <3>1, <4>1
    <3>2. CASE ~(m <= k - 1)
      <4>1. m - (k - 1) \in 1..(N - k) /\ k + (m - (k - 1)) = m + 1
        BY <1>1, <3>2
      <4>2. (front \o back)[m] = back[m - (k - 1)]
        BY <1>3, <2>1, <2>2, <3>2
      <4> QED
        BY <1>4, <3>2, <4>1, <4>2
    <3> QED
      BY <3>1, <3>2
  <2> QED
    BY <2>1, <2>2, <2>3
<1>6. <<l[k]>> \in Seq(S) /\ Len(<<l[k]>>) = 1 /\ <<l[k]>>[1] = l[k]
  BY <1>1
<1>7. /\ r \in Seq(S) /\ Len(r) = 1 + (N - 1)
      /\ \A m \in 1..(1 + (N - 1)) : r[m] = IF m <= 1 THEN <<l[k]>>[m] ELSE (front \o back)[m - 1]
  <2> DEFINE one == <<l[k]>>
             rest == front \o back
  <2>1. r = one \o rest /\ one \in Seq(S) /\ rest \in Seq(S) /\ Len(one) = 1 /\ Len(rest) = N - 1
    BY <1>2, <1>5, <1>6
  <2> HIDE DEF one, rest
  <2>2. /\ one \o rest \in Seq(S) /\ Len(one \o rest) = Len(one) + Len(rest)
        /\ \A m \in 1..(Len(one) + Len(rest)) :
             (one \o rest)[m] = IF m <= Len(one) THEN one[m] ELSE rest[m - Len(one)]
    BY <2>1, ConcatProperties
  <2>3. /\ r \in Seq(S) /\ Len(r) = 1 + (N - 1)
        /\ \A m \in 1..(1 + (N - 1)) : r[m] = IF m <= 1 THEN one[m] ELSE rest[m - 1]
    BY <2>1, <2>2
  <2> QED
    BY <2>3 DEF one, rest
<1>8. Len(r) = N /\ DOMAIN r = 1..N
  BY <1>1, <1>7, LenProperties
<1>9. r[1] = l[k]
  BY <1>1, <1>6, <1>7
<1>10. ASSUME NEW m \in 2..N
       PROVE  r[m] = IF m <= k THEN l[m - 1] ELSE l[m]
  <2>1. m \in 1..(1 + (N - 1)) /\ ~(m <= 1) /\ m - 1 \in 1..(N - 1) /\ (m - 1) + 1 = m /\ (m - 1 <= k - 1 <=> m <= k)
    BY <1>1
  <2>2. r[m] = (front \o back)[m - 1]
    BY <1>7, <2>1
  <2> QED
    BY <1>5, <2>1, <2>2
<1>11. ASSUME NEW m \in 1..N PROVE \E j \in 1..N : r[m] = l[j]
  <2>1. CASE m = 1
    BY <1>1, <1>9, <2>1
  <2>2. CASE m # 1
    <3>1. m \in 2..N /\ m - 1 \in 1..N
      BY <1>1, <2>2
    <3> QED
      BY <1>10, <3>1
  <2> QED
    BY <2>1, <2>2
<1>12. ASSUME NEW m \in 1..N PROVE \E j \in 1..N : r[j] = l[m]
  <2>1. CASE m < k
    <3>1. m + 1 \in 2..N /\ m + 1 \in 1..N /\ m + 1 <= k /\ (m + 1) - 1 = m
      BY <1>1, <2>1
    <3>2. r[m + 1] = l[m]
      BY <1>10, <3>1
    <3> QED
      BY <3>1, <3>2
  <2>2. CASE m = k
    BY <1>1, <1>9, <2>2
  <2>3. CASE m > k
    <3>1. m \in 2..N /\ ~(m <= k)
      BY <1>1, <2>3
    <3>2. r[m] = l[m]
      BY <1>10, <3>1
    <3> QED
      BY <3>2
  <2>4. m < k \/ m = k \/ m > k
    BY <1>1
  <2> QED
    BY <2>1, <2>2, <2>3, <2>4, Zenon
<1>13. ToSet(r) = ToSet(l)
  <2>1. ToSet(r) = {r[m] : m \in 1..N} /\ ToSet(l) = {l[m] : m \in 1..N}
    BY <1>1, <1>8 DEF ToSet
  <2>2. \A x \in {r[m] : m \in 1..N} : x \in {l[m] : m \in 1..N}
    BY <1>11, ZenonT(60)
  <2>3. \A x \in {l[m] : m \in 1..N} : x \in {r[m] : m \in 1..N}
    BY <1>12
  <2> QED
    BY <2>1, <2>2, <2>3, Zenon
<1> QED
  BY <1>7, <1>8, <1>9, <1>10, <1>13 DEF N, Shifted

\* A body that is there is put, or got: it moves to the front.
LEMMA HitKeeps ==
  ASSUME BlobsInv, NEW b \in Blob, NEW op \in {"put", "get"}, Contains(blobs, b),
         uses' = Append(uses, [op |-> op, blob |-> b, hit |-> TRUE]),
         blobs' = MoveToFront(blobs, b), used' = used
  PROVE  BlobsInv'
<1> DEFINE N == Len(blobs)
           k == CHOOSE m \in DOMAIN blobs : blobs[m] = b
<1>1. /\ Len(uses) \in Nat /\ N \in Nat /\ DOMAIN blobs = 1..N
      /\ \A m \in 1..N : blobs[m] \in Blob /\ Used(uses, blobs[m]) # {}
      /\ \A l, m \in 1..N : l # m => blobs[l] # blobs[m]
      /\ \A c : Contains(blobs, c) <=> c \in ToSet(blobs)
  BY BlobsAre
<1>2. k \in 1..N /\ blobs[k] = b
  BY <1>1 DEF Contains
<1>3. blobs' = <<b>> \o RemoveAt(blobs, k)
  BY DEF MoveToFront
<1> HIDE DEF k
<1>4. /\ blobs' \in Seq(Blob) /\ Len(blobs') = N /\ DOMAIN blobs' = 1..N
      /\ blobs'[1] = b
      /\ \A m \in 2..N : blobs'[m] = IF m <= k THEN blobs[m - 1] ELSE blobs[m]
      /\ ToSet(blobs') = ToSet(blobs)
  <2>1. blobs \in Seq(Blob) /\ blobs' = <<blobs[k]>> \o RemoveAt(blobs, k)
    BY <1>2, <1>3 DEF BlobsInv, BlobsType
  <2>2. Shifted(Blob, blobs, k, blobs')
    BY <1>2, <2>1, MovedIs, Zenon
  <2> QED
    BY <1>2, <2>2 DEF Shifted
<1>5. \A c : Contains(blobs', c) <=> Contains(blobs, c)
  <2>1. \A c : Contains(blobs', c) <=> c \in ToSet(blobs')
    BY <1>4 DEF ToSet, Contains
  <2> QED
    BY <1>1, <1>4, <2>1, Zenon
<1>6. /\ uses' \in Seq(Use)
      /\ Used(uses', b) = Used(uses, b) \cup {Len(uses) + 1}
      /\ \A c : c # b => Used(uses', c) = Used(uses, c) /\ LastUse(uses', c) = LastUse(uses, c)
      /\ \A c \in Blob \ {b} : Used(uses, c) # {} => LastUse(uses', b) > LastUse(uses', c)
  BY UsedNow
<1>7. BlobsType'
  BY <1>4, <1>6 DEF BlobsType
<1>8. used' = Total(ToSet(blobs')) /\ (Len(blobs') > 1 => used' <= budget)
  BY <1>4 DEF BlobsInv, BlobsTrue
<1>9. \A m \in 1..N : Used(uses', blobs'[m]) # {}
  <2>1. \A c \in ToSet(blobs) : Used(uses, c) # {}
    BY <1>1 DEF ToSet
  <2>2. \A c \in ToSet(blobs) : Used(uses', c) # {}
    BY <1>6, <2>1
  <2>3. \A m \in 1..N : blobs'[m] \in ToSet(blobs)
    BY <1>4 DEF ToSet
  <2> QED
    BY <2>2, <2>3
<1>10. ASSUME NEW l \in 1..N, NEW m \in 1..N, l < m
       PROVE  LastUse(uses', blobs'[l]) > LastUse(uses', blobs'[m])
  <2> DEFINE from(x) == IF x <= k THEN x - 1 ELSE x
  <2>1. m \in 2..N /\ from(m) \in 1..N /\ from(m) # k /\ blobs'[m] = blobs[from(m)]
    BY <1>1, <1>2, <1>4, <1>10
  <2>2. blobs'[m] \in Blob \ {b} /\ Used(uses, blobs'[m]) # {}
    BY <1>1, <1>2, <2>1
  <2>3. CASE l = 1
    <3>1. LastUse(uses', b) > LastUse(uses', blobs'[m])
      BY <1>6, <2>2
    <3> QED
      BY <1>4, <2>3, <3>1, Zenon
  <2>4. CASE l # 1
    <3>1. l \in 2..N /\ from(l) \in 1..N /\ from(l) # k /\ blobs'[l] = blobs[from(l)] /\ from(l) < from(m)
      BY <1>1, <1>2, <1>4, <1>10, <2>1, <2>4
    <3> HIDE DEF from
    <3>2. blobs'[l] # b /\ blobs'[m] # b
      BY <1>1, <1>2, <2>2, <3>1
    <3>3. LastUse(uses, blobs[from(l)]) > LastUse(uses, blobs[from(m)])
      BY <1>1, <2>1, <3>1 DEF BlobsInv, BlobsTrue
    <3>4. /\ LastUse(uses', blobs'[l]) = LastUse(uses, blobs'[l])
          /\ LastUse(uses', blobs'[m]) = LastUse(uses, blobs'[m])
      BY <1>6, <3>2
    <3>5. /\ LastUse(uses', blobs'[l]) = LastUse(uses, blobs[from(l)])
          /\ LastUse(uses', blobs'[m]) = LastUse(uses, blobs[from(m)])
      BY <2>1, <3>1, <3>4, Zenon
    <3> QED
      BY <3>3, <3>5, Zenon
  <2> QED
    BY <2>3, <2>4
<1>11. ASSUME NEW c \in Blob, Used(uses', c) # {}, ~Contains(blobs', c)
       PROVE  Since(uses', c) # {} /\ Total(Since(uses', c) \cup {c}) > budget
  <2>1. ~Contains(blobs, c) /\ c # b
    BY <1>5, <1>11
  <2>2. Used(uses, c) # {}
    BY <1>6, <1>11, <2>1
  <2>3. Since(uses, c) # {} /\ Total(Since(uses, c) \cup {c}) > budget
    BY <2>1, <2>2 DEF BlobsInv, BlobsTrue
  <2> QED
    BY <2>1, <2>2, <2>3, GoneStays
<1> QED
  BY <1>4, <1>7, <1>8, <1>9, <1>10, <1>11 DEF BlobsInv, BlobsTrue

\* A body that is not there is asked for: nothing changes.
LEMMA MissKeeps ==
  ASSUME BlobsInv, NEW b \in Blob,
         uses' = Append(uses, [op |-> "get", blob |-> b, hit |-> FALSE]),
         blobs' = blobs, used' = used
  PROVE  BlobsInv'
<1> DEFINE n == Len(uses)
           call == [op |-> "get", blob |-> b, hit |-> FALSE]
<1>1. uses \in Seq(Use) /\ call \in Use
  BY DEF BlobsInv, BlobsType, Use
<1>2. /\ uses' \in Seq(Use) /\ Len(uses') = n + 1 /\ DOMAIN uses' = 1..(n + 1) /\ n \in Nat
      /\ uses'[n + 1] = call /\ \A i \in 1..n : uses'[i] = uses[i]
      /\ DOMAIN uses = 1..n
  <2> HIDE DEF call
  <2>1. uses' = Append(uses, call)
    BY DEF call
  <2> QED
    BY <1>1, <2>1, AppendProperties, LenProperties
<1>3. call.op # "clear" /\ ~call.hit
  OBVIOUS
<1> HIDE DEF call
<1>4. ASSUME NEW c
      PROVE  Used(uses', c) = Used(uses, c)
  <2>1. ASSUME NEW i \in 1..n
        PROVE  i \in Used(uses', c) <=> i \in Used(uses, c)
    <3>1. \A j \in i..(n + 1) : j = n + 1 \/ (j \in i..n /\ uses'[j] = uses[j])
      BY <1>2
    <3>2. \A j \in i..n : j \in i..(n + 1) /\ uses'[j] = uses[j]
      BY <1>2
    <3>3. (\A j \in i..(n + 1) : uses'[j].op # "clear") <=> (\A j \in i..n : uses[j].op # "clear")
      BY <1>2, <1>3, <3>1, <3>2
    <3> QED
      BY <1>2, <3>3 DEF Used
  <2>2. n + 1 \notin Used(uses', c)
    BY <1>2, <1>3 DEF Used
  <2>3. Used(uses', c) \in SUBSET (1..(n + 1)) /\ Used(uses, c) \in SUBSET (1..n)
    BY <1>2 DEF Used
  <2>4. \A i \in 1..(n + 1) : i = n + 1 \/ i \in 1..n
    BY <1>2
  <2>5. \A i : i \in Used(uses', c) <=> i \in Used(uses, c)
    BY <2>1, <2>2, <2>3, <2>4
  <2> QED
    BY <2>5
<1>5. \A c : LastUse(uses', c) = LastUse(uses, c)
  BY <1>4 DEF LastUse
<1>6. \A c : Since(uses', c) = Since(uses, c)
  BY <1>4, <1>5 DEF Since
<1>7. BlobsType'
  BY <1>2 DEF BlobsInv, BlobsType
<1>8. BlobsTrue'
  <2>1. used' = Total(ToSet(blobs')) /\ (Len(blobs') > 1 => used' <= budget)
    BY DEF BlobsInv, BlobsTrue
  <2>2. \A m \in DOMAIN blobs : Used(uses', blobs[m]) # {}
    BY <1>4 DEF BlobsInv, BlobsTrue
  <2>3. \A l, m \in DOMAIN blobs : l < m => LastUse(uses', blobs[l]) > LastUse(uses', blobs[m])
    BY <1>5 DEF BlobsInv, BlobsTrue
  <2>4. \A c \in Blob : Used(uses', c) # {} /\ ~Contains(blobs, c) =>
          Since(uses', c) # {} /\ Total(Since(uses', c) \cup {c}) > budget
    BY <1>4, <1>6 DEF BlobsInv, BlobsTrue
  <2> QED
    BY <2>1, <2>2, <2>3, <2>4 DEF BlobsTrue
<1> QED
  BY <1>7, <1>8 DEF BlobsInv

\* The bodies are cleared.
LEMMA ClearKeeps ==
  ASSUME BlobsInv, ClearBlobs
  PROVE  BlobsInv'
<1> DEFINE n == Len(uses)
           call == [op |-> "clear", hit |-> FALSE]
<1>1. uses \in Seq(Use) /\ call \in Use
  BY DEF BlobsInv, BlobsType, Use
<1>2. /\ uses' \in Seq(Use) /\ Len(uses') = n + 1 /\ DOMAIN uses' = 1..(n + 1) /\ n \in Nat
      /\ uses'[n + 1] = call
  <2> HIDE DEF call
  <2>1. uses' = Append(uses, call)
    BY DEF call, ClearBlobs
  <2> QED
    BY <1>1, <2>1, AppendProperties, LenProperties
<1>3. call.op = "clear"
  OBVIOUS
<1> HIDE DEF call
<1>4. \A c : Used(uses', c) = {}
  <2> SUFFICES ASSUME NEW c, NEW i \in Used(uses', c) PROVE FALSE
    OBVIOUS
  <2>1. i \in 1..(n + 1) /\ \A j \in i..(n + 1) : uses'[j].op # "clear"
    BY <1>2 DEF Used
  <2>2. n + 1 \in i..(n + 1)
    BY <1>2, <2>1
  <2> QED
    BY <1>2, <1>3, <2>1, <2>2
<1>5. blobs' = <<>> /\ used' = 0 /\ ToSet(<<>>) = {} /\ Total({}) = 0 /\ Len(<<>>) = 0 /\ DOMAIN <<>> = {}
  <2>1. Total({}) = 0
    <3>1. IsFiniteSet(Blob) /\ \A x \in Blob : bodySize[x] \in Nat
      BY TablesAssumption DEF TablesAssumption
    <3> QED
      BY <3>1, SumSteps DEF Total
  <2> QED
    BY <2>1 DEF ClearBlobs, ToSet
<1>6. BlobsType'
  BY <1>2, <1>5 DEF BlobsType
<1>7. BlobsTrue'
  BY <1>4, <1>5 DEF BlobsTrue
<1> QED
  BY <1>6, <1>7 DEF BlobsInv

\* A list with one more in front of it, and the first of it.
LEMMA InFrontIs ==
  ASSUME NEW S, NEW l \in Seq(S), NEW x \in S
  PROVE  /\ <<x>> \o l \in Seq(S) /\ Len(<<x>> \o l) = Len(l) + 1 /\ DOMAIN (<<x>> \o l) = 1..(Len(l) + 1)
         /\ (<<x>> \o l)[1] = x /\ \A m \in 2..(Len(l) + 1) : (<<x>> \o l)[m] = l[m - 1]
<1> DEFINE one == <<x>>
<1>1. one \in Seq(S) /\ Len(one) = 1 /\ one[1] = x /\ Len(l) \in Nat
  BY LenProperties
<1> HIDE DEF one
<1>2. /\ one \o l \in Seq(S) /\ Len(one \o l) = Len(one) + Len(l)
      /\ \A m \in 1..(Len(one) + Len(l)) : (one \o l)[m] = IF m <= Len(one) THEN one[m] ELSE l[m - Len(one)]
  BY <1>1, ConcatProperties
<1>3. Len(one \o l) = Len(l) + 1 /\ DOMAIN (one \o l) = 1..(Len(l) + 1)
  BY <1>1, <1>2, LenProperties
<1>4. (one \o l)[1] = x /\ \A m \in 2..(Len(l) + 1) : (one \o l)[m] = l[m - 1]
  BY <1>1, <1>2
<1> QED
  BY <1>2, <1>3, <1>4 DEF one

\* The first n members of a sequence.
LEMMA FirstAre ==
  ASSUME NEW S, NEW l \in Seq(S), NEW n \in 1..Len(l)
  PROVE  /\ SubSeq(l, 1, n) \in Seq(S) /\ Len(SubSeq(l, 1, n)) = n /\ DOMAIN SubSeq(l, 1, n) = 1..n
         /\ \A m \in 1..n : SubSeq(l, 1, n)[m] = l[m]
<1>1. Len(l) \in Nat /\ \A m \in 1..Len(l) : l[m] \in S
  BY LenProperties, ElementOfSeq
<1>2. \A m \in 1..n : l[m] \in S
  BY <1>1
<1>3. n \in Nat /\ 1 <= n /\ 1 \in Int /\ n \in Int
  BY <1>1
<1>4. /\ SubSeq(l, 1, n) \in Seq(S) /\ Len(SubSeq(l, 1, n)) = (IF 1 <= n THEN n - 1 + 1 ELSE 0)
      /\ \A m \in 1..(n - 1 + 1) : SubSeq(l, 1, n)[m] = l[1 + m - 1]
  BY <1>2, <1>3, SubSeqProperties
<1>5. Len(SubSeq(l, 1, n)) = n
  BY <1>3, <1>4
<1>6. \A m \in 1..n : m \in 1..(n - 1 + 1) /\ 1 + m - 1 = m
  BY <1>3
<1>7. \A m \in 1..n : SubSeq(l, 1, n)[m] = l[m]
  BY <1>4, <1>6
<1> QED
  BY <1>4, <1>5, <1>7, LenProperties

\* The first n of a list.
Foremost(l, n) == {l[m] : m \in 1..n}

\* The bodies that are there and a new one in front of them: each is there once,
\* its last use after those of the ones behind it.
Queued(l, b) ==
  /\ l \in Seq(Blob) /\ Len(l) = Len(blobs) + 1 /\ Len(blobs) \in Nat
  /\ l[1] = b /\ \A m \in 2..Len(l) : l[m] = blobs[m - 1] /\ l[m] # b
  /\ \A m \in 1..Len(l) : l[m] \in Blob /\ Used(uses', l[m]) # {}
  /\ \A i, j \in 1..Len(l) : i # j => l[i] # l[j]
  /\ \A i, j \in 1..Len(l) : i < j => LastUse(uses', l[i]) > LastUse(uses', l[j])

\* What Put has before it drops from the end.
LEMMA QueuedIs ==
  ASSUME BlobsInv, NEW b \in Blob, ~Contains(blobs, b),
         uses' = Append(uses, [op |-> "put", blob |-> b, hit |-> TRUE]),
         NEW l, l = <<b>> \o blobs
  PROVE  Queued(l, b)
<1> DEFINE N == Len(blobs)
<1>1. /\ N \in Nat /\ DOMAIN blobs = 1..N
      /\ \A m \in 1..N : blobs[m] \in Blob /\ Used(uses, blobs[m]) # {}
      /\ \A i, j \in 1..N : i # j => blobs[i] # blobs[j]
      /\ \A c : Contains(blobs, c) <=> c \in ToSet(blobs)
      /\ \A c : Used(uses, c) # {} => LastUse(uses, c) \in 1..Len(uses)
      /\ Len(uses) \in Nat
  BY BlobsAre
<1>2. l \in Seq(Blob) /\ Len(l) = N + 1 /\ l[1] = b /\ \A m \in 2..(N + 1) : l[m] = blobs[m - 1]
  <2>1. blobs \in Seq(Blob)
    BY DEF BlobsInv, BlobsType
  <2>2. /\ <<b>> \o blobs \in Seq(Blob) /\ Len(<<b>> \o blobs) = N + 1
        /\ (<<b>> \o blobs)[1] = b /\ \A m \in 2..(N + 1) : (<<b>> \o blobs)[m] = blobs[m - 1]
    BY <2>1, InFrontIs
  <2> QED
    BY <2>2, Zenon
<1>3. \A m \in 1..N : blobs[m] # b
  BY <1>1 DEF ToSet
<1>4. /\ Used(uses', b) = Used(uses, b) \cup {Len(uses) + 1}
      /\ \A c : c # b => Used(uses', c) = Used(uses, c) /\ LastUse(uses', c) = LastUse(uses, c)
      /\ \A c \in Blob \ {b} : Used(uses, c) # {} => LastUse(uses', b) > LastUse(uses', c)
  BY UsedNow
<1>5. ASSUME NEW m \in 2..(N + 1)
      PROVE  m - 1 \in 1..N /\ l[m] = blobs[m - 1] /\ l[m] # b /\ l[m] \in Blob
             /\ Used(uses, l[m]) # {} /\ Used(uses', l[m]) # {}
             /\ LastUse(uses', l[m]) = LastUse(uses, l[m])
             /\ LastUse(uses', b) > LastUse(uses', l[m])
  <2>1. m - 1 \in 1..N
    BY <1>1
  <2>2. l[m] = blobs[m - 1] /\ l[m] # b /\ l[m] \in Blob /\ Used(uses, l[m]) # {}
    BY <1>1, <1>2, <1>3, <2>1
  <2> QED
    BY <1>4, <2>1, <2>2
<1>6. ASSUME NEW i \in 1..(N + 1), NEW j \in 1..(N + 1), i < j
      PROVE  l[i] # l[j] /\ LastUse(uses', l[i]) > LastUse(uses', l[j])
  <2>1. j \in 2..(N + 1)
    BY <1>1, <1>6
  <2>2. CASE i = 1
    <3>1. l[i] = b
      BY <1>2, <2>2
    <3> QED
      BY <1>5, <2>1, <3>1
  <2>3. CASE i # 1
    <3>1. i \in 2..(N + 1) /\ i - 1 < j - 1
      BY <1>1, <1>6, <2>3
    <3>2. i - 1 \in 1..N /\ j - 1 \in 1..N
      BY <1>5, <2>1, <3>1
    <3>3. LastUse(uses, blobs[i - 1]) > LastUse(uses, blobs[j - 1])
      BY <1>1, <3>1, <3>2 DEF BlobsInv, BlobsTrue
    <3>4. i - 1 # j - 1
      BY <1>1, <3>1, <3>2
    <3>5. blobs[i - 1] # blobs[j - 1]
      BY <1>1, <3>2, <3>4
    <3>6. /\ l[i] = blobs[i - 1] /\ LastUse(uses', l[i]) = LastUse(uses, l[i])
          /\ l[j] = blobs[j - 1] /\ LastUse(uses', l[j]) = LastUse(uses, l[j])
      BY <1>5, <2>1, <3>1
    <3> QED
      BY <3>3, <3>5, <3>6, Zenon
  <2> QED
    BY <2>2, <2>3
<1>7. \A i, j \in 1..(N + 1) : i # j => l[i] # l[j]
  <2> SUFFICES ASSUME NEW i \in 1..(N + 1), NEW j \in 1..(N + 1), i # j PROVE l[i] # l[j]
    OBVIOUS
  <2>1. i < j \/ j < i
    BY <1>1
  <2> QED
    BY <1>6, <2>1
<1>8. \A m \in 1..(N + 1) : l[m] \in Blob /\ Used(uses', l[m]) # {}
  <2> SUFFICES ASSUME NEW m \in 1..(N + 1) PROVE l[m] \in Blob /\ Used(uses', l[m]) # {}
    OBVIOUS
  <2>1. m = 1 \/ m \in 2..(N + 1)
    BY <1>1
  <2> QED
    BY <1>2, <1>4, <1>5, <2>1
<1>9. /\ Len(l) = N + 1 /\ N \in Nat /\ \A m \in 2..(N + 1) : l[m] = blobs[m - 1] /\ l[m] # b
      /\ \A i, j \in 1..(N + 1) : i < j => LastUse(uses', l[i]) > LastUse(uses', l[j])
  BY <1>1, <1>2, <1>5, <1>6
<1> QED
  BY <1>2, <1>7, <1>8, <1>9, Zenon DEF Queued

\* What is counted without those behind is the sum of those in front; the loop keeps
\* as many as fit.
LEMMA KeptIs ==
  ASSUME BlobsInv, NEW b \in Blob, NEW l, Queued(l, b),
         NEW count, count = used + bodySize[b], NEW n, n = Kept(l, count)
  PROVE  /\ n \in 1..Len(l)
         /\ \A m \in 1..Len(l) : count - Total(Behind(l, m)) = Total(Foremost(l, m)) /\ Total(Foremost(l, m)) \in Nat
         /\ n > 1 => Total(Foremost(l, n)) <= budget
         /\ \A m \in (n + 1)..Len(l) : Total(Foremost(l, m)) > budget
<1> DEFINE N == Len(l)
<1>1. /\ N \in Nat /\ 1 \in 1..N /\ \A m \in 1..N : l[m] \in Blob
      /\ \A i, j \in 1..N : i # j => l[i] # l[j]
  <2>1. /\ Len(l) = Len(blobs) + 1 /\ Len(blobs) \in Nat
        /\ \A m \in 1..Len(l) : l[m] \in Blob
        /\ \A i, j \in 1..Len(l) : i # j => l[i] # l[j]
    BY Zenon DEF Queued
  <2> QED
    BY <2>1
<1>2. budget \in Nat
  BY BlobsAre
<1>3. Foremost(l, N) \in SUBSET Blob /\ \A m \in 1..N : Foremost(l, m) \in SUBSET Foremost(l, N)
  <2>1. \A m \in 1..N : \A i \in 1..m : i \in 1..N
    BY <1>1
  <2> QED
    BY <1>1, <2>1 DEF Foremost
<1>4. count = Total(Foremost(l, N)) /\ count \in Nat
  <2>1. b \in Foremost(l, N)
    BY <1>1 DEF Foremost, Queued
  <2>2. Foremost(l, N) \ {b} = ToSet(blobs)
    <3>1. ToSet(blobs) = {blobs[m] : m \in 1..Len(blobs)} /\ Len(blobs) \in Nat
      BY BlobsAre DEF ToSet
    <3>2. \A m \in 2..N : l[m] = blobs[m - 1] /\ l[m] # b /\ m - 1 \in 1..Len(blobs)
      BY <1>1, <3>1 DEF Queued
    <3>3. \A m \in 1..Len(blobs) : m + 1 \in 2..N /\ m + 1 \in 1..N /\ (m + 1) - 1 = m
      BY <3>1 DEF Queued
    <3>4. \A m \in 1..Len(blobs) : blobs[m] = l[m + 1] /\ blobs[m] # b /\ m + 1 \in 1..N
      BY <3>2, <3>3
    <3>5. \A m \in 1..N : m = 1 \/ m \in 2..N
      BY <1>1
    <3>6. l[1] = b
      BY DEF Queued
    <3>7. ASSUME NEW x \in Foremost(l, N) \ {b} PROVE x \in ToSet(blobs)
      <4>1. PICK m \in 1..N : x = l[m]
        BY DEF Foremost
      <4>2. m \in 2..N
        BY <3>5, <3>6, <4>1
      <4> QED
        BY <3>1, <3>2, <4>1, <4>2
    <3>8. ASSUME NEW x \in ToSet(blobs) PROVE x \in Foremost(l, N) \ {b}
      <4>1. PICK m \in 1..Len(blobs) : x = blobs[m]
        BY <3>1
      <4> QED
        BY <3>4, <4>1 DEF Foremost
    <3> QED
      BY <3>7, <3>8
  <2>3. IsFiniteSet(Foremost(l, N)) /\ \A x \in Foremost(l, N) : bodySize[x] \in Nat
    BY <1>3, FS_Subset, TablesAssumption DEF TablesAssumption
  <2>4. Total(Foremost(l, N)) = bodySize[b] + Total(Foremost(l, N) \ {b})
    BY <2>1, <2>3, SumTakes DEF Total
  <2>5. used = Total(ToSet(blobs))
    BY DEF BlobsInv, BlobsTrue
  <2>6. Total(Foremost(l, N)) \in Nat /\ Total(ToSet(blobs)) \in Nat /\ bodySize[b] \in Nat
    <3>1. Foremost(l, N) \in SUBSET Blob /\ Foremost(l, N) \in SUBSET Foremost(l, N)
          /\ ToSet(blobs) \in SUBSET Foremost(l, N)
      BY <1>3, <2>2
    <3>2. Total(Foremost(l, N)) \in Nat /\ Total(ToSet(blobs)) \in Nat
      BY <3>1, TotalIs
    <3> QED
      BY <2>1, <2>3, <3>2
  <2>7. Total(Foremost(l, N)) = bodySize[b] + Total(ToSet(blobs))
    BY <2>2, <2>4
  <2> DEFINE a == Total(Foremost(l, N))
             c == Total(ToSet(blobs))
             d == bodySize[b]
  <2>8. a = d + c /\ a \in Nat /\ c \in Nat /\ d \in Nat /\ count = c + d
    BY <2>5, <2>6, <2>7
  <2> HIDE DEF a, c, d
  <2>9. count = a /\ count \in Nat
    BY <2>8
  <2> QED
    BY <2>9 DEF a
<1>5. ASSUME NEW m \in 1..N
      PROVE  count - Total(Behind(l, m)) = Total(Foremost(l, m)) /\ Total(Foremost(l, m)) \in Nat
  <2>1. Foremost(l, N) \ Foremost(l, m) = Behind(l, m)
    <3>1. \A i \in 1..N : i \in 1..m \/ i \in (m + 1)..N
      BY <1>1
    <3>2. \A i \in (m + 1)..N : i \in 1..N /\ \A j \in 1..m : j \in 1..N /\ i # j
      BY <1>1
    <3>3. Behind(l, m) = {l[i] : i \in (m + 1)..N}
      BY DEF Behind
    <3>4. ASSUME NEW x \in Foremost(l, N) \ Foremost(l, m) PROVE x \in Behind(l, m)
      <4>1. PICK i \in 1..N : x = l[i]
        BY DEF Foremost
      <4>2. i \notin 1..m
        BY <4>1 DEF Foremost
      <4>3. i \in (m + 1)..N
        BY <3>1, <4>2
      <4> QED
        BY <3>3, <4>1, <4>3
    <3>5. ASSUME NEW x \in Behind(l, m) PROVE x \in Foremost(l, N) \ Foremost(l, m)
      <4>1. PICK i \in (m + 1)..N : x = l[i]
        BY <3>3
      <4>2. i \in 1..N /\ \A j \in 1..m : l[i] # l[j]
        BY <1>1, <3>2
      <4> QED
        BY <4>1, <4>2 DEF Foremost
    <3> QED
      BY <3>4, <3>5
  <2>2. /\ Total(Foremost(l, m)) \in Nat /\ Total(Foremost(l, N) \ Foremost(l, m)) \in Nat
        /\ Total(Foremost(l, N)) = Total(Foremost(l, m)) + Total(Foremost(l, N) \ Foremost(l, m))
    BY <1>3, TotalIs
  <2> DEFINE a == Total(Foremost(l, m))
             c == Total(Behind(l, m))
  <2>3. a \in Nat /\ c \in Nat /\ count = a + c
    BY <1>4, <2>1, <2>2
  <2> HIDE DEF a, c
  <2>4. count - c = a /\ a \in Nat
    BY <2>3
  <2> QED
    BY <2>4 DEF a, c
<1>6. Fits(l, count) = {m \in 1..N : m = 1 \/ Total(Foremost(l, m)) <= budget}
  BY <1>5 DEF Fits
<1>7. n \in Fits(l, count) /\ \A m \in Fits(l, count) : m <= n
  <2>1. Fits(l, count) \in SUBSET (1..N) /\ 1 \in Fits(l, count)
    BY <1>1, <1>6
  <2>2. n = Latest(Fits(l, count))
    BY DEF Kept, Latest
  <2>3. Latest(Fits(l, count)) \in Fits(l, count) /\ \A m \in Fits(l, count) : m <= Latest(Fits(l, count))
    BY <1>1, <2>1, EndsAre
  <2> QED
    BY <2>2, <2>3, Zenon
<1>8. n \in 1..N /\ (n > 1 => Total(Foremost(l, n)) <= budget)
  BY <1>6, <1>7
<1>9. ASSUME NEW m \in (n + 1)..N PROVE Total(Foremost(l, m)) > budget
  <2>1. m \in 1..N /\ m # 1 /\ ~(m <= n)
    BY <1>1, <1>8
  <2>2. ~(Total(Foremost(l, m)) <= budget)
    BY <1>6, <1>7, <2>1
  <2> DEFINE a == Total(Foremost(l, m))
  <2>3. a \in Nat /\ ~(a <= budget)
    BY <1>5, <2>1, <2>2
  <2> HIDE DEF a
  <2>4. a > budget
    BY <1>2, <2>3
  <2> QED
    BY <2>4 DEF a
<1> QED
  BY <1>5, <1>8, <1>9

\* A new body is put.
LEMMA PutBlobKeeps ==
  ASSUME BlobsInv, NEW b \in Blob, ~Contains(blobs, b), PutBlob(b)
  PROVE  BlobsInv'
<1> DEFINE ll == <<b>> \o blobs
           cc == used + bodySize[b]
<1>1. /\ uses' = Append(uses, [op |-> "put", blob |-> b, hit |-> TRUE])
      /\ blobs' = SubSeq(ll, 1, Kept(ll, cc)) /\ used' = cc - Total(Behind(ll, Kept(ll, cc)))
  BY DEF PutBlob
<1>2. PICK l : l = ll
  OBVIOUS
<1>3. PICK count : count = cc
  OBVIOUS
<1>4. PICK n : n = Kept(l, count)
  OBVIOUS
<1>5. blobs' = SubSeq(l, 1, n) /\ used' = count - Total(Behind(l, n))
  BY <1>1, <1>2, <1>3, <1>4
<1>6. Queued(l, b)
  BY <1>1, <1>2, QueuedIs
<1>7. count = used + bodySize[b]
  BY <1>3
<1> HIDE DEF ll, cc
<1> DEFINE N == Len(l)
<1>8. /\ n \in 1..N
      /\ \A m \in 1..N : count - Total(Behind(l, m)) = Total(Foremost(l, m)) /\ Total(Foremost(l, m)) \in Nat
      /\ n > 1 => Total(Foremost(l, n)) <= budget
      /\ \A m \in (n + 1)..N : Total(Foremost(l, m)) > budget
  BY <1>4, <1>6, <1>7, KeptIs
<1>9. /\ N \in Nat /\ l \in Seq(Blob) /\ \A m \in 1..N : l[m] \in Blob /\ Used(uses', l[m]) # {}
      /\ \A i, j \in 1..N : i # j => l[i] # l[j]
      /\ \A i, j \in 1..N : i < j => LastUse(uses', l[i]) > LastUse(uses', l[j])
  BY <1>6 DEF Queued
<1>10. /\ SubSeq(l, 1, n) \in Seq(Blob) /\ Len(SubSeq(l, 1, n)) = n /\ DOMAIN SubSeq(l, 1, n) = 1..n
       /\ \A m \in 1..n : SubSeq(l, 1, n)[m] = l[m]
  BY <1>8, <1>9, FirstAre
<1>11. /\ blobs' \in Seq(Blob) /\ Len(blobs') = n /\ DOMAIN blobs' = 1..n
       /\ \A m \in 1..n : blobs'[m] = l[m] /\ m \in 1..N
  BY <1>5, <1>8, <1>9, <1>10
<1>12. ToSet(blobs') = Foremost(l, n)
  BY <1>11 DEF ToSet, Foremost
<1>13. \A c : Contains(blobs', c) <=> c \in Foremost(l, n)
  BY <1>11 DEF Contains, Foremost
<1>14. BlobsType'
  <2>1. uses' \in Seq(Use)
    BY <1>1, UsedNow
  <2> QED
    BY <1>11, <2>1 DEF BlobsType
<1>15. used' = Total(ToSet(blobs')) /\ (Len(blobs') > 1 => used' <= budget)
  BY <1>5, <1>8, <1>11, <1>12
<1>16. ASSUME NEW c \in Blob, Used(uses', c) # {}, ~Contains(blobs', c)
       PROVE  Since(uses', c) # {} /\ Total(Since(uses', c) \cup {c}) > budget
  <2>1. CASE \E m \in 1..N : c = l[m]
    <3>1. PICK m \in 1..N : c = l[m]
      BY <2>1
    <3>2. m \in (n + 1)..N
      <4>1. m \notin 1..n
        BY <1>13, <1>16, <3>1 DEF Foremost
      <4> QED
        BY <1>8, <1>9, <4>1
    <3>3. Total(Foremost(l, m)) > budget
      BY <1>8, <3>2
    <3>4. \A i \in 1..(m - 1) : l[i] \in Since(uses', c)
      <4> SUFFICES ASSUME NEW i \in 1..(m - 1) PROVE l[i] \in Since(uses', c)
        OBVIOUS
      <4>1. i \in 1..N /\ i < m
        BY <1>9
      <4> QED
        BY <1>9, <3>1, <4>1 DEF Since
    <3>5. Since(uses', c) # {}
      <4>1. 1 \in 1..(m - 1)
        BY <1>8, <1>9, <3>2
      <4> QED
        BY <3>4, <4>1
    <3>6. Foremost(l, m) \in SUBSET (Since(uses', c) \cup {c})
      <4>1. \A i \in 1..m : i = m \/ i \in 1..(m - 1)
        BY <1>9
      <4> QED
        BY <3>1, <3>4, <4>1 DEF Foremost
    <3>7. Since(uses', c) \cup {c} \in SUBSET Blob
      BY DEF Since
    <3>8. /\ Total(Foremost(l, m)) <= Total(Since(uses', c) \cup {c})
          /\ Total(Foremost(l, m)) \in Nat /\ Total(Since(uses', c) \cup {c}) \in Nat
      BY <3>6, <3>7, TotalIs
    <3> DEFINE before == Total(Foremost(l, m))
               after == Total(Since(uses', c) \cup {c})
    <3>9. before <= after /\ before \in Nat /\ after \in Nat /\ before > budget /\ budget \in Nat
      BY <3>3, <3>8, BlobsAre
    <3> HIDE DEF before, after
    <3>10. after > budget
      BY <3>9
    <3> QED
      BY <3>5, <3>10 DEF after
  <2>2. CASE ~(\E m \in 1..N : c = l[m])
    <3>1. c # b /\ ~Contains(blobs, c)
      <4>1. l[1] = b /\ 1 \in 1..N
        BY <1>6, <1>9 DEF Queued
      <4>2. ASSUME NEW m \in 1..Len(blobs), blobs[m] = c PROVE FALSE
        <5>1. m + 1 \in 2..N /\ m + 1 \in 1..N /\ (m + 1) - 1 = m
          BY <1>6 DEF Queued
        <5>2. l[m + 1] = blobs[m]
          BY <1>6, <5>1 DEF Queued
        <5> QED
          BY <2>2, <4>2, <5>1, <5>2
      <4>3. DOMAIN blobs = 1..Len(blobs)
        BY BlobsAre
      <4> QED
        BY <2>2, <4>1, <4>2, <4>3 DEF Contains
    <3>2. Used(uses, c) # {}
      BY <1>1, <1>16, <3>1, UsedNow
    <3>3. Since(uses, c) # {} /\ Total(Since(uses, c) \cup {c}) > budget
      BY <3>1, <3>2 DEF BlobsInv, BlobsTrue
    <3> QED
      BY <1>1, <3>1, <3>2, <3>3, GoneStays
  <2> QED
    BY <2>1, <2>2
<1>17. BlobsTrue'
  <2>1. \A m \in 1..n : Used(uses', blobs'[m]) # {}
    BY <1>9, <1>11
  <2>2. \A i, j \in 1..n : i < j => LastUse(uses', blobs'[i]) > LastUse(uses', blobs'[j])
    BY <1>9, <1>11
  <2> QED
    BY <1>11, <1>15, <1>16, <2>1, <2>2 DEF BlobsTrue
<1> QED
  BY <1>14, <1>17 DEF BlobsInv

\* Whatever is asked of the bodies, what is kept is what should be.
LEMMA BlobsKeep ==
  ASSUME BlobsInv, BlobsNext
  PROVE  BlobsInv'
<1>1. ASSUME NEW b \in Blob, PutBlob(b) PROVE BlobsInv'
  <2>1. CASE Contains(blobs, b)
    <3>1. /\ uses' = Append(uses, [op |-> "put", blob |-> b, hit |-> TRUE])
          /\ blobs' = MoveToFront(blobs, b) /\ used' = used
      BY <1>1, <2>1 DEF PutBlob
    <3> QED
      BY <2>1, <3>1, HitKeeps
  <2>2. CASE ~Contains(blobs, b)
    BY <1>1, <2>2, PutBlobKeeps
  <2> QED
    BY <2>1, <2>2
<1>2. ASSUME NEW b \in Blob, GetBlob(b) PROVE BlobsInv'
  <2>1. CASE Contains(blobs, b)
    <3>1. /\ uses' = Append(uses, [op |-> "get", blob |-> b, hit |-> TRUE])
          /\ blobs' = MoveToFront(blobs, b) /\ used' = used
      BY <1>2, <2>1, Zenon DEF GetBlob
    <3> QED
      BY <2>1, <3>1, HitKeeps
  <2>2. CASE ~Contains(blobs, b)
    <3>1. /\ uses' = Append(uses, [op |-> "get", blob |-> b, hit |-> FALSE])
          /\ blobs' = blobs /\ used' = used
      <4>1. Contains(blobs, b) = FALSE
        BY <2>2 DEF Contains
      <4> QED
        BY <1>2, <4>1, Zenon DEF GetBlob
    <3> QED
      BY <3>1, MissKeeps
  <2> QED
    BY <2>1, <2>2
<1> QED
  BY <1>1, <1>2, ClearKeeps DEF BlobsNext

-----------------------------------------------------------------------------
(* The messages of a WebSocket. *)

\* Opcodes, what a message or a frame is, and an entry of the log.
DataOps == {"text", "binary"}
Opcode == Control \cup DataOps \cup {"continuation"}
Byte == UNION {{p[i] : i \in 1..Len(p)} : p \in Payloads}
Meaning == [op : Opcode, payload : Seq(Byte), sent : Nat, nth : Nat, end : Nat]
Frame == [op : Opcode, fin : BOOLEAN, head : Nat \ {0}, payload : Seq(Byte), meant : Meaning]
Entry == [seq : Nat, op : Opcode, payload : Seq(Byte), len : Nat]

\* Of some frames: the byte the n-th ends at, and the messages it and those before it end.
UptoOf(fs, n) == IF n = 0 THEN 0 ELSE fs[n].meant.end
EndedOf(fs, n) == IF n = 0 THEN 0 ELSE fs[n].meant.nth

\* The last data frame of the first n is the k-th.
LastOf(fs, k, n) ==
  /\ k \in 1..n /\ fs[k].op \notin Control
  /\ \A j \in (k + 1)..n : fs[j].op \in Control

\* What a continuation goes on from.
GoesOn(fs, n, k) ==
  LET of == fs[n].meant IN
  /\ LastOf(fs, k, n - 1) /\ ~fs[k].fin
  /\ of.op = fs[k].meant.op /\ of.payload = fs[k].meant.payload
  /\ fs[k].meant.sent <= of.sent
  /\ fs[n].payload = SubSeq(of.payload, fs[k].meant.sent + 1, of.sent)

\* A frame says what was meant by it.
AsMeant(fs, n) ==
  LET f == fs[n]
      of == f.meant
  IN /\ of.end = UptoOf(fs, n - 1) + FrameSize(f)
     /\ of.nth = EndedOf(fs, n - 1) + (IF f.fin THEN 1 ELSE 0)
     /\ f.op \in Control => f.fin /\ of.op = f.op /\ of.payload = f.payload
     /\ f.op \notin Control =>
          of.op \in DataOps /\ of.sent <= Len(of.payload) /\ (f.fin => of.sent = Len(of.payload))
     /\ f.op \in DataOps => of.op = f.op /\ f.payload = SubSeq(of.payload, 1, of.sent)
     /\ f.op = "continuation" => \E k \in 1..(n - 1) : GoesOn(fs, n, k)

WellMeant(fs) ==
  /\ fs \in Seq(Frame)
  /\ \A m, n \in 0..Len(fs) : m < n => UptoOf(fs, m) < UptoOf(fs, n) /\ EndedOf(fs, m) <= EndedOf(fs, n)
  /\ \A n \in 1..Len(fs) : AsMeant(fs, n)

\* The message a frame ends is logged.
Logged(n) ==
  LET of == frames[n].meant IN
  sink[of.nth] = [seq |-> of.nth, op |-> of.op, len |-> Len(of.payload),
                  payload |-> IF of.op \in Control THEN of.payload ELSE Cut(of.payload)]

\* The parser has the bytes of the message that is under way, and its length.
HasRead(d) ==
  LET of == frames[d].meant IN
  msgOp = of.op /\ msgLen = of.sent /\ msg = Cut(SubSeq(of.payload, 1, of.sent))

\* The parser is where it should be.
ParsedSo ==
  /\ parsed \in 0..Len(frames) /\ arrived \in Nat /\ arrived <= Upto(Len(frames))
  /\ Upto(parsed) <= arrived /\ buf = arrived - Upto(parsed)
  /\ msgOp \in Opcode \cup {""} /\ msg \in Seq(Byte) /\ msgLen \in Nat
  /\ \A d \in 1..parsed : LastOf(frames, d, parsed) /\ ~frames[d].fin => HasRead(d)
  /\ sink \in Seq(Entry) /\ Len(sink) = Ended(parsed)
  /\ \A n \in 1..parsed : frames[n].fin => Logged(n)

\* The frames are as meant, and the parser has read them up to where it is.
FramesInv == WellMeant(frames) /\ ParsedSo

-----------------------------------------------------------------------------
\* Parts of a sequence.
LEMMA PartIs ==
  ASSUME NEW S, NEW s \in Seq(S), NEW i \in Nat, NEW j \in 0..Len(s), i <= j
  PROVE  /\ SubSeq(s, i + 1, j) \in Seq(S) /\ Len(SubSeq(s, i + 1, j)) = j - i
         /\ \A m \in 1..(j - i) : SubSeq(s, i + 1, j)[m] = s[i + m]
<1>1. Len(s) \in Nat /\ \A m \in 1..Len(s) : s[m] \in S
  BY LenProperties, ElementOfSeq
<1>2. j \in Nat /\ i + 1 \in Int /\ j \in Int /\ \A m \in (i + 1)..j : s[m] \in S
  BY <1>1
<1>3. /\ SubSeq(s, i + 1, j) \in Seq(S)
      /\ Len(SubSeq(s, i + 1, j)) = (IF i + 1 <= j THEN j - (i + 1) + 1 ELSE 0)
      /\ \A m \in 1..(j - (i + 1) + 1) : SubSeq(s, i + 1, j)[m] = s[i + 1 + m - 1]
  BY <1>2, SubSeqProperties
<1>4. Len(SubSeq(s, i + 1, j)) = j - i
  BY <1>2, <1>3
<1>5. \A m \in 1..(j - i) : m \in 1..(j - (i + 1) + 1) /\ i + 1 + m - 1 = i + m
  BY <1>2
<1>6. \A m \in 1..(j - i) : SubSeq(s, i + 1, j)[m] = s[i + m]
  BY <1>3, <1>5
<1> QED
  BY <1>3, <1>4, <1>6

\* The first j members of a sequence.
LEMMA PartFromStart ==
  ASSUME NEW S, NEW s \in Seq(S), NEW j \in 0..Len(s)
  PROVE  /\ SubSeq(s, 1, j) \in Seq(S) /\ Len(SubSeq(s, 1, j)) = j
         /\ \A m \in 1..j : SubSeq(s, 1, j)[m] = s[m]
<1>1. 0 \in Nat /\ 0 <= j /\ 0 + 1 = 1 /\ j - 0 = j /\ \A m \in 1..j : 0 + m = m
  BY LenProperties
<1>2. /\ SubSeq(s, 0 + 1, j) \in Seq(S) /\ Len(SubSeq(s, 0 + 1, j)) = j - 0
      /\ \A m \in 1..(j - 0) : SubSeq(s, 0 + 1, j)[m] = s[0 + m]
  BY <1>1, PartIs
<1> QED
  BY <1>1, <1>2

\* Sequences of the same length and members are the same.
LEMMA SameSeq ==
  ASSUME NEW S, NEW s \in Seq(S), NEW t \in Seq(S), NEW n \in Nat, Len(s) = n, Len(t) = n,
         \A m \in 1..n : s[m] = t[m]
  PROVE  s = t
BY SeqEqual

\* A part and the next are one part.
LEMMA PartsJoin ==
  ASSUME NEW S, NEW s \in Seq(S), NEW i \in Nat, NEW j \in 0..Len(s), i <= j
  PROVE  SubSeq(s, 1, i) \o SubSeq(s, i + 1, j) = SubSeq(s, 1, j)
<1> DEFINE a == SubSeq(s, 1, i)
           b == SubSeq(s, i + 1, j)
           c == SubSeq(s, 1, j)
<1>1. i \in 0..Len(s) /\ j \in Nat
  BY LenProperties
<1>2. a \in Seq(S) /\ Len(a) = i /\ \A m \in 1..i : a[m] = s[m]
  BY <1>1, PartFromStart
<1>3. b \in Seq(S) /\ Len(b) = j - i /\ \A m \in 1..(j - i) : b[m] = s[i + m]
  BY PartIs
<1>4. c \in Seq(S) /\ Len(c) = j /\ \A m \in 1..j : c[m] = s[m]
  BY PartFromStart
<1> HIDE DEF a, b, c
<1>5. /\ a \o b \in Seq(S) /\ Len(a \o b) = Len(a) + Len(b)
      /\ \A m \in 1..(Len(a) + Len(b)) : (a \o b)[m] = IF m <= Len(a) THEN a[m] ELSE b[m - Len(a)]
  BY <1>2, <1>3, ConcatProperties
<1>6. Len(a) + Len(b) = j
  BY <1>1, <1>2, <1>3
<1>7. ASSUME NEW m \in 1..j PROVE (a \o b)[m] = s[m]
  <2>1. CASE m <= i
    <3>1. m \in 1..i /\ (a \o b)[m] = a[m]
      BY <1>1, <1>2, <1>5, <1>6, <2>1
    <3> QED
      BY <1>2, <3>1
  <2>2. CASE ~(m <= i)
    <3>1. m - i \in 1..(j - i) /\ i + (m - i) = m /\ (a \o b)[m] = b[m - i]
      BY <1>1, <1>2, <1>5, <1>6, <2>2
    <3> QED
      BY <1>3, <3>1
  <2> QED
    BY <2>1, <2>2
<1>8. a \o b = c
  <2>1. j \in Nat /\ a \o b \in Seq(S) /\ c \in Seq(S) /\ Len(c) = j
    BY <1>1, <1>4, <1>5
  <2>2. Len(a \o b) = j
    BY <1>5, <1>6
  <2>3. \A m \in 1..j : (a \o b)[m] = c[m]
    BY <1>4, <1>7
  <2> DEFINE ab == a \o b
  <2>4. /\ j \in Nat /\ ab \in Seq(S) /\ c \in Seq(S) /\ Len(ab) = j /\ Len(c) = j
        /\ \A m \in 1..j : ab[m] = c[m]
    BY <2>1, <2>2, <2>3
  <2> HIDE DEF ab
  <2>5. ab = c
    BY <2>4, SameSeq
  <2> QED
    BY <2>5 DEF ab
<1> QED
  BY <1>8 DEF a, b, c

\* What is cut, and goes on, is cut where the whole is.
LEMMA CutIs ==
  ASSUME NEW S, NEW s \in Seq(S)
  PROVE  /\ Cut(s) \in Seq(S)
         /\ Len(Cut(s)) = (IF Len(s) > wsLimit THEN wsLimit ELSE Len(s))
         /\ \A m \in 1..Len(Cut(s)) : Cut(s)[m] = s[m]
<1>1. Len(s) \in Nat /\ wsLimit \in Nat
  BY LenProperties, FramesAssumption DEF FramesAssumption
<1>2. CASE Len(s) > wsLimit
  <2>1. wsLimit \in 0..Len(s) /\ Cut(s) = SubSeq(s, 1, wsLimit)
    BY <1>1, <1>2 DEF Cut
  <2> QED
    BY <1>2, <2>1, PartFromStart
<1>3. CASE ~(Len(s) > wsLimit)
  BY <1>3 DEF Cut
<1> QED
  BY <1>2, <1>3

\* What was cut at the limit and goes on is cut as if it had come at once.
LEMMA CutOnce ==
  ASSUME NEW S, NEW s \in Seq(S), NEW t \in Seq(S)
  PROVE  Cut(Cut(s) \o t) = Cut(s \o t)
<1> DEFINE c == Cut(s)
           u == c \o t
           v == s \o t
<1>1. /\ c \in Seq(S) /\ Len(c) = (IF Len(s) > wsLimit THEN wsLimit ELSE Len(s))
      /\ \A m \in 1..Len(c) : c[m] = s[m]
  BY CutIs
<1>2. Len(s) \in Nat /\ Len(t) \in Nat /\ wsLimit \in Nat
  BY LenProperties, FramesAssumption DEF FramesAssumption
<1>3. CASE ~(Len(s) > wsLimit)
  BY <1>3 DEF Cut
<1>4. CASE Len(s) > wsLimit
  <2> HIDE DEF c
  <2>1. /\ u \in Seq(S) /\ Len(u) = Len(c) + Len(t)
        /\ \A m \in 1..(Len(c) + Len(t)) : u[m] = IF m <= Len(c) THEN c[m] ELSE t[m - Len(c)]
    BY <1>1, ConcatProperties
  <2>2. /\ v \in Seq(S) /\ Len(v) = Len(s) + Len(t)
        /\ \A m \in 1..(Len(s) + Len(t)) : v[m] = IF m <= Len(s) THEN s[m] ELSE t[m - Len(s)]
    BY ConcatProperties
  <2>3. Len(c) = wsLimit
    BY <1>1, <1>4
  <2> HIDE DEF u, v
  <2>4. /\ Cut(u) \in Seq(S) /\ Len(Cut(u)) = (IF Len(u) > wsLimit THEN wsLimit ELSE Len(u))
        /\ \A m \in 1..Len(Cut(u)) : Cut(u)[m] = u[m]
    BY <2>1, CutIs
  <2>5. /\ Cut(v) \in Seq(S) /\ Len(Cut(v)) = (IF Len(v) > wsLimit THEN wsLimit ELSE Len(v))
        /\ \A m \in 1..Len(Cut(v)) : Cut(v)[m] = v[m]
    BY <2>2, CutIs
  <2>6. Len(Cut(u)) = wsLimit /\ Len(Cut(v)) = wsLimit
    BY <1>2, <1>4, <2>1, <2>2, <2>3, <2>4, <2>5
  <2>7. ASSUME NEW m \in 1..wsLimit PROVE Cut(u)[m] = Cut(v)[m]
    <3>1. m <= Len(c) /\ m \in 1..Len(c) /\ m \in 1..(Len(c) + Len(t)) /\ m <= Len(s) /\ m \in 1..(Len(s) + Len(t))
      BY <1>2, <1>4, <2>3
    <3>2. u[m] = c[m] /\ v[m] = s[m]
      BY <2>1, <2>2, <3>1
    <3>3. c[m] = s[m]
      BY <1>1, <3>1
    <3> QED
      BY <2>4, <2>5, <2>6, <3>2, <3>3
  <2>8. Cut(u) = Cut(v)
    BY <1>2, <2>4, <2>5, <2>6, <2>7, SameSeq
  <2> QED
    BY <2>8 DEF u, v, c
<1> QED
  BY <1>3, <1>4

\* One frame more, which says what was meant by it.
OneMore(fs, gs) ==
  /\ WellMeant(gs) /\ Len(gs) = Len(fs) + 1
  /\ \A n \in 0..Len(fs) : UptoOf(gs, n) = UptoOf(fs, n) /\ EndedOf(gs, n) = EndedOf(fs, n)
  /\ \A n \in 0..Len(fs) : \A k : LastOf(gs, k, n) <=> LastOf(fs, k, n)
  /\ \A n \in 0..(Len(fs) + 1) : UptoOf(gs, n) \in Nat /\ EndedOf(gs, n) \in Nat
  /\ UptoOf(gs, Len(fs)) < UptoOf(gs, Len(fs) + 1)

\* A frame behind the others disturbs none of them.
LEMMA FrameAdded ==
  ASSUME NEW fs, WellMeant(fs), NEW f \in Frame, NEW gs, gs = Append(fs, f), AsMeant(gs, Len(fs) + 1)
  PROVE  OneMore(fs, gs)
<1> DEFINE N == Len(fs)
<1>1. fs \in Seq(Frame)
  BY DEF WellMeant
<1>2. /\ gs \in Seq(Frame) /\ Len(gs) = N + 1 /\ N \in Nat /\ gs[N + 1] = f
      /\ \A n \in 1..N : gs[n] = fs[n]
  BY <1>1, AppendProperties, LenProperties
<1>3. \A n \in 1..(N + 1) : gs[n] \in Frame
  BY <1>2, ElementOfSeq
<1> HIDE DEF N
<1>4. \A n \in 0..N : n = 0 \/ n \in 1..N
  BY <1>2
<1>5. \A n \in 0..N : UptoOf(gs, n) = UptoOf(fs, n) /\ EndedOf(gs, n) = EndedOf(fs, n)
  BY <1>2, <1>4 DEF UptoOf, EndedOf
<1>6. \A n \in 0..N : \A k : LastOf(gs, k, n) <=> LastOf(fs, k, n)
  <2> SUFFICES ASSUME NEW n \in 0..N, NEW k PROVE LastOf(gs, k, n) <=> LastOf(fs, k, n)
    OBVIOUS
  <2>1. \A j \in 1..n : gs[j] = fs[j]
    BY <1>2
  <2>2. k \in 1..n => \A j \in (k + 1)..n : gs[j] = fs[j]
    BY <1>2
  <2> QED
    BY <2>1, <2>2 DEF LastOf
<1>7. \A n \in 0..(N + 1) : UptoOf(gs, n) \in Nat /\ EndedOf(gs, n) \in Nat
  <2>1. \A n \in 1..(N + 1) : gs[n].meant.end \in Nat /\ gs[n].meant.nth \in Nat
    BY <1>3 DEF Frame, Meaning
  <2>2. \A n \in 0..(N + 1) : n = 0 \/ n \in 1..(N + 1)
    BY <1>2
  <2> QED
    BY <2>1, <2>2 DEF UptoOf, EndedOf
<1>8. FrameSize(f) \in Nat /\ FrameSize(f) > 0
  <2>1. f.head \in Nat \ {0} /\ Len(f.payload) \in Nat
    BY LenProperties DEF Frame
  <2> QED
    BY <2>1 DEF FrameSize
<1>9. UptoOf(gs, N) < UptoOf(gs, N + 1) /\ EndedOf(gs, N) <= EndedOf(gs, N + 1)
  <2>1. /\ gs[N + 1].meant.end = UptoOf(gs, (N + 1) - 1) + FrameSize(f)
        /\ gs[N + 1].meant.nth = EndedOf(gs, (N + 1) - 1) + (IF f.fin THEN 1 ELSE 0)
    BY <1>2 DEF AsMeant, N
  <2>2. (N + 1) - 1 = N /\ N + 1 # 0 /\ N \in 0..(N + 1)
    BY <1>2
  <2>3. /\ UptoOf(gs, N + 1) = UptoOf(gs, N) + FrameSize(f)
        /\ EndedOf(gs, N + 1) = EndedOf(gs, N) + (IF f.fin THEN 1 ELSE 0)
    BY <2>1, <2>2 DEF UptoOf, EndedOf
  <2>4. UptoOf(gs, N) \in Nat /\ EndedOf(gs, N) \in Nat
    BY <1>7, <2>2
  <2> QED
    BY <1>8, <2>3, <2>4
<1>10. ASSUME NEW m \in 0..(N + 1), NEW n \in 0..(N + 1), m < n
       PROVE  UptoOf(gs, m) < UptoOf(gs, n) /\ EndedOf(gs, m) <= EndedOf(gs, n)
  <2>1. \A i, j \in 0..N : i < j => UptoOf(gs, i) < UptoOf(gs, j) /\ EndedOf(gs, i) <= EndedOf(gs, j)
    BY <1>5 DEF WellMeant, N
  <2>2. CASE n \in 0..N
    <3>1. m \in 0..N
      BY <1>2, <1>10, <2>2
    <3> QED
      BY <1>10, <2>1, <2>2, <3>1
  <2>3. CASE n \notin 0..N
    <3>1. n = N + 1 /\ m \in 0..N /\ N \in 0..N
      BY <1>2, <1>10, <2>3
    <3>2. m = N \/ (UptoOf(gs, m) < UptoOf(gs, N) /\ EndedOf(gs, m) <= EndedOf(gs, N))
      <4>1. m = N \/ m < N
        BY <1>2, <3>1
      <4> QED
        BY <2>1, <3>1, <4>1
    <3>3. \A i \in {m, N, N + 1} : UptoOf(gs, i) \in Nat /\ EndedOf(gs, i) \in Nat
      BY <1>2, <1>7
    <3> QED
      BY <1>9, <3>1, <3>2, <3>3
  <2> QED
    BY <2>2, <2>3
<1>11. ASSUME NEW n \in 1..(N + 1) PROVE AsMeant(gs, n)
  <2>1. CASE n = N + 1
    BY <2>1 DEF N
  <2>2. CASE n # N + 1
    <3>1. n \in 1..N /\ n - 1 \in 0..N /\ \A k \in 1..(n - 1) : k \in 1..N
      BY <1>2, <2>2
    <3>2. AsMeant(fs, n)
      BY <3>1 DEF WellMeant, N
    <3>3. gs[n] = fs[n] /\ UptoOf(gs, n - 1) = UptoOf(fs, n - 1) /\ EndedOf(gs, n - 1) = EndedOf(fs, n - 1)
      BY <1>2, <1>5, <3>1
    <3>4. \A k \in 1..(n - 1) : GoesOn(gs, n, k) <=> GoesOn(fs, n, k)
      <4>1. \A k \in 1..(n - 1) : (LastOf(gs, k, n - 1) <=> LastOf(fs, k, n - 1)) /\ gs[k] = fs[k]
        BY <1>2, <1>6, <3>1
      <4> QED
        BY <3>3, <4>1 DEF GoesOn
    <3> QED
      BY <3>2, <3>3, <3>4, Zenon DEF AsMeant
  <2> QED
    BY <2>1, <2>2
<1>12. WellMeant(gs)
  BY <1>2, <1>10, <1>11 DEF WellMeant
<1> QED
  BY <1>2, <1>5, <1>6, <1>7, <1>9, <1>12 DEF N, OneMore

\* What has been sent.
LEMMA FramesAre ==
  ASSUME FramesInv
  PROVE  /\ Len(frames) \in Nat /\ DOMAIN frames = 1..Len(frames)
         /\ \A n \in 1..Len(frames) :
              frames[n] \in Frame /\ AsMeant(frames, n)
              /\ Upto(n) = Upto(n - 1) + FrameSize(frames[n])
              /\ Ended(n) = Ended(n - 1) + (IF frames[n].fin THEN 1 ELSE 0)
              /\ Upto(n) = frames[n].meant.end /\ Ended(n) = frames[n].meant.nth
              /\ n - 1 \in 0..Len(frames) /\ n \in 0..Len(frames)
              /\ FrameSize(frames[n]) \in Nat
         /\ \A n \in 0..Len(frames) : Upto(n) \in Nat /\ Ended(n) \in Nat
         /\ \A m, n \in 0..Len(frames) : m < n => Upto(m) < Upto(n) /\ Ended(m) <= Ended(n)
         /\ parsed \in 0..Len(frames)
<1>1. Len(frames) \in Nat /\ DOMAIN frames = 1..Len(frames)
  BY LenProperties DEF FramesInv, WellMeant
<1>2. \A n \in 1..Len(frames) : frames[n] \in Frame /\ AsMeant(frames, n)
  BY ElementOfSeq DEF FramesInv, WellMeant
<1>3. \A n : Upto(n) = UptoOf(frames, n) /\ Ended(n) = EndedOf(frames, n)
  BY DEF Upto, UptoOf, Ended, EndedOf
<1>4. \A m, n \in 0..Len(frames) : m < n => Upto(m) < Upto(n) /\ Ended(m) <= Ended(n)
  BY <1>3 DEF FramesInv, WellMeant
<1>5. ASSUME NEW n \in 1..Len(frames)
      PROVE  /\ Upto(n) = Upto(n - 1) + FrameSize(frames[n])
             /\ Ended(n) = Ended(n - 1) + (IF frames[n].fin THEN 1 ELSE 0)
             /\ Upto(n) = frames[n].meant.end /\ Ended(n) = frames[n].meant.nth
             /\ n - 1 \in 0..Len(frames) /\ n \in 0..Len(frames)
             /\ FrameSize(frames[n]) \in Nat
             /\ Upto(n) \in Nat /\ Ended(n) \in Nat
  <2>1. n # 0 /\ n - 1 \in 0..Len(frames) /\ n \in 0..Len(frames)
    BY <1>1
  <2>2. Upto(n) = frames[n].meant.end /\ Ended(n) = frames[n].meant.nth
    BY <2>1 DEF Upto, Ended
  <2>3. /\ frames[n].meant.end = Upto(n - 1) + FrameSize(frames[n])
        /\ frames[n].meant.nth = Ended(n - 1) + (IF frames[n].fin THEN 1 ELSE 0)
    BY <1>2, <1>3, Zenon DEF AsMeant
  <2>4. FrameSize(frames[n]) \in Nat
    <3>1. frames[n].head \in Nat /\ Len(frames[n].payload) \in Nat
      BY <1>2, LenProperties DEF Frame
    <3> QED
      BY <3>1 DEF FrameSize
  <2>5. frames[n].meant.end \in Nat /\ frames[n].meant.nth \in Nat
    BY <1>2 DEF Frame, Meaning
  <2> QED
    BY <2>1, <2>2, <2>3, <2>4, <2>5
<1>6. \A n \in 0..Len(frames) : Upto(n) \in Nat /\ Ended(n) \in Nat
  <2>1. Upto(0) = 0 /\ Ended(0) = 0
    BY DEF Upto, Ended
  <2>2. \A n \in 0..Len(frames) : n = 0 \/ n \in 1..Len(frames)
    BY <1>1
  <2> QED
    BY <1>5, <2>1, <2>2
<1> QED
  BY <1>1, <1>2, <1>4, <1>5, <1>6 DEF FramesInv, ParsedSo

\* It says what it says of itself.
LEMMA FramesTold ==
  ASSUME FramesInv
  PROVE  FramesTrue
<1>1. Len(sink) = Ended(parsed)
  BY DEF FramesInv, ParsedSo
<1>2. \A n \in 1..parsed : frames[n].fin => Logged(n)
  BY DEF FramesInv, ParsedSo
<1>3. ASSUME ~Here, NEW n \in (parsed + 1)..Len(frames) PROVE arrived < frames[n].meant.end
  <2>1. /\ Len(frames) \in Nat /\ parsed \in 0..Len(frames) /\ parsed < Len(frames)
        /\ n \in 1..Len(frames) /\ n \in 0..Len(frames) /\ parsed + 1 \in 1..Len(frames) /\ parsed + 1 \in 0..Len(frames)
        /\ (parsed + 1) - 1 = parsed
        /\ (n = parsed + 1 \/ parsed + 1 < n)
    <3>1. Len(frames) \in Nat /\ parsed \in 0..Len(frames)
      BY FramesAre
    <3>2. n \in (parsed + 1)..Len(frames)
      BY <1>3
    <3> HIDE DEF FramesInv
    <3> QED
      BY <3>1, <3>2
  <2>2. /\ Upto(parsed + 1) = Upto(parsed) + FrameSize(frames[parsed + 1])
        /\ FrameSize(frames[parsed + 1]) \in Nat /\ Upto(n) = frames[n].meant.end
        /\ Upto(parsed) \in Nat /\ Upto(n) \in Nat /\ Upto(parsed + 1) \in Nat
        /\ (n = parsed + 1 \/ Upto(parsed + 1) < Upto(n))
    BY <2>1, FramesAre
  <2>3. ~(buf >= FrameSize(frames[parsed + 1])) /\ buf = arrived - Upto(parsed) /\ arrived \in Nat
    BY <1>3, <2>1 DEF Here, FramesInv, ParsedSo
  <2>4. arrived < Upto(parsed + 1)
    BY <2>2, <2>3
  <2>5. arrived < Upto(n)
    BY <2>2, <2>3, <2>4
  <2> QED
    BY <2>2, <2>5
<1> QED
  BY <1>1, <1>2, <1>3 DEF FramesTrue, Logged

\* The peer sends a frame of a message, or a control frame; what has been parsed is as it was.
LEMMA SendsKeeps ==
  ASSUME FramesInv, UNCHANGED <<arrived, parser>>,
         NEW op \in Opcode, NEW fin \in BOOLEAN, NEW head \in Nat \ {0}, NEW payload \in Seq(Byte),
         NEW of, of.op \in Opcode, of.payload \in Seq(Byte), NEW sent \in Nat,
         Sends(op, fin, head, payload, of, sent),
         op \in Control => fin /\ of.op = op /\ of.payload = payload,
         op \notin Control => of.op \in DataOps /\ sent <= Len(of.payload) /\ (fin => sent = Len(of.payload)),
         op \in DataOps => of.op = op /\ payload = SubSeq(of.payload, 1, sent),
         op = "continuation" => \E k \in 1..Len(frames) :
           /\ LastOf(frames, k, Len(frames)) /\ ~frames[k].fin
           /\ of.op = frames[k].meant.op /\ of.payload = frames[k].meant.payload
           /\ frames[k].meant.sent <= sent
           /\ payload = SubSeq(of.payload, frames[k].meant.sent + 1, sent)
  PROVE  FramesInv'
<1> DEFINE N == Len(frames)
           end == Upto(N) + head + Len(payload)
           nth == Ended(N) + (IF fin THEN 1 ELSE 0)
           meant == [op |-> of.op, payload |-> of.payload, sent |-> sent, nth |-> nth, end |-> end]
           f == [op |-> op, fin |-> fin, head |-> head, payload |-> payload, meant |-> meant]
<1>1. frames' = Append(frames, f)
  BY DEF Sends
<1>2. /\ N \in Nat /\ Upto(N) \in Nat /\ Ended(N) \in Nat /\ Len(payload) \in Nat
      /\ Upto(N) = UptoOf(frames, N) /\ Ended(N) = EndedOf(frames, N)
      /\ parsed \in 0..N
  <2>1. N \in 0..N /\ N \in Nat
    BY FramesAre
  <2> QED
    BY <2>1, FramesAre, LenProperties DEF Upto, UptoOf, Ended, EndedOf
<1>3. meant \in Meaning
  <2>1. end \in Nat /\ nth \in Nat
    BY <1>2
  <2> HIDE DEF end, nth
  <2> QED
    BY <2>1 DEF Meaning
<1>4. f \in Frame
  <2> HIDE DEF meant
  <2> QED
    BY <1>3 DEF Frame
<1>5. /\ f.op = op /\ f.fin = fin /\ f.head = head /\ f.payload = payload
      /\ f.meant.op = of.op /\ f.meant.payload = of.payload /\ f.meant.sent = sent
      /\ f.meant.nth = nth /\ f.meant.end = end
  OBVIOUS
<1> HIDE DEF f, meant, end, nth
<1>6. PICK gs : gs = Append(frames, f)
  OBVIOUS
<1>7. gs[N + 1] = f /\ \A n \in 1..N : gs[n] = frames[n]
  BY <1>4, <1>6, AppendProperties DEF FramesInv, WellMeant
<1>8. UptoOf(gs, N) = UptoOf(frames, N) /\ EndedOf(gs, N) = EndedOf(frames, N)
  BY <1>2, <1>7 DEF UptoOf, EndedOf
<1>9. op = "continuation" => \E k \in 1..N : GoesOn(gs, N + 1, k)
  <2> SUFFICES ASSUME op = "continuation" PROVE \E k \in 1..N : GoesOn(gs, N + 1, k)
    OBVIOUS
  <2>1. PICK k \in 1..N :
          /\ LastOf(frames, k, N) /\ ~frames[k].fin
          /\ of.op = frames[k].meant.op /\ of.payload = frames[k].meant.payload
          /\ frames[k].meant.sent <= sent
          /\ payload = SubSeq(of.payload, frames[k].meant.sent + 1, sent)
    OBVIOUS
  <2>2. \A j \in (k + 1)..N : j \in 1..N
    BY <1>2
  <2>3. LastOf(gs, k, N)
    BY <1>7, <2>1, <2>2 DEF LastOf
  <2>4. (N + 1) - 1 = N /\ gs[k] = frames[k]
    BY <1>2, <1>7
  <2> QED
    BY <1>5, <1>7, <2>1, <2>3, <2>4 DEF GoesOn
<1>10. AsMeant(gs, N + 1)
  <2>1. (N + 1) - 1 = N
    BY <1>2
  <2>2. f.meant.end = UptoOf(gs, N) + FrameSize(f) /\ f.meant.nth = EndedOf(gs, N) + (IF f.fin THEN 1 ELSE 0)
    <3>1. FrameSize(f) = head + Len(payload) /\ UptoOf(gs, N) = Upto(N) /\ EndedOf(gs, N) = Ended(N)
      BY <1>2, <1>5, <1>8 DEF FrameSize
    <3> QED
      BY <1>2, <1>5, <3>1 DEF end, nth
  <2> QED
    BY <1>5, <1>7, <1>9, <2>1, <2>2 DEF AsMeant
<1>11. /\ WellMeant(gs) /\ Len(gs) = N + 1
       /\ \A n \in 0..N : UptoOf(gs, n) = UptoOf(frames, n) /\ EndedOf(gs, n) = EndedOf(frames, n)
       /\ \A n \in 0..N : \A k : LastOf(gs, k, n) <=> LastOf(frames, k, n)
       /\ UptoOf(gs, N + 1) \in Nat /\ UptoOf(gs, N) < UptoOf(gs, N + 1)
  <2>1. WellMeant(frames) /\ N + 1 \in 0..(N + 1)
    BY <1>2 DEF FramesInv
  <2>2. /\ WellMeant(gs) /\ Len(gs) = N + 1
        /\ \A n \in 0..N : UptoOf(gs, n) = UptoOf(frames, n) /\ EndedOf(gs, n) = EndedOf(frames, n)
        /\ \A n \in 0..N : \A k : LastOf(gs, k, n) <=> LastOf(frames, k, n)
        /\ \A n \in 0..(N + 1) : UptoOf(gs, n) \in Nat /\ EndedOf(gs, n) \in Nat
        /\ UptoOf(gs, N) < UptoOf(gs, N + 1)
    <3>1. OneMore(frames, gs)
      BY <1>4, <1>6, <1>10, <2>1, FrameAdded
    <3> QED
      BY <3>1 DEF OneMore
  <2> QED
    BY <2>1, <2>2
<1>12. frames' = gs
  BY <1>1, <1>6
<1>13. ParsedSo'
  <2>1. /\ arrived' = arrived /\ parsed' = parsed /\ buf' = buf /\ msgOp' = msgOp /\ msg' = msg
        /\ msgLen' = msgLen /\ sink' = sink
    BY DEF parser
  <2>2. \A n : Upto(n)' = UptoOf(gs, n) /\ Ended(n)' = EndedOf(gs, n)
    BY <1>12 DEF Upto, UptoOf, Ended, EndedOf
  <2>3. \A n : Upto(n) = UptoOf(frames, n) /\ Ended(n) = EndedOf(frames, n)
    BY DEF Upto, UptoOf, Ended, EndedOf
  <2>4. Upto(parsed)' = Upto(parsed) /\ Ended(parsed)' = Ended(parsed)
    <3>1. UptoOf(gs, parsed) = UptoOf(frames, parsed) /\ EndedOf(gs, parsed) = EndedOf(frames, parsed)
      BY <1>2, <1>11
    <3>2. Upto(parsed)' = UptoOf(gs, parsed) /\ Ended(parsed)' = EndedOf(gs, parsed)
      BY <1>12, <2>1 DEF Upto, UptoOf, Ended, EndedOf
    <3> QED
      BY <2>3, <3>1, <3>2
  <2>5. parsed \in 0..(N + 1) /\ arrived \in Nat /\ arrived <= UptoOf(gs, N + 1)
    <3>1. arrived \in Nat /\ arrived <= Upto(N)
      BY DEF FramesInv, ParsedSo
    <3> QED
      BY <1>2, <1>8, <1>11, <3>1
  <2>6. Upto(Len(frames))' = UptoOf(gs, N + 1)
    BY <1>11, <1>12 DEF Upto, UptoOf
  <2>7. \A d \in 1..parsed : frames'[d] = frames[d]
    BY <1>2, <1>7, <1>12
  <2>8. \A d \in 1..parsed : LastOf(frames', d, parsed) /\ ~frames'[d].fin => HasRead(d)'
    <3>1. \A d \in 1..parsed : LastOf(gs, d, parsed) <=> LastOf(frames, d, parsed)
      BY <1>2, <1>11
    <3>2. \A d \in 1..parsed : LastOf(frames, d, parsed) /\ ~frames[d].fin => HasRead(d)
      BY DEF FramesInv, ParsedSo
    <3> QED
      BY <1>12, <2>1, <2>7, <3>1, <3>2 DEF HasRead
  <2>9. \A n \in 1..parsed : frames'[n].fin => Logged(n)'
    <3>1. \A n \in 1..parsed : frames[n].fin => Logged(n)
      BY DEF FramesInv, ParsedSo
    <3> QED
      BY <2>1, <2>7, <3>1 DEF Logged
  <2>10. /\ Upto(parsed) <= arrived /\ buf = arrived - Upto(parsed)
         /\ msgOp \in Opcode \cup {""} /\ msg \in Seq(Byte) /\ msgLen \in Nat
         /\ sink \in Seq(Entry) /\ Len(sink) = Ended(parsed)
    BY DEF FramesInv, ParsedSo
  <2>11. Len(frames') = N + 1
    BY <1>11, <1>12
  <2> QED
    BY <2>1, <2>4, <2>5, <2>6, <2>8, <2>9, <2>10, <2>11 DEF ParsedSo
<1> QED
  BY <1>11, <1>12, <1>13 DEF FramesInv

\* Payloads are sequences of bytes.
LEMMA PayloadsAre ==
  ASSUME NEW payload \in Payloads
  PROVE  payload \in Seq(Byte)
<1> DEFINE own == {payload[i] : i \in 1..Len(payload)}
<1>1. payload \in Seq(own) /\ own \subseteq Byte
  BY FramesAssumption DEF FramesAssumption, Byte
<1> HIDE DEF own
<1>2. DOMAIN payload = 1..Len(payload) /\ Len(payload) \in Nat /\ payload \in [1..Len(payload) -> own]
  BY <1>1
<1>3. payload \in [1..Len(payload) -> Byte]
  BY <1>1, <1>2
<1> QED
  BY <1>2, <1>3

\* The peer sends.
LEMMA SendKeeps ==
  ASSUME FramesInv, Send
  PROVE  FramesInv'
<1>1. PICK head \in Heads, fin \in BOOLEAN :
        \/ \E op \in Control, payload \in Payloads : SendControl(op, head, payload)
        \/ \E op \in {"text", "binary"}, payload \in Payloads : \E n \in 0..Len(payload) :
             SendFirst(op, head, payload, n, fin)
        \/ \E n \in 0..(IF UnderWay THEN Len(frames[LastData].meant.payload) ELSE 0) : SendNext(head, n, fin)
  BY DEF Send
<1>2. UNCHANGED <<arrived, parser>>
  BY DEF Send
<1>3. head \in Nat \ {0}
  BY FramesAssumption DEF FramesAssumption
<1>4. "continuation" \notin Control /\ "continuation" \notin DataOps /\ Control \cap DataOps = {}
  BY DEF Control, DataOps
<1>5. ASSUME NEW op \in Control, NEW payload \in Payloads, SendControl(op, head, payload)
      PROVE  FramesInv'
  <2> DEFINE of == [op |-> op, payload |-> payload]
  <2>1. of.op = op /\ of.payload = payload
    OBVIOUS
  <2>2. payload \in Seq(Byte) /\ op \in Opcode /\ Len(payload) \in Nat /\ op \notin DataOps /\ op # "continuation"
    BY <1>4, PayloadsAre, LenProperties DEF Opcode
  <2>3. Sends(op, TRUE, head, payload, of, Len(payload))
    BY <1>5 DEF SendControl
  <2> HIDE DEF of
  <2> QED
    BY <1>2, <1>3, <2>1, <2>2, <2>3, SendsKeeps
<1>6. ASSUME NEW op \in {"text", "binary"}, NEW payload \in Payloads, NEW n \in 0..Len(payload),
             SendFirst(op, head, payload, n, fin)
      PROVE  FramesInv'
  <2> DEFINE of == [op |-> op, payload |-> payload]
             part == SubSeq(payload, 1, n)
  <2>1. of.op = op /\ of.payload = payload
    OBVIOUS
  <2>2. payload \in Seq(Byte) /\ op \in Opcode /\ op \in DataOps /\ op \notin Control /\ op # "continuation"
    BY <1>4, PayloadsAre DEF Opcode, DataOps
  <2>3. n \in Nat /\ n <= Len(payload) /\ (fin => n = Len(payload)) /\ part \in Seq(Byte)
    BY <1>6, <2>2, LenProperties, PartFromStart DEF SendFirst
  <2>4. Sends(op, fin, head, part, of, n)
    BY <1>6 DEF SendFirst
  <2>5. part = SubSeq(of.payload, 1, n)
    BY <2>1
  <2> HIDE DEF of, part
  <2> QED
    BY <1>2, <1>3, <2>1, <2>2, <2>3, <2>4, <2>5, SendsKeeps
<1>7. ASSUME NEW n \in 0..(IF UnderWay THEN Len(frames[LastData].meant.payload) ELSE 0), SendNext(head, n, fin)
      PROVE  FramesInv'
  <2> DEFINE k == LastData
             of == frames[k].meant
             all == of.sent + n
             part == SubSeq(of.payload, of.sent + 1, all)
  <2>1. UnderWay /\ all <= Len(of.payload) /\ (fin => all = Len(of.payload))
        /\ Sends("continuation", fin, head, part, of, all)
    BY <1>7 DEF SendNext
  <2>2. DataFrames # {} /\ k = Latest(DataFrames) /\ ~frames[k].fin
    BY <2>1 DEF UnderWay, LastData, Latest
  <2>3. Len(frames) \in Nat /\ DOMAIN frames = 1..Len(frames) /\ DataFrames \in SUBSET (1..Len(frames))
    BY FramesAre DEF DataFrames
  <2>4. k \in DataFrames /\ \A j \in DataFrames : j <= k
    BY <2>2, <2>3, EndsAre
  <2> HIDE DEF k
  <2>5. k \in 1..Len(frames) /\ frames[k].op \notin Control
    BY <2>3, <2>4 DEF DataFrames
  <2>6. \A j \in (k + 1)..Len(frames) : frames[j].op \in Control
    <3> SUFFICES ASSUME NEW j \in (k + 1)..Len(frames), frames[j].op \notin Control PROVE FALSE
      OBVIOUS
    <3>1. j \in 1..Len(frames) /\ ~(j <= k)
      BY <2>3, <2>5
    <3> QED
      BY <2>3, <2>4, <3>1 DEF DataFrames
  <2>7. LastOf(frames, k, Len(frames))
    BY <2>5, <2>6 DEF LastOf
  <2>8. frames[k] \in Frame /\ AsMeant(frames, k)
    BY <2>5, FramesAre
  <2>9. of \in Meaning /\ of.op \in DataOps
    BY <2>5, <2>8 DEF AsMeant, Frame
  <2>10. of.op \in Opcode /\ of.payload \in Seq(Byte) /\ of.sent \in Nat /\ Len(of.payload) \in Nat
    BY <2>9, LenProperties DEF Meaning
  <2>11. n \in Nat
    BY <2>1, <2>10 DEF k
  <2>12. all \in Nat /\ of.sent <= all /\ all \in 0..Len(of.payload)
    BY <2>1, <2>10, <2>11
  <2>13. part \in Seq(Byte)
    BY <2>10, <2>12, PartIs
  <2>14. "continuation" \in Opcode
    BY DEF Opcode
  <2>15. of = frames[k].meant /\ part = SubSeq(of.payload, frames[k].meant.sent + 1, all)
    OBVIOUS
  <2> HIDE DEF of, all, part
  <2>16. \E d \in 1..Len(frames) :
           /\ LastOf(frames, d, Len(frames)) /\ ~frames[d].fin
           /\ of.op = frames[d].meant.op /\ of.payload = frames[d].meant.payload
           /\ frames[d].meant.sent <= all
           /\ part = SubSeq(of.payload, frames[d].meant.sent + 1, all)
    BY <2>2, <2>5, <2>7, <2>12, <2>15
  <2> QED
    BY <1>2, <1>3, <1>4, <2>1, <2>9, <2>10, <2>12, <2>13, <2>14, <2>16, SendsKeeps
<1> QED
  BY <1>1, <1>5, <1>6, <1>7

\* Bytes arrive.
LEMMA WriteKeeps ==
  ASSUME FramesInv, NEW n \in Nat, Write(n)
  PROVE  FramesInv'
<1>1. /\ arrived + n <= Upto(Len(frames)) /\ arrived' = arrived + n /\ buf' = buf + n
      /\ frames' = frames /\ parsed' = parsed /\ msgOp' = msgOp /\ msg' = msg /\ msgLen' = msgLen /\ sink' = sink
  BY DEF Write
<1>2. /\ parsed \in 0..Len(frames) /\ arrived \in Nat
      /\ Upto(parsed) <= arrived /\ buf = arrived - Upto(parsed)
      /\ msgOp \in Opcode \cup {""} /\ msg \in Seq(Byte) /\ msgLen \in Nat
      /\ \A d \in 1..parsed : LastOf(frames, d, parsed) /\ ~frames[d].fin => HasRead(d)
      /\ sink \in Seq(Entry) /\ Len(sink) = Ended(parsed)
      /\ \A m \in 1..parsed : frames[m].fin => Logged(m)
  BY DEF FramesInv, ParsedSo
<1>3. Upto(parsed) \in Nat
  BY FramesAre
<1>4. /\ Upto(parsed)' = Upto(parsed) /\ Ended(parsed)' = Ended(parsed)
      /\ Upto(Len(frames))' = Upto(Len(frames))
  BY <1>1 DEF Upto, Ended
<1>5. \A d : (HasRead(d)' <=> HasRead(d)) /\ (Logged(d)' <=> Logged(d))
  BY <1>1 DEF HasRead, Logged
<1>6. arrived' \in Nat /\ Upto(parsed) <= arrived' /\ buf' = arrived' - Upto(parsed) /\ arrived' <= Upto(Len(frames))
  <2> DEFINE u == Upto(parsed)
             w == Upto(Len(frames))
  <2>1. u \in Nat /\ arrived \in Nat /\ u <= arrived /\ buf = arrived - u /\ arrived + n <= w
        /\ arrived' = arrived + n /\ buf' = buf + n
    BY <1>1, <1>2, <1>3
  <2> HIDE DEF u, w
  <2>2. arrived' \in Nat /\ u <= arrived' /\ buf' = arrived' - u /\ arrived' <= w
    BY <2>1
  <2> QED
    BY <2>2 DEF u, w
<1>7. ParsedSo'
  BY <1>1, <1>2, <1>4, <1>5, <1>6 DEF ParsedSo
<1> QED
  BY <1>1, <1>7 DEF FramesInv

\* A frame is parsed: it ends the message it was meant to end, or the parser has read
\* on in the message it belongs to.
ReadsOn(f, of) ==
  /\ f = frames[parsed + 1] /\ of = f.meant
  /\ parsed' = parsed + 1 /\ buf' = buf - FrameSize(f) /\ UNCHANGED <<frames, arrived>>
  /\ msgOp' \in Opcode \cup {""} /\ msg' \in Seq(Byte) /\ msgLen' \in Nat
  /\ f.op \in Control => msgOp' = msgOp /\ msg' = msg /\ msgLen' = msgLen
  /\ f.op \notin Control /\ ~f.fin =>
       msgOp' = of.op /\ msgLen' = of.sent /\ msg' = Cut(SubSeq(of.payload, 1, of.sent))
  /\ f.fin => emit(of.op, IF of.op \in Control THEN of.payload ELSE Cut(of.payload), Len(of.payload))
  /\ ~f.fin => sink' = sink

\* A parser that reads on is where it should be.
LEMMA ParsedOn ==
  ASSUME FramesInv, Here, NEW f, NEW of, ReadsOn(f, of)
  PROVE  FramesInv'
<1> DEFINE N == Len(frames)
<1>10. PICK p : p = parsed + 1
  OBVIOUS
<1>1. p \in 1..N /\ p \in 0..N /\ parsed \in 0..N /\ p - 1 = parsed /\ N \in Nat /\ parsed \in Nat
  BY <1>10, FramesAre DEF Here
<1>6. f = frames[p] /\ of = f.meant /\ frames' = frames /\ arrived' = arrived /\ parsed' = p
  BY <1>10 DEF ReadsOn
<1>2. f \in Frame /\ AsMeant(frames, p) /\ of \in Meaning
  BY <1>6, <1>1, FramesAre DEF Frame
<1>3. /\ Upto(p) = Upto(parsed) + FrameSize(f) /\ FrameSize(f) \in Nat /\ Upto(parsed) \in Nat
      /\ Ended(p) = Ended(parsed) + (IF f.fin THEN 1 ELSE 0) /\ Ended(parsed) \in Nat
      /\ Ended(p) = of.nth
  BY <1>6, <1>1, FramesAre
<1>4. /\ arrived \in Nat /\ arrived <= Upto(N) /\ Upto(parsed) <= arrived /\ buf = arrived - Upto(parsed)
      /\ sink \in Seq(Entry) /\ Len(sink) = Ended(parsed)
      /\ \A n \in 1..parsed : frames[n].fin => Logged(n)
      /\ \A d \in 1..parsed : LastOf(frames, d, parsed) /\ ~frames[d].fin => HasRead(d)
  BY DEF FramesInv, ParsedSo
<1>5. Upto(p) <= arrived /\ buf' = arrived - Upto(p)
  <2>1. buf >= FrameSize(f) /\ buf' = buf - FrameSize(f)
    BY <1>6, <1>10 DEF Here, ReadsOn
  <2> DEFINE u == Upto(parsed)
             s == FrameSize(f)
             w == Upto(p)
  <2>2. u \in Nat /\ s \in Nat /\ w = u + s /\ arrived \in Nat /\ buf = arrived - u /\ buf >= s /\ buf' = buf - s
    BY <1>3, <1>4, <2>1
  <2> HIDE DEF u, s, w
  <2>3. w <= arrived /\ buf' = arrived - w
    BY <2>2
  <2> QED
    BY <2>3 DEF w
<1>7. Upto(parsed)' = Upto(p) /\ Ended(parsed)' = Ended(p) /\ Upto(Len(frames))' = Upto(N)
  BY <1>6 DEF Upto, Ended, ReadsOn
<1>8. ASSUME NEW d \in 1..p, LastOf(frames, d, p), ~frames[d].fin
      PROVE  HasRead(d)'
  <2>1. CASE f.op \in Control
    <3>1. d # p
      BY <1>6, <1>8, <2>1 DEF LastOf
    <3>2. d \in 1..parsed /\ \A j \in (d + 1)..parsed : j \in (d + 1)..p
      BY <1>1, <3>1
    <3>3. LastOf(frames, d, parsed)
      BY <1>8, <3>2 DEF LastOf
    <3>4. HasRead(d)
      BY <1>4, <1>8, <3>2, <3>3
    <3>5. frames' = frames /\ msgOp' = msgOp /\ msg' = msg /\ msgLen' = msgLen
      BY <1>6, <2>1 DEF ReadsOn
    <3> QED
      BY <3>4, <3>5 DEF HasRead
  <2>2. CASE f.op \notin Control
    <3>1. d = p
      <4>1. d # p => p \in (d + 1)..p
        BY <1>1
      <4> QED
        BY <1>6, <1>8, <2>2, <4>1 DEF LastOf
    <3>2. msgOp' = of.op /\ msgLen' = of.sent /\ msg' = Cut(SubSeq(of.payload, 1, of.sent))
      BY <1>6, <1>8, <2>2, <3>1 DEF ReadsOn
    <3>3. frames'[d].meant = of
      BY <1>6, <3>1
    <3> QED
      BY <3>2, <3>3 DEF HasRead
  <2> QED
    BY <2>1, <2>2
<1>9. sink' \in Seq(Entry) /\ Len(sink') = Ended(p) /\ \A n \in 1..p : frames[n].fin => Logged(n)'
  <2>1. \A n \in 1..p : n = p \/ n \in 1..parsed
    BY <1>1
  <2>2. CASE ~f.fin
    <3>1. sink' = sink /\ Ended(p) = Ended(parsed)
      <4>1. Ended(p) = Ended(parsed)
        BY <1>3, <2>2
      <4>2. sink' = sink
        BY <2>2, Zenon DEF ReadsOn
      <4> QED
        BY <4>1, <4>2
    <3>2. \A n \in 1..parsed : frames[n].fin => Logged(n)'
      BY <1>6, <1>4, <3>1 DEF Logged
    <3> QED
      BY <1>6, <1>4, <2>1, <2>2, <3>1, <3>2
  <2>3. CASE f.fin
    <3> DEFINE said == IF of.op \in Control THEN of.payload ELSE Cut(of.payload)
               entry == [seq |-> Len(sink) + 1, op |-> of.op, payload |-> said, len |-> Len(of.payload)]
    <3>1. sink' = Append(sink, entry)
      BY <2>3 DEF emit, ReadsOn
    <3>2. entry \in Entry
      <4>1. of.op \in Opcode /\ of.payload \in Seq(Byte) /\ Len(of.payload) \in Nat /\ Len(sink) + 1 \in Nat
        BY <1>2, <1>4, LenProperties DEF Meaning
      <4>2. said \in Seq(Byte)
        BY <4>1, CutIs
      <4> HIDE DEF said
      <4> QED
        BY <4>1, <4>2 DEF Entry
    <3>3. entry = [seq |-> Len(sink) + 1, op |-> of.op, len |-> Len(of.payload), payload |-> said]
      OBVIOUS
    <3> HIDE DEF entry
    <3>4. /\ sink' \in Seq(Entry) /\ Len(sink') = Len(sink) + 1 /\ sink'[Len(sink) + 1] = entry
          /\ \A i \in 1..Len(sink) : sink'[i] = sink[i]
      BY <1>4, <3>1, <3>2, AppendProperties
    <3>5. Len(sink) + 1 = of.nth /\ Len(sink') = Ended(p)
      BY <1>3, <1>4, <2>3, <3>4
    <3>6. ASSUME NEW n \in 1..parsed, frames[n].fin PROVE Logged(n)'
      <4>1. n \in 1..N /\ n \in 0..N /\ n - 1 \in 0..N /\ (n = parsed \/ n < parsed)
        BY <1>1
      <4>2. /\ Ended(n) = frames[n].meant.nth /\ Ended(n) = Ended(n - 1) + 1
            /\ Ended(n - 1) \in Nat /\ (n = parsed \/ Ended(n) <= Ended(parsed)) /\ Ended(n) \in Nat
        BY <1>1, <3>6, <4>1, FramesAre
      <4>3. frames[n].meant.nth \in 1..Len(sink)
        BY <1>3, <1>4, <4>2
      <4>4. Logged(n) /\ sink'[frames[n].meant.nth] = sink[frames[n].meant.nth]
        BY <1>4, <3>4, <3>6, <4>3
      <4> QED
        BY <1>6, <4>4 DEF Logged
    <3>7. Logged(p)'
      <4>1. sink'[of.nth] = [seq |-> of.nth, op |-> of.op, len |-> Len(of.payload), payload |-> said]
        BY <3>3, <3>4, <3>5
      <4>2. frames'[p].meant = of
        BY <1>6
      <4> QED
        BY <4>1, <4>2 DEF Logged
    <3> QED
      BY <2>1, <3>4, <3>5, <3>6, <3>7
  <2> QED
    BY <2>2, <2>3
<1>11. /\ parsed' \in 0..Len(frames') /\ arrived' \in Nat /\ arrived' <= Upto(Len(frames))'
       /\ Upto(parsed)' <= arrived' /\ buf' = arrived' - Upto(parsed)' /\ Len(sink') = Ended(parsed)'
  BY <1>1, <1>4, <1>5, <1>6, <1>7, <1>9
<1>12. /\ \A d \in 1..parsed' : LastOf(frames', d, parsed') /\ ~frames'[d].fin => HasRead(d)'
       /\ \A n \in 1..parsed' : frames'[n].fin => Logged(n)'
  BY <1>6, <1>8, <1>9
<1>13. msgOp' \in Opcode \cup {""} /\ msg' \in Seq(Byte) /\ msgLen' \in Nat
  BY DEF ReadsOn
<1>14. ParsedSo'
  BY <1>9, <1>11, <1>12, <1>13 DEF ParsedSo
<1>15. WellMeant(frames')
  BY <1>6 DEF FramesInv
<1> QED
  BY <1>14, <1>15 DEF FramesInv

\* A frame is parsed.
LEMMA ParseKeeps ==
  ASSUME FramesInv, parseOne
  PROVE  FramesInv'
<1>1. PICK f : f = frames[parsed + 1]
  OBVIOUS
<1>2. PICK of : of = f.meant
  OBVIOUS
<1>3. /\ Here /\ UNCHANGED <<frames, arrived>> /\ parsed' = parsed + 1 /\ buf' = buf - FrameSize(f)
      /\ \/ f.op \in Control /\ emit(f.op, f.payload, Len(f.payload)) /\ UNCHANGED <<msgOp, msg, msgLen>>
         \/ f.op = "continuation" /\ AppendTo(msgOp, msg, msgLen, f) /\ UNCHANGED msgOp
         \/ f.op \in {"text", "binary"} /\ AppendTo(f.op, <<>>, 0, f) /\ msgOp' = f.op
  BY <1>1 DEF parseOne
<1> DEFINE p == parsed + 1
<1>4. p \in 1..Len(frames) /\ p - 1 = parsed /\ parsed \in Nat
  BY <1>3, FramesAre, SMTT(60) DEF Here
<1>5. f \in Frame /\ AsMeant(frames, p) /\ of \in Meaning /\ f = frames[p]
  BY <1>1, <1>2, <1>4, FramesAre DEF Frame
<1>6. /\ of.op \in Opcode /\ of.payload \in Seq(Byte) /\ of.sent \in Nat /\ Len(of.payload) \in Nat
      /\ f.op \in Opcode /\ f.payload \in Seq(Byte) /\ f.fin \in BOOLEAN /\ Len(f.payload) \in Nat
  BY <1>5, LenProperties DEF Meaning, Frame
<1>7. msgOp \in Opcode \cup {""} /\ msg \in Seq(Byte) /\ msgLen \in Nat
  BY DEF FramesInv, ParsedSo
<1>8. /\ f.op \in Control => f.fin /\ of.op = f.op /\ of.payload = f.payload
      /\ f.op \notin Control =>
           of.op \in DataOps /\ of.sent <= Len(of.payload) /\ (f.fin => of.sent = Len(of.payload))
      /\ f.op \in DataOps => of.op = f.op /\ f.payload = SubSeq(of.payload, 1, of.sent)
      /\ f.op = "continuation" => \E k \in 1..parsed : GoesOn(frames, p, k)
  BY <1>2, <1>4, <1>5, Zenon DEF AsMeant
<1>9. "continuation" \notin Control /\ "continuation" \notin DataOps /\ Control \cap DataOps = {}
  BY DEF Control, DataOps
<1>10. CASE f.op \in Control /\ emit(f.op, f.payload, Len(f.payload)) /\ UNCHANGED <<msgOp, msg, msgLen>>
  <2>1. emit(of.op, IF of.op \in Control THEN of.payload ELSE Cut(of.payload), Len(of.payload))
    BY <1>8, <1>10
  <2> QED
    <3>1. ReadsOn(f, of)
      BY <1>1, <1>2, <1>3, <1>7, <1>8, <1>10, <2>1 DEF ReadsOn
    <3> QED
      BY <1>3, <3>1, ParsedOn
<1> DEFINE first == SubSeq(of.payload, 1, of.sent)
<1>11. f.op \notin Control => first \in Seq(Byte) /\ Len(first) = of.sent /\ (f.fin => first = of.payload)
  <2> SUFFICES ASSUME f.op \notin Control
               PROVE  first \in Seq(Byte) /\ Len(first) = of.sent /\ (f.fin => first = of.payload)
    OBVIOUS
  <2>1. of.sent \in 0..Len(of.payload)
    BY <1>6, <1>8
  <2>2. first \in Seq(Byte) /\ Len(first) = of.sent /\ \A m \in 1..of.sent : first[m] = of.payload[m]
    BY <1>6, <2>1, PartFromStart
  <2>3. ASSUME f.fin PROVE first = of.payload
    <3> DEFINE all == of.payload
    <3>1. /\ first \in Seq(Byte) /\ all \in Seq(Byte) /\ Len(first) = Len(all)
          /\ \A m \in 1..Len(all) : first[m] = all[m] /\ Len(all) \in Nat
      BY <1>6, <1>8, <2>2, <2>3
    <3> HIDE DEF first, all
    <3>2. first = all
      BY <3>1, SeqEqual
    <3> QED
      BY <3>2 DEF all
  <2> QED
    BY <2>2, <2>3
<1> HIDE DEF first
\* A data frame goes on from what has been read, or from nothing.
<1>12. ASSUME NEW op, op = of.op, NEW m \in Seq(Byte), NEW len \in Nat, f.op \notin Control,
              AppendTo(op, m, len, f), msgOp' = op,
              Cut(m \o f.payload) = Cut(first), len + Len(f.payload) = of.sent
       PROVE  FramesInv'
  <2>1. IF f.fin THEN emit(op, Cut(first), of.sent) /\ msg' = <<>> /\ msgLen' = 0
        ELSE msg' = Cut(first) /\ msgLen' = of.sent /\ sink' = sink
    BY <1>12 DEF AppendTo
  <2>2. msg' \in Seq(Byte) /\ msgLen' \in Nat /\ msgOp' \in Opcode \cup {""}
    <3>1. Cut(first) \in Seq(Byte) /\ <<>> \in Seq(Byte)
      BY <1>11, <1>12, CutIs
    <3>4. msgOp' \in Opcode \cup {""}
      BY <1>6, <1>12
    <3>2. CASE f.fin
      <4>1. msg' = <<>> /\ msgLen' = 0
        BY <2>1, <3>2, Zenon
      <4> QED
        BY <3>1, <3>4, <4>1
    <3>3. CASE ~f.fin
      BY <1>6, <1>12, <2>1, <3>1, <3>3
    <3> QED
      BY <3>2, <3>3
  <2>3. ~f.fin => msgOp' = of.op /\ msgLen' = of.sent /\ msg' = Cut(SubSeq(of.payload, 1, of.sent))
    BY <1>12, <2>1 DEF first
  <2>4. of.op \notin Control
    BY <1>8, <1>9, <1>12
  <2>5. IF f.fin THEN emit(of.op, IF of.op \in Control THEN of.payload ELSE Cut(of.payload), Len(of.payload))
        ELSE sink' = sink
    BY <1>8, <1>11, <1>12, <2>1, <2>4
  <2>6. ReadsOn(f, of)
    BY <1>1, <1>2, <1>3, <1>12, <2>2, <2>3, <2>5 DEF ReadsOn
  <2> QED
    BY <1>3, <2>6, ParsedOn
<1>13. CASE f.op = "continuation" /\ AppendTo(msgOp, msg, msgLen, f) /\ UNCHANGED msgOp
  <2>1. f.op \notin Control
    BY <1>9, <1>13
  <2>2. PICK k \in 1..parsed : GoesOn(frames, p, k)
    BY <1>8, <1>13
  <2> DEFINE sk == frames[k].meant.sent
  <2>3. /\ LastOf(frames, k, parsed) /\ ~frames[k].fin
        /\ of.op = frames[k].meant.op /\ of.payload = frames[k].meant.payload
        /\ sk <= of.sent /\ f.payload = SubSeq(of.payload, sk + 1, of.sent)
    BY <1>2, <1>4, <1>5, <2>2 DEF GoesOn
  <2>4. msgOp = of.op /\ msgLen = sk /\ msg = Cut(SubSeq(of.payload, 1, sk))
    <3>1. HasRead(k)
      BY <2>2, <2>3 DEF FramesInv, ParsedSo
    <3> QED
      BY <2>3, <3>1 DEF HasRead
  <2>5. sk \in Nat
    BY <1>7, <2>4
  <2> HIDE DEF sk
  <2>6. of.sent \in 0..Len(of.payload) /\ sk \in 0..Len(of.payload)
    BY <1>6, <1>8, <2>1, <2>3, <2>5
  <2>7. SubSeq(of.payload, 1, sk) \o f.payload = first
    BY <1>6, <2>3, <2>5, <2>6, PartsJoin, ZenonT(60) DEF first
  <2>8. SubSeq(of.payload, 1, sk) \in Seq(Byte)
    BY <1>6, <2>6, PartFromStart
  <2>9. Cut(msg \o f.payload) = Cut(first)
    <3>1. Cut(Cut(SubSeq(of.payload, 1, sk)) \o f.payload) = Cut(SubSeq(of.payload, 1, sk) \o f.payload)
      BY <1>6, <2>8, CutOnce
    <3> QED
      BY <2>4, <2>7, <3>1
  <2>10. msgLen + Len(f.payload) = of.sent
    <3>1. Len(f.payload) = of.sent - sk
      BY <1>6, <2>3, <2>5, <2>6, PartIs
    <3> QED
      BY <1>6, <2>4, <2>5, <3>1
  <2> QED
    BY <1>7, <1>12, <1>13, <2>1, <2>4, <2>9, <2>10
<1>14. CASE f.op \in {"text", "binary"} /\ AppendTo(f.op, <<>>, 0, f) /\ msgOp' = f.op
  <2>1. f.op \notin Control /\ of.op = f.op /\ f.payload = first
    BY <1>8, <1>9, <1>14 DEF DataOps, first
  <2>2. <<>> \in Seq(Byte) /\ <<>> \o f.payload = f.payload
    BY <1>6, EmptySeq, ConcatEmptySeq
  <2>3. 0 + Len(f.payload) = of.sent
    BY <1>6, <1>11, <2>1
  <2>4. Cut(<<>> \o f.payload) = Cut(first)
    BY <2>1, <2>2
  <2> QED
    BY <1>12, <1>14, <2>1, <2>2, <2>3, <2>4
<1> QED
  BY <1>3, <1>10, <1>13, <1>14

\* A step of the peer, the connection or the parser.
LEMMA FramesKeep ==
  ASSUME FramesInv, FramesNext
  PROVE  FramesInv'
<1>1. \A n \in Pieces : n \in Nat
  BY FramesAssumption DEF FramesAssumption
<1> QED
  BY <1>1, SendKeeps, WriteKeeps, ParseKeeps DEF FramesNext

-----------------------------------------------------------------------------
(* The listener. *)

\* A call of SetMobile.
Order == [op : {"on", "off"}, addr : MobileAddrs \cup {NotThere}, was : MobileAddrs \cup {NotThere}]

\* The calls; and the proxy takes for itself just the address it is open at, the one
\* of the LAN that is shown.
MobileType ==
  /\ orders \in Seq(Order) /\ mobileLn \in MobileAddrs \cup {NotThere}
  /\ DOMAIN selfIPs = {a.ip : a \in listening} /\ \A a \in listening : selfIPs[a.ip] = a.port
  /\ mobileLn # NotThere => mobileLAN = [ip |-> mobileLn.ip, name |-> mobileLAN.name]

\* The conjuncts of MobileTrue.
OwnAddr == [ip |-> Loopback, port |-> ProxyPort]
TakenTrue == \A a \in {orders[n].addr : n \in Asks} \cup {OwnAddr} : isSelf(a) <=> a \in listening \/ a = OwnAddr
OpenTrue ==
  mobileLn # NotThere => \E n \in Asks :
    /\ orders[n].addr = mobileLn
    /\ \A m \in DOMAIN orders : m > n => orders[m].op = "on" /\ (m \in Asks => orders[m].addr = mobileLn)
ClosedTrue ==
  mobileLn = NotThere /\ mobileLast # NotThere => \E n \in DOMAIN orders :
    orders[n].op = "off" /\ orders[n].was = mobileLast /\ \A m \in Asks : m < n
AnewTrue ==
  mobileLn = NotThere /\ mobileLast = NotThere => \A n \in DOMAIN orders :
    orders[n].op = "off" /\ orders[n].was # NotThere => \E m \in Asks : m > n
WarnedTrue ==
  mobileLn # NotThere => \A ifaces \in Interfaces :
    LET cur == Detect(ifaces) IN
    Warned(ifaces) <=> cur # NotThere /\ cur.name = mobileLAN.name /\ cur # mobileLAN
ListeningTrue == listening = (IF mobileLn = NotThere THEN {} ELSE {mobileLn}) /\ extra = listening

\* What is to be kept.
MobileInv == MobileType /\ ListeningTrue /\ OpenTrue /\ ClosedTrue /\ AnewTrue

\* What is found is an address, of a network with a name.
LEMMA DetectedIs ==
  ASSUME NEW ifaces
  PROVE  Detect(ifaces) # NotThere => Detect(ifaces) = [ip |-> Detect(ifaces).ip, name |-> Detect(ifaces).name]
<1> DEFINE cands == SelectSeq(ifaces, LAMBDA i : i.up /\ PrivateIPs(i) # <<>>)
           best == {n \in DOMAIN cands : \A m \in DOMAIN cands :
                      cands[n].rank < cands[m].rank \/ (cands[n].rank = cands[m].rank /\ n <= m)}
           i == cands[CHOOSE n \in best : TRUE]
<1>1. Detect(ifaces) = IF cands = <<>> THEN NotThere ELSE [ip |-> PrivateIPs(i)[1].ip, name |-> i.name]
  BY Zenon DEF Detect
<1> HIDE DEF cands, i
<1> QED
  BY <1>1

\* A LAN that was asked for or found has an address and a name.
LEMMA LanIs ==
  ASSUME NEW ip, NEW ifaces, LanOf(ip, ifaces) # NotThere
  PROVE  LanOf(ip, ifaces) = [ip |-> LanOf(ip, ifaces).ip, name |-> LanOf(ip, ifaces).name]
<1>1. CASE ip = NotThere
  BY <1>1, DetectedIs DEF LanOf
<1>2. CASE ip # NotThere
  BY <1>2 DEF LanOf
<1> QED
  BY <1>1, <1>2

\* An address is an IP and a port, and is something.
LEMMA AddressIs ==
  ASSUME NEW a \in MobileAddrs
  PROVE  a = [ip |-> a.ip, port |-> a.port] /\ a # NotThere
<1>1. a # NotThere
  BY MobileAssumption DEF MobileAssumption
<1>2. a = [ip |-> a.ip, port |-> a.port]
  <2>1. PICK b \in Asked : a = AddrOf(LanOf(b.ip, b.ifaces), b.port)
    BY DEF MobileAddrs
  <2>2. PICK ip, port : AddrOf(LanOf(b.ip, b.ifaces), b.port) = [ip |-> ip, port |-> port]
    BY DEF AddrOf
  <2> QED
    BY <2>1, <2>2
<1> QED
  BY <1>1, <1>2

\* It says what it says of itself.
LEMMA MobileIs ==
  ASSUME MobileInv
  PROVE  MobileTrue
<1>1. DOMAIN orders = 1..Len(orders) /\ \A n \in DOMAIN orders : orders[n] \in Order
  BY LenProperties, ElementOfSeq DEF MobileInv, MobileType
<1>2. ASSUME NEW a \in {orders[n].addr : n \in Asks} \cup {OwnAddr}
      PROVE  isSelf(a) <=> a \in listening \/ a = OwnAddr
  <2>1. a = [ip |-> a.ip, port |-> a.port]
    <3>1. CASE a = OwnAddr
      BY <3>1 DEF OwnAddr
    <3>2. CASE a \in {orders[n].addr : n \in Asks}
      <4>1. PICK n \in Asks : a = orders[n].addr
        BY <3>2
      <4>2. a \in MobileAddrs
        BY <1>1, <4>1 DEF Asks, Order
      <4> QED
        BY <4>2, AddressIs
    <3> QED
      BY <3>1, <3>2
  <2>2. a.port = ProxyPort /\ a.ip = Loopback <=> a = OwnAddr
    BY <2>1 DEF OwnAddr
  <2>3. a.ip \in DOMAIN selfIPs /\ selfIPs[a.ip] = a.port <=> a \in listening
    <3>1. CASE mobileLn = NotThere
      <4>1. listening = {} /\ DOMAIN selfIPs = {}
        BY <3>1 DEF MobileInv, MobileType, ListeningTrue
      <4> QED
        BY <4>1
    <3>2. CASE mobileLn # NotThere
      <4>1. listening = {mobileLn} /\ DOMAIN selfIPs = {mobileLn.ip} /\ selfIPs[mobileLn.ip] = mobileLn.port
        BY <3>2 DEF MobileInv, MobileType, ListeningTrue
      <4>2. mobileLn = [ip |-> mobileLn.ip, port |-> mobileLn.port]
        BY <3>2, AddressIs DEF MobileInv, MobileType
      <4> QED
        BY <2>1, <4>1, <4>2
    <3> QED
      BY <3>1, <3>2
  <2> QED
    BY <2>2, <2>3 DEF isSelf
<1>3. ASSUME mobileLn # NotThere, NEW ifaces \in Interfaces, NEW cur, cur = Detect(ifaces)
      PROVE  Warned(ifaces) <=> cur # NotThere /\ cur.name = mobileLAN.name /\ cur # mobileLAN
  <2>1. Warned(ifaces) <=> cur # NotThere /\ cur.ip # mobileLn.ip /\ cur.name = mobileLAN.name
    BY <1>3 DEF Warned
  <2>2. mobileLAN = [ip |-> mobileLn.ip, name |-> mobileLAN.name]
    BY <1>3 DEF MobileInv, MobileType
  <2>3. cur # NotThere => cur = [ip |-> cur.ip, name |-> cur.name]
    BY <1>3, DetectedIs, Zenon
  <2>4. cur # NotThere /\ cur.name = mobileLAN.name => (cur.ip = mobileLn.ip <=> cur = mobileLAN)
    BY <2>2, <2>3
  <2> QED
    BY <2>1, <2>4
<1>4. WarnedTrue
  BY <1>3, Zenon DEF WarnedTrue
<1>5. TakenTrue
  BY <1>2 DEF TakenTrue
<1>6. ListeningTrue /\ OpenTrue /\ ClosedTrue /\ AnewTrue
  BY DEF MobileInv
<1> QED
  BY <1>4, <1>5, <1>6, Zenon DEF MobileTrue, ListeningTrue, OpenTrue, ClosedTrue, AnewTrue, TakenTrue, WarnedTrue, OwnAddr

\* One order more.
LEMMA OrdersGrow ==
  ASSUME orders \in Seq(Order), NEW op \in {"on", "off"}, NEW addr \in MobileAddrs \cup {NotThere},
         mobileLn \in MobileAddrs \cup {NotThere}, Ordered(op, addr)
  PROVE  /\ orders' \in Seq(Order) /\ Len(orders) \in Nat
         /\ DOMAIN orders = 1..Len(orders) /\ DOMAIN orders' = 1..(Len(orders) + 1)
         /\ orders'[Len(orders) + 1].op = op /\ orders'[Len(orders) + 1].addr = addr
         /\ orders'[Len(orders) + 1].was = mobileLn
         /\ \A n \in DOMAIN orders : orders'[n] = orders[n] /\ n \in DOMAIN orders' /\ n < Len(orders) + 1
         /\ \A n \in DOMAIN orders' : n \in DOMAIN orders \/ n = Len(orders) + 1
         /\ Asks' = IF op = "on" /\ addr # NotThere THEN Asks \cup {Len(orders) + 1} ELSE Asks
         /\ Asks \subseteq DOMAIN orders
<1> DEFINE o == [op |-> op, addr |-> addr, was |-> mobileLn]
           k == Len(orders)
<1>1. o \in Order /\ orders' = Append(orders, o) /\ o.op = op /\ o.addr = addr /\ o.was = mobileLn
  BY DEF Order, Ordered
<1> HIDE DEF o
<1>2. /\ orders' \in Seq(Order) /\ k \in Nat /\ DOMAIN orders = 1..k /\ DOMAIN orders' = 1..(k + 1)
      /\ orders'[k + 1] = o /\ \A n \in 1..k : orders'[n] = orders[n]
  BY <1>1, AppendProperties, LenProperties
<1>3. \A n \in 1..k : n \in 1..(k + 1) /\ n < k + 1 /\ n # k + 1
  BY <1>2
<1>4. \A n \in 1..(k + 1) : n \in 1..k \/ n = k + 1
  BY <1>2
<1>5. k + 1 \in 1..(k + 1)
  BY <1>2
<1>6. \A n : n \in Asks' <=> (n \in Asks \/ (n = k + 1 /\ op = "on" /\ addr # NotThere))
  BY <1>1, <1>2, <1>3, <1>4, <1>5 DEF Asks
<1>7. Asks' = IF op = "on" /\ addr # NotThere THEN Asks \cup {k + 1} ELSE Asks
  BY <1>6
<1> QED
  BY <1>1, <1>2, <1>3, <1>4, <1>7 DEF Asks

\* What is left when the listener is removed.
LEMMA RemovedIs ==
  ASSUME MobileInv
  PROVE  Removed.all = {} /\ Removed.open = {} /\ DOMAIN Removed.ips = {}
<1>1. CASE mobileLn = NotThere
  <2>1. listening = {} /\ extra = {} /\ DOMAIN selfIPs = {}
    BY <1>1 DEF MobileInv, MobileType, ListeningTrue
  <2> QED
    BY <1>1, <2>1 DEF Removed
<1>2. CASE mobileLn # NotThere
  <2>1. listening = {mobileLn} /\ extra = {mobileLn} /\ DOMAIN selfIPs = {mobileLn.ip}
    BY <1>2 DEF MobileInv, MobileType, ListeningTrue
  <2> QED
    BY <1>2, <2>1 DEF Removed, Restrict
<1> QED
  BY <1>1, <1>2

\* It is turned off.
LEMMA TurnOffKeeps ==
  ASSUME MobileInv, TurnOff
  PROVE  MobileInv'
<1> DEFINE k == Len(orders)
<1>1. /\ orders' \in Seq(Order) /\ k \in Nat
      /\ DOMAIN orders = 1..k /\ DOMAIN orders' = 1..(k + 1)
      /\ orders'[k + 1].op = "off" /\ orders'[k + 1].was = mobileLn
      /\ \A n \in DOMAIN orders : orders'[n] = orders[n] /\ n \in DOMAIN orders' /\ n < k + 1
      /\ \A n \in DOMAIN orders' : n \in DOMAIN orders \/ n = k + 1
      /\ Asks' = Asks /\ Asks \subseteq DOMAIN orders
  BY OrdersGrow DEF MobileInv, MobileType, TurnOff
<1>2. /\ extra' = {} /\ listening' = {} /\ DOMAIN selfIPs' = {}
      /\ mobileLn' = NotThere
      /\ IF mobileLn = NotThere THEN mobileLast' = mobileLast /\ mobileLAN' = mobileLAN
         ELSE mobileLast' = mobileLn
  BY RemovedIs DEF TurnOff, RemoveListener
<1>3. MobileType'
  BY <1>1, <1>2 DEF MobileType
<1>4. ListeningTrue' /\ OpenTrue'
  BY <1>2 DEF ListeningTrue, OpenTrue
<1>5. ClosedTrue'
  <2>1. CASE mobileLn = NotThere
    <3>1. ASSUME mobileLast' # NotThere
          PROVE  \E n \in DOMAIN orders' :
                   orders'[n].op = "off" /\ orders'[n].was = mobileLast' /\ \A m \in Asks' : m < n
      <4>1. mobileLast' = mobileLast
        BY <1>2, <2>1
      <4>2. PICK n \in DOMAIN orders : orders[n].op = "off" /\ orders[n].was = mobileLast /\ \A m \in Asks : m < n
        BY <2>1, <3>1, <4>1 DEF MobileInv, ClosedTrue
      <4> QED
        BY <1>1, <4>1, <4>2
    <3> QED
      BY <3>1 DEF ClosedTrue
  <2>2. CASE mobileLn # NotThere
    <3>1. k + 1 \in DOMAIN orders' /\ orders'[k + 1].was = mobileLast' /\ \A m \in Asks' : m < k + 1
      BY <1>1, <1>2, <2>2
    <3> QED
      BY <1>1, <3>1 DEF ClosedTrue
  <2> QED
    BY <2>1, <2>2
<1>6. AnewTrue'
  <2>1. CASE mobileLn = NotThere
    <3>1. ASSUME mobileLast' = NotThere, NEW n \in DOMAIN orders', orders'[n].op = "off", orders'[n].was # NotThere
          PROVE  \E m \in Asks' : m > n
      <4>1. n # k + 1
        BY <1>1, <2>1, <3>1
      <4>2. n \in DOMAIN orders /\ orders'[n] = orders[n] /\ mobileLast = NotThere
        BY <1>1, <1>2, <2>1, <3>1, <4>1
      <4>3. \E m \in Asks : m > n
        BY <2>1, <3>1, <4>2 DEF MobileInv, AnewTrue
      <4> QED
        BY <1>1, <4>3
    <3> QED
      BY <3>1 DEF AnewTrue
  <2>2. CASE mobileLn # NotThere
    BY <1>2, <2>2 DEF AnewTrue
  <2> QED
    BY <2>1, <2>2
<1> QED
  BY <1>3, <1>4, <1>5, <1>6 DEF MobileInv

\* It is to be turned on, and there is nothing to listen on.
LEMMA NowhereKeeps ==
  ASSUME MobileInv, Ordered("on", NotThere),
         UNCHANGED <<mobileLn, mobileLAN, mobileLast, listening, extra, selfIPs>>
  PROVE  MobileInv'
<1> DEFINE k == Len(orders)
<1>1. /\ orders' \in Seq(Order) /\ k \in Nat
      /\ DOMAIN orders = 1..k /\ DOMAIN orders' = 1..(k + 1)
      /\ orders'[k + 1].op = "on"
      /\ \A n \in DOMAIN orders : orders'[n] = orders[n] /\ n \in DOMAIN orders' /\ n < k + 1
      /\ \A n \in DOMAIN orders' : n \in DOMAIN orders \/ n = k + 1
      /\ Asks' = Asks /\ Asks \subseteq DOMAIN orders
  BY OrdersGrow DEF MobileInv, MobileType
<1>2. MobileType' /\ ListeningTrue'
  BY <1>1 DEF MobileInv, MobileType, ListeningTrue
<1>3. OpenTrue'
  <2>1. ASSUME mobileLn # NotThere
        PROVE  \E n \in Asks' :
                 /\ orders'[n].addr = mobileLn
                 /\ \A m \in DOMAIN orders' : m > n => orders'[m].op = "on" /\ (m \in Asks' => orders'[m].addr = mobileLn)
    <3>1. PICK n \in Asks :
            /\ orders[n].addr = mobileLn
            /\ \A m \in DOMAIN orders : m > n => orders[m].op = "on" /\ (m \in Asks => orders[m].addr = mobileLn)
      BY <2>1 DEF MobileInv, OpenTrue
    <3>2. k + 1 \notin Asks'
      BY <1>1
    <3> QED
      BY <1>1, <3>1, <3>2
  <2> QED
    BY <2>1 DEF OpenTrue
<1>4. ClosedTrue'
  <2>1. ASSUME mobileLn = NotThere, mobileLast # NotThere
        PROVE  \E n \in DOMAIN orders' :
                 orders'[n].op = "off" /\ orders'[n].was = mobileLast /\ \A m \in Asks' : m < n
    <3>1. PICK n \in DOMAIN orders : orders[n].op = "off" /\ orders[n].was = mobileLast /\ \A m \in Asks : m < n
      BY <2>1 DEF MobileInv, ClosedTrue
    <3> QED
      BY <1>1, <3>1
  <2> QED
    BY <2>1 DEF ClosedTrue
<1>5. AnewTrue'
  <2>1. ASSUME mobileLn = NotThere, mobileLast = NotThere,
               NEW n \in DOMAIN orders', orders'[n].op = "off", orders'[n].was # NotThere
        PROVE  \E m \in Asks' : m > n
    <3>1. n \in DOMAIN orders /\ orders'[n] = orders[n]
      BY <1>1, <2>1
    <3>2. \E m \in Asks : m > n
      BY <2>1, <3>1 DEF MobileInv, AnewTrue
    <3> QED
      BY <1>1, <3>2
  <2> QED
    BY <2>1 DEF AnewTrue
<1> QED
  BY <1>2, <1>3, <1>4, <1>5 DEF MobileInv

\* It is turned on at an address it has, or could not have, or gets.
LEMMA TurnOnKeeps ==
  ASSUME MobileInv, NEW a \in Asked, NEW free \in BOOLEAN, TurnOn(LanOf(a.ip, a.ifaces), a.port, free)
  PROVE  MobileInv'
<1> DEFINE lan == LanOf(a.ip, a.ifaces)
           addr == AddrOf(lan, a.port)
           k == Len(orders)
<1>1. CASE lan = NotThere
  BY <1>1, NowhereKeeps DEF TurnOn
<1>2. CASE lan # NotThere
  <2>1. addr \in MobileAddrs /\ addr # NotThere
    <3>1. addr \in MobileAddrs
      BY <1>2 DEF MobileAddrs
    <3> QED
      BY <3>1, AddressIs
  <2>2. addr.ip = lan.ip
    BY DEF AddrOf
  <2>3. lan = [ip |-> lan.ip, name |-> lan.name]
    BY <1>2, LanIs
  <2>4. /\ Ordered("on", addr)
        /\ \/ mobileLn = addr /\ UNCHANGED <<mobileLn, mobileLAN, mobileLast, listening, extra, selfIPs>>
           \/ /\ mobileLn # addr /\ free
              /\ AddListener(addr) /\ mobileLn' = addr /\ mobileLAN' = lan /\ mobileLast' = NotThere
           \/ /\ mobileLn # addr /\ ~free
              /\ RemoveListener /\ mobileLn' = NotThere /\ mobileLast' = NotThere /\ UNCHANGED mobileLAN
    BY <1>2 DEF TurnOn
  <2> HIDE DEF lan, addr
  <2>5. /\ orders' \in Seq(Order) /\ k \in Nat
        /\ DOMAIN orders = 1..k /\ DOMAIN orders' = 1..(k + 1)
        /\ orders'[k + 1].op = "on" /\ orders'[k + 1].addr = addr
        /\ \A n \in DOMAIN orders : orders'[n] = orders[n] /\ n \in DOMAIN orders' /\ n < k + 1
        /\ \A n \in DOMAIN orders' : n \in DOMAIN orders \/ n = k + 1
        /\ Asks' = Asks \cup {k + 1} /\ Asks \subseteq DOMAIN orders
    BY <2>1, <2>4, OrdersGrow DEF MobileInv, MobileType
  <2>6. CASE mobileLn = addr /\ UNCHANGED <<mobileLn, mobileLAN, mobileLast, listening, extra, selfIPs>>
    <3>1. MobileType' /\ ListeningTrue'
      BY <2>5, <2>6 DEF MobileInv, MobileType, ListeningTrue
    <3>2. OpenTrue'
      <4>1. /\ k + 1 \in Asks' /\ orders'[k + 1].addr = mobileLn'
            /\ \A m \in DOMAIN orders' : ~(m > k + 1)
        BY <2>5, <2>6
      <4> QED
        BY <4>1 DEF OpenTrue
    <3>3. ClosedTrue' /\ AnewTrue'
      BY <2>1, <2>6 DEF ClosedTrue, AnewTrue
    <3> QED
      BY <3>1, <3>2, <3>3 DEF MobileInv
  <2>7. CASE /\ AddListener(addr) /\ mobileLn' = addr /\ mobileLAN' = lan /\ mobileLast' = NotThere
    <3>1. extra' = {addr} /\ listening' = {addr} /\ DOMAIN selfIPs' = {addr.ip} /\ selfIPs'[addr.ip] = addr.port
      BY <2>7, RemovedIs DEF AddListener
    <3>2. MobileType' /\ ListeningTrue'
      BY <2>1, <2>2, <2>3, <2>5, <2>7, <3>1 DEF MobileType, ListeningTrue
    <3>3. OpenTrue'
      <4>1. /\ k + 1 \in Asks' /\ orders'[k + 1].addr = mobileLn'
            /\ \A m \in DOMAIN orders' : ~(m > k + 1)
        BY <2>5, <2>7
      <4> QED
        BY <4>1 DEF OpenTrue
    <3>4. ClosedTrue' /\ AnewTrue'
      BY <2>1, <2>7 DEF ClosedTrue, AnewTrue
    <3> QED
      BY <3>2, <3>3, <3>4 DEF MobileInv
  <2>8. CASE RemoveListener /\ mobileLn' = NotThere /\ mobileLast' = NotThere /\ UNCHANGED mobileLAN
    <3>1. extra' = {} /\ listening' = {} /\ DOMAIN selfIPs' = {}
      BY <2>8, RemovedIs DEF RemoveListener
    <3>2. MobileType' /\ ListeningTrue'
      BY <2>5, <2>8, <3>1 DEF MobileType, ListeningTrue
    <3>3. OpenTrue' /\ ClosedTrue'
      BY <2>8 DEF OpenTrue, ClosedTrue
    <3>4. AnewTrue'
      <4>1. ASSUME NEW n \in DOMAIN orders', orders'[n].op = "off"
            PROVE  k + 1 \in Asks' /\ k + 1 > n
        <5>1. n \in DOMAIN orders
          BY <2>5, <4>1
        <5> QED
          BY <2>5, <5>1
      <4> QED
        BY <4>1 DEF AnewTrue
    <3> QED
      BY <3>2, <3>3, <3>4 DEF MobileInv
  <2> QED
    BY <2>4, <2>6, <2>7, <2>8
<1> QED
  BY <1>1, <1>2

\* A call of SetMobile.
LEMMA MobileKeeps ==
  ASSUME MobileInv, MobileNext
  PROVE  MobileInv'
BY TurnOffKeeps, TurnOnKeeps DEF MobileNext

-----------------------------------------------------------------------------
(* All of it. *)

\* A table is called after it was last called.
LEMMA TimeGoesOn ==
  ASSUME NEW Call, NEW calls \in Seq(Call), \A c \in Call : c.at \in Nat, NEW gap \in Gaps
  PROVE  Clock(calls) + gap \in Nat /\ Clock(calls) < Clock(calls) + gap
<1>1. gap \in Nat /\ gap > 0
  BY TablesAssumption DEF TablesAssumption
<1>2. Clock(calls) \in Nat
  <2>1. CASE calls = <<>>
    BY <2>1 DEF Clock
  <2>2. CASE calls # <<>>
    <3>1. Len(calls) \in 1..Len(calls)
      BY <2>2, EmptySeq
    <3>2. calls[Len(calls)] \in Call
      BY <3>1, ElementOfSeq
    <3> QED
      BY <2>2, <3>2 DEF Clock
  <2> QED
    BY <2>1, <2>2
<1> QED
  BY <1>1, <1>2

\* Whatever is asked of the hosts that refused, or of the devices, the table is what
\* it should be.
LEMMA RejectedKeeps ==
  ASSUME RejectedInv, RejectedNext
  PROVE  RejectedInv'
<1>1. PICK gap \in Gaps : LET time == Clock(refusals) + gap IN
        \/ \E host \in Host : Reject(host, time)
        \/ \E pattern \in Pattern : Forget(pattern, time)
        \/ ListRejected(time)
  BY DEF RejectedNext
<1>2. PICK time : time = Clock(refusals) + gap
  OBVIOUS
<1>3. time \in Nat /\ Clock(refusals) < time
  <2>1. refusals \in Seq(Refusal) /\ \A c \in Refusal : c.at \in Nat
    BY DEF RejectedInv, RejectedType, Refusal
  <2> QED
    BY <1>2, <2>1, TimeGoesOn
<1>4. \/ \E host \in Host : Reject(host, time)
      \/ \E pattern \in Pattern : Forget(pattern, time)
      \/ ListRejected(time)
  BY <1>1, <1>2
<1> QED
  BY <1>3, <1>4, RefuseKeeps, ForgetKeeps, ListKeeps

\* A call of touch.
LEMMA DevicesKeep ==
  ASSUME DevicesInv, DevicesNext
  PROVE  DevicesInv'
<1>1. PICK gap \in Gaps, ip \in Client, what \in What : LET time == Clock(touches) + gap IN
        /\ devices' = touch(devices, ip, what, time)
        /\ touches' = Append(touches, [ip |-> ip, what |-> what, at |-> time])
  BY DEF DevicesNext
<1>2. PICK time : time = Clock(touches) + gap
  OBVIOUS
<1>3. time \in Nat /\ Clock(touches) < time
  <2>1. touches \in Seq(Touch) /\ \A c \in Touch : c.at \in Nat
    BY DEF DevicesInv, DevicesType, Touch
  <2> QED
    BY <1>2, <2>1, TimeGoesOn
<1>4. /\ devices' = touch(devices, ip, what, time)
      /\ touches' = Append(touches, [ip |-> ip, what |-> what, at |-> time])
  BY <1>1, <1>2
<1> QED
  BY <1>3, <1>4, DeviceIsTouched

\* The inductive invariant: each part by itself, as they share nothing.
MemoryInv == RejectedInv /\ DevicesInv /\ BlobsInv /\ FramesInv /\ MobileInv

\* It begins so.
LEMMA MemoryBegins ==
  ASSUME MemoryInit
  PROVE  MemoryInv
<1>1. /\ rejected = <<>> /\ refusals = <<>> /\ devices = <<>> /\ touches = <<>>
      /\ blobs = <<>> /\ used = 0 /\ uses = <<>>
      /\ frames = <<>> /\ arrived = 0 /\ parsed = 0 /\ buf = 0
      /\ msgOp = "" /\ msg = <<>> /\ msgLen = 0 /\ sink = <<>>
      /\ mobileLn = NotThere /\ mobileLAN = NotThere /\ mobileLast = NotThere
      /\ listening = {} /\ extra = {} /\ selfIPs = <<>> /\ orders = <<>>
  BY DEF MemoryInit, MemoryStart, TablesInit, FramesInit, MobileInit
<1>2. /\ DOMAIN <<>> = {} /\ \A S : <<>> \in Seq(S) /\ <<>> \in [{} -> S]
      /\ Len(<<>>) = 0 /\ ToSet(<<>>) = {} /\ IsFiniteSet({}) /\ Cardinality({}) = 0
  BY EmptySeq, FS_EmptySet DEF ToSet
<1>3. RejectedInv
  <2>1. RejectedType
    BY <1>1, <1>2 DEF RejectedType, InTime
  <2>2. \A h : Refused(h) = {}
    BY <1>1, <1>2 DEF Refused
  <2>3. rejectedLimit \in Nat
    BY TablesAssumption DEF TablesAssumption
  <2>4. RejectedTrue
    <3>1. DOMAIN rejected = {} /\ refusals = <<>>
      BY <1>1, <1>2
    <3>2. Cardinality(DOMAIN rejected) <= rejectedLimit
      BY <1>2, <2>3, <3>1
    <3> QED
      BY <2>2, <3>1, <3>2, Zenon DEF RejectedTrue
  <2> QED
    BY <2>1, <2>4 DEF RejectedInv
<1>4. DevicesInv
  <2>1. DevicesType
    BY <1>1, <1>2 DEF DevicesType, InTime
  <2>2. \A ip : Seen(ip) = {}
    BY <1>1, <1>2 DEF Seen
  <2>3. maxDevices \in Nat
    BY TablesAssumption DEF TablesAssumption
  <2>4. DevicesTrue
    <3>1. DOMAIN devices = {}
      BY <1>1, <1>2
    <3>2. Cardinality(DOMAIN devices) <= maxDevices
      BY <1>2, <2>3, <3>1
    <3> QED
      BY <2>2, <3>1, <3>2, Zenon DEF DevicesTrue
  <2> QED
    BY <2>1, <2>4 DEF DevicesInv
<1>5. BlobsInv
  <2>1. \A b : Used(uses, b) = {}
    BY <1>1, <1>2 DEF Used
  <2>2. Total({}) = 0
    <3>1. IsFiniteSet(Blob) /\ \A x \in Blob : bodySize[x] \in Nat
      BY TablesAssumption DEF TablesAssumption
    <3> QED
      BY <3>1, SumSteps DEF Total
  <2>3. BlobsType
    BY <1>1, <1>2 DEF BlobsType
  <2>4. BlobsTrue
    <3>1. DOMAIN blobs = {} /\ Len(blobs) = 0 /\ ToSet(blobs) = {}
      BY <1>1, <1>2
    <3>2. used = Total(ToSet(blobs)) /\ ~(Len(blobs) > 1)
      <4>1. Total(ToSet(blobs)) = 0 /\ used = 0
        BY <1>1, <2>2, <3>1
      <4> QED
        BY <3>1, <4>1
    <3> QED
      BY <2>1, <3>1, <3>2, Zenon DEF BlobsTrue
  <2> QED
    BY <2>3, <2>4 DEF BlobsInv
<1>6. FramesInv
  <2>1. WellMeant(frames)
    <3>1. frames \in Seq(Frame) /\ Len(frames) = 0
      BY <1>1, <1>2
    <3>2. \A m, n \in 0..Len(frames) : ~(m < n)
      BY <3>1
    <3>3. 1..Len(frames) = {}
      BY <3>1
    <3> QED
      BY <3>1, <3>2, <3>3, Zenon DEF WellMeant
  <2>2. ParsedSo
    <3>1. Upto(0) = 0 /\ Ended(0) = 0
      BY DEF Upto, Ended
    <3>2. /\ Len(frames) = 0 /\ 1..0 = {} /\ parsed \in 0..Len(frames)
          /\ arrived \in Nat /\ arrived <= Upto(Len(frames)) /\ Upto(parsed) <= arrived
          /\ buf = arrived - Upto(parsed) /\ Len(sink) = Ended(parsed)
      <4>1. Len(frames) = 0 /\ Len(sink) = 0 /\ parsed = 0 /\ arrived = 0 /\ buf = 0
        BY <1>1, <1>2
      <4>2. Upto(parsed) = 0 /\ Ended(parsed) = 0 /\ Upto(Len(frames)) = 0
        BY <3>1, <4>1
      <4> QED
        BY <4>1, <4>2
    <3>3. msgOp \in Opcode \cup {""} /\ msg \in Seq(Byte) /\ msgLen \in Nat /\ sink \in Seq(Entry)
      BY <1>1, <1>2
    <3> QED
      BY <1>1, <3>2, <3>3 DEF ParsedSo
  <2> QED
    BY <2>1, <2>2 DEF FramesInv
<1>7. MobileInv
  <2>1. MobileType
    BY <1>1, <1>2 DEF MobileType
  <2>2. ListeningTrue /\ OpenTrue /\ ClosedTrue /\ AnewTrue
    BY <1>1, <1>2 DEF ListeningTrue, OpenTrue, ClosedTrue, AnewTrue
  <2> QED
    BY <2>1, <2>2 DEF MobileInv
<1> QED
  BY <1>3, <1>4, <1>5, <1>6, <1>7 DEF MemoryInv

\* What is not called stays as it is.
LEMMA RejectedStays ==
  ASSUME RejectedInv, UNCHANGED hostTable
  PROVE  RejectedInv'
<1>1. rejected' = rejected /\ refusals' = refusals
  BY DEF hostTable
<1>2. \A h : Refused(h)' = Refused(h)
  BY <1>1 DEF Refused
<1>3. \A h : Streak(h)' = Streak(h)
  BY <1>1, <1>2 DEF Streak
<1>4. \A h : Earlier(h)' = Earlier(h)
  BY <1>2, <1>3 DEF Earlier
<1>5. \A h : HostIsTrue(h)' <=> HostIsTrue(h)
  BY <1>1, <1>3, <1>4, Zenon DEF HostIsTrue
<1>6. RejectedTrue'
  BY <1>1, <1>2, <1>5, Zenon DEF RejectedInv, RejectedTrue
<1>7. RejectedType'
  BY <1>1 DEF RejectedInv, RejectedType
<1> QED
  BY <1>6, <1>7 DEF RejectedInv

\* Likewise of the devices.
LEMMA DevicesStay ==
  ASSUME DevicesInv, UNCHANGED deviceTable
  PROVE  DevicesInv'
<1>1. devices' = devices /\ touches' = touches
  BY DEF deviceTable
<1>2. \A ip : Seen(ip)' = Seen(ip)
  BY <1>1 DEF Seen
<1>3. \A ip : Visit(ip)' = Visit(ip)
  BY <1>1, <1>2 DEF Visit
<1>4. \A ip : Former(ip)' = Former(ip)
  BY <1>2, <1>3 DEF Former
<1>5. \A ip : DeviceIsTrue(ip)' <=> DeviceIsTrue(ip)
  <2> SUFFICES ASSUME NEW ip PROVE DeviceIsTrue(ip)' <=> DeviceIsTrue(ip)
    OBVIOUS
  <2>1. \A what : {i \in Visit(ip)' : touches'[i].what = what} = {i \in Visit(ip) : touches[i].what = what}
    BY <1>1, <1>3
  <2>2. Visit(ip)' = Visit(ip) /\ Former(ip)' = Former(ip)
    BY <1>3, <1>4
  <2> QED
    BY <1>1, <2>1, <2>2 DEF DeviceIsTrue
<1>6. DevicesTrue'
  BY <1>1, <1>2, <1>5, Zenon DEF DevicesInv, DevicesTrue
<1>7. DevicesType'
  BY <1>1 DEF DevicesInv, DevicesType
<1> QED
  BY <1>6, <1>7 DEF DevicesInv

\* Likewise of the bodies.
LEMMA BlobsStay ==
  ASSUME BlobsInv, UNCHANGED MemBlobs
  PROVE  BlobsInv'
<1>1. blobs' = blobs /\ used' = used /\ uses' = uses
  BY DEF MemBlobs
<1> QED
  BY <1>1 DEF BlobsInv, BlobsType, BlobsTrue

\* Likewise of a WebSocket.
LEMMA FramesStay ==
  ASSUME FramesInv, UNCHANGED splice
  PROVE  FramesInv'
<1>1. /\ frames' = frames /\ arrived' = arrived /\ parsed' = parsed /\ buf' = buf
      /\ msgOp' = msgOp /\ msg' = msg /\ msgLen' = msgLen /\ sink' = sink
  BY DEF splice, parser
<1> QED
  BY <1>1 DEF FramesInv, ParsedSo, HasRead, Logged, Upto, Ended

\* Likewise of the listener.
LEMMA MobileStays ==
  ASSUME MobileInv, UNCHANGED mobile
  PROVE  MobileInv'
<1>1. /\ mobileLn' = mobileLn /\ mobileLAN' = mobileLAN /\ mobileLast' = mobileLast
      /\ listening' = listening /\ extra' = extra /\ selfIPs' = selfIPs /\ orders' = orders
  BY DEF mobile
<1> QED
  BY <1>1 DEF MobileInv, MobileType, ListeningTrue, OpenTrue, ClosedTrue, AnewTrue, Asks

\* A step of one of them.
LEMMA MemoryKeeps ==
  ASSUME MemoryInv, [MemoryNext]_<<memory, tables, splice, mobile>>
  PROVE  MemoryInv'
<1> USE DEF MemoryInv
<1>1. CASE RejectedNext /\ UNCHANGED <<deviceTable, MemBlobs, splice, mobile>>
  BY <1>1, RejectedKeeps, DevicesStay, BlobsStay, FramesStay, MobileStays
<1>2. CASE DevicesNext /\ UNCHANGED <<hostTable, MemBlobs, splice, mobile>>
  BY <1>2, RejectedStays, DevicesKeep, BlobsStay, FramesStay, MobileStays
<1>3. CASE BlobsNext /\ UNCHANGED <<hostTable, deviceTable, splice, mobile>>
  BY <1>3, RejectedStays, DevicesStay, BlobsKeep, FramesStay, MobileStays
<1>4. CASE FramesNext /\ UNCHANGED <<tables, mobile>>
  BY <1>4, RejectedStays, DevicesStay, BlobsStay, FramesKeep, MobileStays DEF tables
<1>5. CASE MobileNext /\ UNCHANGED <<tables, splice>>
  BY <1>5, RejectedStays, DevicesStay, BlobsStay, FramesStay, MobileKeeps DEF tables
<1>6. CASE UNCHANGED <<memory, tables, splice, mobile>>
  BY <1>6, RejectedStays, DevicesStay, BlobsStay, FramesStay, MobileStays DEF tables
<1> QED
  BY <1>1, <1>2, <1>3, <1>4, <1>5, <1>6 DEF MemoryNext

\* What is kept says what is to be shown.
LEMMA MemoryTold ==
  ASSUME MemoryInv
  PROVE  MemoryTrue
BY FramesTold, MobileIs DEF MemoryInv, RejectedInv, DevicesInv, BlobsInv, MemoryTrue

\* What is remembered is what happened, whatever the sizes of the tables, the frames
\* and the interfaces (decrypt.go, devices.go, websocket.go, server.go, blob.go, mobile.go).
THEOREM MemoryIsTrue == MemorySpec => []MemoryTrue
<1>1. MemoryInit => MemoryInv
  BY MemoryBegins
<1>2. MemoryInv /\ [MemoryNext]_<<memory, tables, splice, mobile>> => MemoryInv'
  BY MemoryKeeps
<1>3. MemoryInv => MemoryTrue
  BY MemoryTold
<1> QED
  BY <1>1, <1>2, <1>3, PTL DEF MemorySpec
=============================================================================
