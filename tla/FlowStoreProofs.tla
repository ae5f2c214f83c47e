--------------------------- MODULE FlowStoreProofs ---------------------------
(***************************************************************************)
(* Proofs about FlowStore: its ring, its log, its sessions and the cursors *)
(* of Tail; and about Har, the files its flows are exported to and         *)
(* imported from: what of any flow survives.                               *)
(***************************************************************************)
EXTENDS FlowStore, Har, Sums, SequenceTheorems, WellFoundedInduction

\* A rank is a number, and positive just for the members.
LEMMA RankedIsPlace ==
  ASSUME NEW S \in SUBSET Id, NEW p \in [Id -> Nat]
  PROVE  /\ Ranked(S, p) \in [Id -> Nat]
         /\ \A i \in Id : Ranked(S, p)[i] > 0 <=> i \in S
<1> DEFINE below(i) == {j \in S : p[j] <= p[i]}
<1>1. IsFiniteSet(Id)
  BY ConstantsAssumption, FS_Interval DEF Id, ConstantsAssumption
<1>2. ASSUME NEW i \in S
      PROVE  Cardinality(below(i)) \in Nat /\ Cardinality(below(i)) > 0
  <2>1. IsFiniteSet(below(i))
    BY <1>1, FS_Subset
  <2>2. Cardinality(below(i)) \in Nat
    BY <2>1, FS_CardinalityType
  <2>3. i \in below(i)
    OBVIOUS
  <2>4. Cardinality(below(i)) # 0
    BY <2>1, <2>3, FS_EmptySet
  <2> QED
    BY <2>2, <2>4
<1>3. \A i \in Id : Ranked(S, p)[i] = IF i \in S THEN Cardinality(below(i)) ELSE 0
  BY DEF Ranked
<1>4. Ranked(S, p) = [i \in Id |-> IF i \in S THEN Cardinality(below(i)) ELSE 0]
  BY DEF Ranked
<1> HIDE DEF below
<1> QED
  BY <1>2, <1>3, <1>4

\* Some flows are finitely many.
LEMMA IdsAreFinite ==
  ASSUME NEW S \in SUBSET Id
  PROVE  IsFiniteSet(S)
<1>1. IsFiniteSet(Id)
  BY ConstantsAssumption, FS_Interval DEF Id, ConstantsAssumption
<1> QED
  BY <1>1, FS_Subset

\* The number of some flows is a number.
LEMMA CountOfIds ==
  ASSUME NEW S \in SUBSET Id
  PROVE  Cardinality(S) \in Nat
BY IdsAreFinite, FS_CardinalityType

\* The members of S have the places 1..n, each its own.
Numbered(S, p, n) ==
  /\ \A i \in S : p[i] \in 1..n
  /\ \A i, j \in S : p[i] = p[j] => i = j
  /\ \A k \in 1..n : \E i \in S : p[i] = k

\* Places that are each taken once are as many as they are.
LEMMA NumberedCounts ==
  ASSUME NEW S \in SUBSET Id, NEW p, NEW n \in Nat, Numbered(S, p, n)
  PROVE  Cardinality(S) = n
<1> DEFINE f == [i \in S |-> p[i]]
<1>1. f \in Injection(S, 1..n) /\ f \in Surjection(S, 1..n)
  BY DEF Numbered, Injection, Surjection, IsInjective
<1>2. IsFiniteSet(1..n) /\ Cardinality(1..n) = n
  BY FS_Interval
<1> HIDE DEF f
<1> QED
  BY <1>1, <1>2, FS_Injection

\* Ranks are places, in the order of what they rank.
LEMMA RankedNumbers ==
  ASSUME NEW S \in SUBSET Id, NEW p \in [Id -> Nat], \A i, j \in S : p[i] = p[j] => i = j
  PROVE  /\ Numbered(S, Ranked(S, p), Cardinality(S))
         /\ \A i, j \in S : Ranked(S, p)[i] < Ranked(S, p)[j] <=> p[i] < p[j]
<1> DEFINE below(i) == {j \in S : p[j] <= p[i]}
           r == Ranked(S, p)
           n == Cardinality(S)
<1>1. \A i \in S : r[i] = Cardinality(below(i))
  BY DEF Ranked
<1>2. IsFiniteSet(S) /\ n \in Nat
  BY IdsAreFinite, FS_CardinalityType
<1>3. \A i \in S : IsFiniteSet(below(i)) /\ r[i] \in Nat /\ r[i] <= n /\ r[i] > 0
  <2> SUFFICES ASSUME NEW i \in S
               PROVE  IsFiniteSet(below(i)) /\ r[i] \in Nat /\ r[i] <= n /\ r[i] > 0
    OBVIOUS
  <2>1. below(i) \in SUBSET S
    OBVIOUS
  <2> HIDE DEF below
  <2>2. IsFiniteSet(below(i)) /\ Cardinality(below(i)) <= n
    BY <1>2, <2>1, FS_Subset
  <2>3. r \in [Id -> Nat] /\ r[i] > 0
    BY RankedIsPlace
  <2> QED
    BY <1>1, <2>2, <2>3
<1>4. \A i, j \in S : p[i] < p[j] => r[i] < r[j]
  <2> SUFFICES ASSUME NEW i \in S, NEW j \in S, p[i] < p[j] PROVE r[i] < r[j]
    OBVIOUS
  <2>1. below(i) \in SUBSET below(j)
    <3>1. \A k \in S : p[k] \in Nat
      OBVIOUS
    <3> QED
      BY <3>1
  <2>2. j \in below(j) /\ j \notin below(i)
    <3>1. p[i] \in Nat /\ p[j] \in Nat
      OBVIOUS
    <3> QED
      BY <3>1
  <2> HIDE DEF below
  <2>3. /\ Cardinality(below(i)) <= Cardinality(below(j))
        /\ Cardinality(below(i)) # Cardinality(below(j))
    BY <1>3, <2>1, <2>2, FS_Subset
  <2>4. r[i] \in Nat /\ r[j] \in Nat /\ r[i] = Cardinality(below(i)) /\ r[j] = Cardinality(below(j))
    BY <1>1, <1>3
  <2> HIDE DEF r
  <2> QED
    BY <2>3, <2>4
<1> HIDE DEF below, r, n
<1>5. \A i, j \in S : r[i] < r[j] <=> p[i] < p[j]
  <2> SUFFICES ASSUME NEW i \in S, NEW j \in S, ~(p[i] < p[j]) PROVE ~(r[i] < r[j])
    BY <1>4
  <2>1. p[i] \in Nat /\ p[j] \in Nat /\ r[i] \in Nat /\ r[j] \in Nat
    BY <1>3
  <2>2. CASE p[i] = p[j]
    <3>1. i = j
      BY <2>2
    <3> QED
      BY <2>1, <3>1
  <2>3. CASE p[j] < p[i]
    BY <1>4, <2>1, <2>3
  <2> QED
    BY <2>1, <2>2, <2>3
<1>6. \A i, j \in S : r[i] = r[j] => i = j
  <2> SUFFICES ASSUME NEW i \in S, NEW j \in S, r[i] = r[j] PROVE i = j
    OBVIOUS
  <2>1. p[i] \in Nat /\ p[j] \in Nat /\ r[i] \in Nat /\ r[j] \in Nat
    BY <1>3
  <2>2. ~(p[i] < p[j]) /\ ~(p[j] < p[i])
    BY <1>5, <2>1
  <2> QED
    BY <2>1, <2>2
<1>7. \A i \in S : r[i] \in 1..n
  BY <1>2, <1>3
<1>8. \A k \in 1..n : \E i \in S : r[i] = k
  <2> DEFINE f == [i \in S |-> r[i]]
  <2>1. f \in Injection(S, 1..n)
    BY <1>6, <1>7 DEF Injection, IsInjective
  <2>2. IsFiniteSet(1..n) /\ Cardinality(1..n) = n
    BY <1>2, FS_Interval
  <2>3. f \in Surjection(S, 1..n)
    <3> HIDE DEF f
    <3> QED
      BY <2>1, <2>2, FS_Injection DEF n
  <2> QED
    BY <2>3 DEF Surjection
<1>9. Numbered(S, r, n)
  BY <1>6, <1>7, <1>8 DEF Numbered
<1> QED
  BY <1>5, <1>9 DEF r, n

\* Ids are numbers.
LEMMA IdsAreNumbers == MaxId \in Nat /\ PerFlow \in Nat \ {0} /\ Id \subseteq Nat
BY ConstantsAssumption DEF ConstantsAssumption, Id

\* No flow has an exchange, or a place, that has not begun.
Unbegun == \A i \in Id : i > last => at[i] = "none" /\ place[i] = 0

\* A cleaner that is not calling back owes nothing.
Free == \A c \in Cleaner : doing[c] \in {"idle", "delete"} => owes[c] = {}

\* A flow that is in the ring or may come to it has its session, or is known to
\* have lost it.
Kept ==
  /\ current \in sessions
  /\ \A i \in Id : i \in InRing \/ InFlight(i) =>
       \/ of[i] \in sessions
       \/ \E c \in Cleaner : doing[c] = "delete" /\ target[c] = of[i]
       \/ i \in late

\* What a client has been given is behind its cursor, and its cursor behind what
\* it asks for.
Behind ==
  \A p \in Poller :
    /\ cursor[p] <= last /\ since[p] <= last
    /\ tail[p] # "idle" => cursor[p] <= since[p]
    /\ \A i \in Id : given[p][i] <= 1 /\ (given[p][i] > 0 => i <= cursor[p])

\* The ring: no more than fit, their places numbered, oldest first.
RingNumbered == count <= Cap /\ Numbered(InRing, place, count)

\* The log: the flows that have messages are numbered, oldest first.
LogNumbered ==
  /\ \A i \in Id : order[i] > 0 <=> i \in Logged
  /\ Numbered(Logged, order, Cardinality(Logged))

\* The messages of the flows newer than one of them.
Newer(m, p, i) == SumFunctionOnSet(m, {k \in Id : p[k] > p[i]})

\* Those newer than any that logs are less than the budget: it is what the
\* log would keep if that one had to go next.
LogSlack == \A i \in Logged : Newer(msgs, order, i) < Budget

Inv ==
  /\ TypeOK /\ Unbegun /\ Free /\ LogFollowsRing /\ Kept /\ Behind
  /\ RingNumbered /\ LogNumbered /\ LogSlack

\* What an upsert does: its flow is in the ring, the one it evicts is owed.
LEMMA UpsertKeeps ==
  ASSUME TypeOK, NEW i \in Id, Upsert(i)
  PROVE  /\ place' \in [Id -> Nat] /\ count' \in Nat
         /\ owes' \in [Actor -> SUBSET Id]
         /\ \A a \in Actor \ {i} : owes'[a] = owes[a]
         /\ place'[i] > 0
         /\ \A j \in Id : place[j] > 0 => place'[j] > 0 \/ j \in owes'[i]
         /\ \A j \in Id : j # i /\ place[j] = 0 => place'[j] = 0
<1>1. Oldest(i) \subseteq Id
  BY DEF Oldest
<1>2. i \in Actor
  BY DEF Actor
<1>3. owes' = [owes EXCEPT ![i] = Oldest(i)]
  BY DEF Upsert
<1>4. /\ owes' \in [Actor -> SUBSET Id]
      /\ \A a \in Actor \ {i} : owes'[a] = owes[a]
      /\ owes'[i] = Oldest(i)
  BY <1>1, <1>2, <1>3 DEF TypeOK
<1> USE ConstantsAssumption DEF ConstantsAssumption
<1>5. CASE place[i] > 0
  BY <1>4, <1>5 DEF Upsert, TypeOK, ring
<1>6. CASE ~(place[i] > 0) /\ Oldest(i) = {}
  <2>1. count' = count + 1 /\ place' = [place EXCEPT ![i] = count + 1]
    BY <1>6 DEF Upsert
  <2> QED
    BY <1>4, <2>1 DEF TypeOK
<1>7. CASE ~(place[i] > 0) /\ Oldest(i) # {}
  <2>1. place' = [j \in Id |-> IF j = i THEN count
                               ELSE IF place[j] = 0 THEN 0 ELSE place[j] - 1]
    BY <1>7 DEF Upsert
  <2>2. count' = count
    BY <1>7 DEF Upsert, ring
  <2>3. count = Cap /\ Oldest(i) = {j \in Id : place[j] = 1}
    BY <1>7 DEF Oldest
  <2>4. count \in Nat /\ count > 0 /\ place \in [Id -> Nat]
    BY <2>3 DEF TypeOK
  <2> QED
    BY <1>4, <2>1, <2>2, <2>3, <2>4
<1> QED
  BY <1>5, <1>6, <1>7

\* What a delete does: what goes is owed, nothing else goes.
LEMMA DeleteKeeps ==
  ASSUME TypeOK, NEW c \in Cleaner, NEW S, Delete(c, S)
  PROVE  /\ place' \in [Id -> Nat] /\ count' \in Nat
         /\ owes' \in [Actor -> SUBSET Id]
         /\ \A a \in Actor \ {c} : owes'[a] = owes[a]
         /\ owes'[c] = InRing \cap S
         /\ \A j \in Id : place'[j] > 0 <=> j \in InRing \ S
<1>1. InRing \subseteq Id
  BY DEF InRing
<1>2. c \in Actor
  BY DEF Actor
<1>3. /\ place' = Ranked(InRing \ S, place) /\ count' = Cardinality(InRing \ S)
      /\ owes' = [owes EXCEPT ![c] = InRing \cap S]
  BY DEF Delete
<1>4. place \in [Id -> Nat] /\ owes \in [Actor -> SUBSET Id]
  BY DEF TypeOK
<1>5. InRing \ S \in SUBSET Id /\ InRing \cap S \in SUBSET Id
  BY <1>1
<1>6. /\ place' \in [Id -> Nat]
      /\ \A j \in Id : place'[j] > 0 <=> j \in InRing \ S
  BY <1>3, <1>4, <1>5, RankedIsPlace
<1>7. count' \in Nat
  BY <1>3, <1>5, CountOfIds
<1> QED
  BY <1>2, <1>3, <1>4, <1>5, <1>6, <1>7

-----------------------------------------------------------------------------
\* An empty daemon has the invariant.
LEMMA InitInv == Init => Inv
<1> SUFFICES ASSUME Init PROVE Inv
  OBVIOUS
<1> USE ConstantsAssumption DEF ConstantsAssumption
<1>1. TypeOK
  BY DEF Init, TypeOK, Stages, Id
<1>2. Unbegun /\ Free
  BY DEF Init, Unbegun, Free, Actor
<1>3. LogFollowsRing
  BY DEF Init, LogFollowsRing, Logged
<1>4. Kept
  BY DEF Init, Kept, InRing, InFlight
<1>5. Behind
  BY DEF Init, Behind, Id
<1>6. RingNumbered
  BY DEF Init, RingNumbered, Numbered, InRing
<1>7. LogNumbered /\ LogSlack
  <2>1. Logged = {} /\ \A i \in Id : order[i] = 0
    BY DEF Init, Logged
  <2>2. Cardinality(Logged) = 0
    BY <2>1, FS_EmptySet
  <2> QED
    BY <2>1, <2>2 DEF LogNumbered, LogSlack, Numbered
<1> QED
  BY <1>1, <1>2, <1>3, <1>4, <1>5, <1>6, <1>7 DEF Inv

-----------------------------------------------------------------------------
(* Well-typed, step by step.                                               *)

\* A step of an exchange is well typed, and begins flows in their order.
LEMMA ExchangeTyped ==
  ASSUME TypeOK, Unbegun, NEW i \in Id, Exchange(i)
  PROVE  TypeOK' /\ Unbegun'
<1> USE ConstantsAssumption DEF ConstantsAssumption
<1>1. CASE Begin(i)
  <2>1. /\ i = last + 1 /\ last' = i
        /\ at' = [at EXCEPT ![i] = "begun"] /\ of' = [of EXCEPT ![i] = current]
        /\ UNCHANGED <<ring, log, owes, sess, clean, polls>>
    BY <1>1 DEF Begin
  <2>2. last' \in 0..MaxId
    BY <2>1 DEF Id
  <2>3. at' \in [Id -> Stages] /\ of' \in [Id -> Session]
    BY <2>1 DEF TypeOK, Stages
  <2>4. TypeOK'
    BY <2>1, <2>2, <2>3 DEF TypeOK, ring, log, sess, clean, polls
  <2>5. Unbegun'
    BY <2>1, IdsAreNumbers DEF TypeOK, Unbegun, ring
  <2> QED
    BY <2>4, <2>5
<1>2. ASSUME NEW from \in SUBSET {"begun", "started", "updated"},
             NEW to \in {"started", "updated", "done"}, Sink(i, from, to)
      PROVE  TypeOK' /\ Unbegun'
  <2>1. /\ place' \in [Id -> Nat] /\ count' \in Nat
        /\ owes' \in [Actor -> SUBSET Id]
        /\ \A j \in Id : j # i /\ place[j] = 0 => place'[j] = 0
    BY <1>2, UpsertKeeps DEF Sink
  <2>2. /\ at[i] # "none" /\ at' = [at EXCEPT ![i] = to]
        /\ UNCHANGED <<last, of, log, sess, clean, polls>>
    BY <1>2 DEF Sink
  <2>3. at' \in [Id -> Stages]
    BY <2>2 DEF TypeOK, Stages
  <2>4. TypeOK'
    BY <2>1, <2>2, <2>3 DEF TypeOK, log, sess, clean, polls
  <2>5. Unbegun'
    BY <2>1, <2>2 DEF TypeOK, Unbegun
  <2> QED
    BY <2>4, <2>5
<1>3. CASE Started(i) \/ Updated(i) \/ Done(i)
  BY <1>2, <1>3 DEF Started, Updated, Done
<1>4. CASE Published(i)
  BY <1>4 DEF Published, TypeOK, Unbegun, Stages, ring, log, sess, clean
<1>5. CASE Held(i)
  BY <1>5 DEF Held, TypeOK, Unbegun, ring, log, sess, clean
<1>6. CASE Add(i)
  <2> DEFINE m == [msgs EXCEPT ![i] = Keep(@)]
             p == IF i \in Logged THEN order
                  ELSE [order EXCEPT ![i] = Cardinality(Logged) + 1]
             gone == OverBudget(m, p, i)
             kept == {j \in Id : m[j] > 0} \ gone
  <2>1. /\ msgs' = [j \in Id |-> IF j \in gone THEN 0 ELSE m[j]]
        /\ order' = Ranked(kept, p)
        /\ UNCHANGED <<last, at, of, ring, owes, sess, clean, polls>>
    BY <1>6 DEF Add
  <2>2. msgs \in [Id -> 0..PerFlow]
    BY DEF TypeOK
  <2>3. Keep(msgs[i]) \in 0..PerFlow
    BY <2>2, IdsAreNumbers DEF Keep
  <2>4. m \in [Id -> 0..PerFlow]
    BY <2>2, <2>3
  <2>5. Cardinality(Logged) \in Nat
    BY CountOfIds DEF Logged
  <2>6. p \in [Id -> Nat] /\ kept \in SUBSET Id
    BY <2>5 DEF TypeOK
  <2> HIDE DEF m, p, gone, kept
  <2>7. msgs' \in [Id -> 0..PerFlow]
    BY <2>1, <2>4
  <2>8. order' \in [Id -> Nat]
    BY <2>1, <2>6, RankedIsPlace
  <2>9. TypeOK'
    BY <2>1, <2>7, <2>8 DEF TypeOK, ring, sess, clean, polls
  <2> QED
    BY <2>1, <2>9 DEF Unbegun, ring
<1> QED
  BY <1>1, <1>3, <1>4, <1>5, <1>6 DEF Exchange

\* So is a drop, ...
LEMMA DropTyped ==
  ASSUME TypeOK, Unbegun, NEW a \in Actor, NEW i \in Id, Drop(a, i)
  PROVE  TypeOK' /\ Unbegun'
<1>1. Logged \ {i} \in SUBSET Id
  BY DEF Logged
<1>2. order' \in [Id -> Nat]
  BY <1>1, RankedIsPlace DEF Drop, TypeOK
<1>3. /\ owes' = [owes EXCEPT ![a] = @ \ {i}] /\ msgs' = [msgs EXCEPT ![i] = 0]
      /\ UNCHANGED <<last, at, of, ring, sess, clean, polls>>
  BY DEF Drop
<1>4. owes' \in [Actor -> SUBSET Id]
  BY <1>3 DEF TypeOK
<1>5. msgs' \in [Id -> 0..PerFlow]
  BY <1>3, IdsAreNumbers DEF TypeOK
<1>6. TypeOK'
  BY <1>2, <1>3, <1>4, <1>5 DEF TypeOK, ring, sess, clean, polls
<1> QED
  BY <1>6 DEF Drop, Unbegun, ring

\* ... a step of a handler, ...
LEMMA CleanTyped ==
  ASSUME TypeOK, Unbegun, NEW c \in Cleaner, Clean(c)
  PROVE  TypeOK' /\ Unbegun'
<1> USE ConstantsAssumption DEF ConstantsAssumption
<1>1. CASE \E s \in Session : Forget(c, s)
  BY <1>1 DEF Forget, TypeOK, Unbegun, ring, log, polls
<1>2. CASE DeleteFlows(c)
  <2> DEFINE S == {i \in Id : of[i] = target[c]}
  <2>1. /\ Delete(c, S) /\ late' = late \cup {i \in S : InFlight(i)}
        /\ doing' = [doing EXCEPT ![c] = "drop"]
        /\ UNCHANGED <<last, at, of, log, sess, target, polls>>
    BY <1>2 DEF DeleteFlows
  <2>2. late' \subseteq Id
    BY <2>1 DEF TypeOK
  <2> HIDE DEF S
  <2>3. /\ place' \in [Id -> Nat] /\ count' \in Nat
        /\ owes' \in [Actor -> SUBSET Id]
        /\ \A j \in Id : place'[j] > 0 <=> j \in InRing \ S
    BY <2>1, DeleteKeeps
  <2>4. TypeOK'
    BY <2>1, <2>2, <2>3 DEF TypeOK, log, sess, polls
  <2>5. \A j \in Id : place[j] = 0 => place'[j] = 0
    BY <2>3 DEF InRing, TypeOK
  <2> QED
    BY <2>1, <2>4, <2>5 DEF Unbegun
<1>3. CASE Deleted(c)
  BY <1>3 DEF Deleted, TypeOK, Unbegun, ring, log, sess, polls
<1>4. CASE Clear(c)
  <2>1. /\ Delete(c, Id) /\ doing' = [doing EXCEPT ![c] = "wipe"]
        /\ UNCHANGED <<last, at, of, log, sess, target, late, polls>>
    BY <1>4 DEF Clear
  <2>2. /\ place' \in [Id -> Nat] /\ count' \in Nat
        /\ owes' \in [Actor -> SUBSET Id]
        /\ \A j \in Id : place'[j] > 0 <=> j \in InRing \ Id
    BY <2>1, DeleteKeeps
  <2>3. TypeOK'
    BY <2>1, <2>2 DEF TypeOK, log, sess, polls
  <2> QED
    BY <2>1, <2>2, <2>3 DEF Unbegun, TypeOK
<1>5. CASE Wipe(c)
  BY <1>5 DEF Wipe, TypeOK, Unbegun, ring, sess, polls
<1> QED
  BY <1>1, <1>2, <1>3, <1>4, <1>5 DEF Clean

\* The answer to a call: what is new, and a cursor past all of it.
LEMMA ReturnKeeps ==
  ASSUME TypeOK, Unbegun, Behind, NEW p \in Poller, tail[p] # "idle",
         NEW rows \in SUBSET Rows(since[p]), Return(p, rows)
  PROVE  TypeOK' /\ Behind'
<1>1. rows \subseteq Id /\ \A i \in rows : since[p] < i /\ i <= last
  <2> SUFFICES ASSUME NEW i \in rows PROVE i \in Id /\ since[p] < i /\ i <= last
    OBVIOUS
  <2>1. i \in InRing /\ \A j \in InRing : place[j] >= place[i] => j > since[p]
    BY DEF Rows, Looked
  <2>2. i \in Id /\ place[i] > 0 /\ place[i] \in Nat
    BY <2>1 DEF InRing, TypeOK
  <2>3. i > since[p]
    BY <2>1, <2>2
  <2>4. since[p] \in Nat /\ last \in Nat /\ i \in Nat
    BY <2>2, IdsAreNumbers DEF TypeOK
  <2>5. ~(i > last)
    BY <2>2 DEF Unbegun
  <2> QED
    BY <2>2, <2>3, <2>4, <2>5
<1>2. PICK n \in NextCursor(since[p], rows) :
        cursor' = [cursor EXCEPT ![p] = IF n = 0 THEN last ELSE n]
  BY DEF Return
<1>3. /\ tail' = [tail EXCEPT ![p] = "idle"]
      /\ given' = [given EXCEPT ![p] =
           [i \in Id |-> IF i \in rows THEN given[p][i] + 1 ELSE given[p][i]]]
      /\ UNCHANGED <<last, at, of, ring, log, owes, sess, clean, since>>
  BY DEF Return
<1>4. since[p] \in 0..MaxId /\ last \in 0..MaxId /\ since[p] <= last /\ cursor[p] <= since[p]
  BY DEF TypeOK, Behind
<1>5. /\ n \in 0..MaxId /\ since[p] <= n /\ n <= last
      /\ \A i \in rows : i <= n
  BY <1>1, <1>2, <1>4, ConstantsAssumption DEF NextCursor, Id, ConstantsAssumption
<1>6. \A i \in Id : given[p][i] \in Nat
  BY DEF TypeOK
<1>7. given' \in [Poller -> [Id -> Nat]]
  BY <1>3, <1>6 DEF TypeOK
<1>8. TypeOK'
  BY <1>2, <1>3, <1>4, <1>5, <1>7 DEF TypeOK, ring, log, sess, clean
<1>9. ASSUME NEW q \in Poller, q # p
      PROVE  cursor'[q] = cursor[q] /\ tail'[q] = tail[q] /\ given'[q] = given[q]
  BY <1>2, <1>3, <1>9 DEF TypeOK
<1>10. cursor'[p] = (IF n = 0 THEN last ELSE n) /\ tail'[p] = "idle"
  BY <1>2, <1>3 DEF TypeOK
<1>11. \A i \in Id : given'[p][i] = IF i \in rows THEN given[p][i] + 1 ELSE given[p][i]
  BY <1>3 DEF TypeOK
<1>12. \A i \in Id : /\ given[p][i] <= 1 /\ (given[p][i] > 0 => i <= cursor[p])
                     /\ given[p][i] \in Nat
  BY <1>6 DEF Behind
<1>13. MaxId \in Nat /\ cursor[p] \in Nat /\ Id \subseteq Nat
  BY IdsAreNumbers DEF TypeOK
<1>14. \A i \in rows : given[p][i] = 0
  BY <1>1, <1>4, <1>12, <1>13
<1>15. cursor'[p] \in Nat /\ n <= cursor'[p] /\ cursor'[p] <= last /\ cursor[p] <= cursor'[p]
  BY <1>4, <1>5, <1>10 DEF TypeOK
<1>16. \A i \in Id : given'[p][i] <= 1 /\ (given'[p][i] > 0 => i <= cursor'[p])
  BY <1>5, <1>11, <1>12, <1>14, <1>15, <1>13
<1>17. Behind'
  BY <1>3, <1>4, <1>9, <1>10, <1>15, <1>16 DEF Behind
<1> QED
  BY <1>8, <1>17

\* ... and a step of a client, which moves its own cursor only.
LEMMA TailTyped ==
  ASSUME TypeOK, Unbegun, Behind, NEW p \in Poller, Poll(p)
  PROVE  TypeOK' /\ Unbegun' /\ Behind'
<1>1. CASE Call(p)
  <2>1. PICK n \in {last, cursor[p]} : since' = [since EXCEPT ![p] = n]
    BY <1>1 DEF Call
  <2>2. /\ tail[p] = "idle" /\ tail' = [tail EXCEPT ![p] = "look"]
        /\ UNCHANGED <<last, at, of, ring, log, owes, sess, clean, cursor, given>>
    BY <1>1 DEF Call
  <2>3. n \in 0..MaxId /\ n <= last /\ cursor[p] <= n
    BY <2>1 DEF TypeOK, Behind
  <2>4. TypeOK'
    BY <2>1, <2>2, <2>3 DEF TypeOK, ring, log, sess, clean
  <2>5. Behind'
    BY <2>1, <2>2, <2>3 DEF TypeOK, Behind
  <2> QED
    BY <2>2, <2>4, <2>5 DEF Unbegun, ring
<1>2. CASE Look(p) /\ Rows(since[p]) # {}
  <2>1. tail[p] # "idle" /\ Return(p, Rows(since[p]))
    BY <1>2 DEF Look
  <2>2. TypeOK' /\ Behind'
    BY <2>1, ReturnKeeps
  <2> QED
    BY <2>1, <2>2 DEF Return, Unbegun, ring
<1>3. CASE (Look(p) /\ Rows(since[p]) = {}) \/ Subscribe(p)
  <2>1. PICK t \in {"looked", "waiting"} : tail' = [tail EXCEPT ![p] = t]
    BY <1>3 DEF Look, Subscribe
  <2>2. /\ tail[p] # "idle"
        /\ UNCHANGED <<last, at, of, ring, log, owes, sess, clean, since, cursor, given>>
    BY <1>3 DEF Look, Subscribe
  <2>3. TypeOK'
    BY <2>1, <2>2 DEF TypeOK, ring, log, sess, clean
  <2>4. Behind'
    BY <2>1, <2>2 DEF TypeOK, Behind
  <2> QED
    BY <2>2, <2>3, <2>4 DEF Unbegun, ring
<1>4. CASE TimedOut(p)
  <2>1. tail[p] # "idle" /\ Return(p, {}) /\ {} \in SUBSET Rows(since[p])
    BY <1>4 DEF TimedOut
  <2>2. TypeOK' /\ Behind'
    BY <2>1, ReturnKeeps
  <2> QED
    BY <2>1, <2>2 DEF Return, Unbegun, ring
<1>5. CASE LookAgain(p)
  <2>1. tail[p] # "idle" /\ Return(p, Rows(since[p]))
    BY <1>5 DEF LookAgain
  <2>2. TypeOK' /\ Behind'
    BY <2>1, ReturnKeeps
  <2> QED
    BY <2>1, <2>2 DEF Return, Unbegun, ring
<1> QED
  BY <1>1, <1>2, <1>3, <1>4, <1>5 DEF Poll

\* Every step is well typed.
LEMMA NextTyped ==
  ASSUME TypeOK, Unbegun, Behind, [Next]_vars
  PROVE  TypeOK' /\ Unbegun'
<1>1. CASE \E i \in Id : Exchange(i)
  BY <1>1, ExchangeTyped
<1>2. CASE \E a \in Actor, i \in Id : Drop(a, i)
  BY <1>2, DropTyped
<1>3. CASE \E s \in Session : StartSession(s)
  BY <1>3 DEF StartSession, TypeOK, Unbegun, ring, log, clean, polls
<1>4. CASE \E c \in Cleaner : Clean(c)
  BY <1>4, CleanTyped
<1>5. CASE \E p \in Poller : Poll(p)
  BY <1>5, TailTyped
<1>6. CASE UNCHANGED vars
  BY <1>6 DEF vars, TypeOK, Unbegun, ring, log, sess, clean, polls
<1> QED
  BY <1>1, <1>2, <1>3, <1>4, <1>5, <1>6 DEF Next

-----------------------------------------------------------------------------
(* What the parts say, step by step.                                       *)

\* Only Tail gives or moves a cursor; the others may begin a flow or wake.
LEMMA StaysBehind ==
  ASSUME TypeOK, Unbegun, Behind, [Next]_vars
  PROVE  Behind'
<1>1. CASE \E p \in Poller : Poll(p)
  BY <1>1, TailTyped
<1>2. SUFFICES
        ASSUME last' \in {last, last + 1}, UNCHANGED <<since, cursor, given>>,
               \A p \in Poller : tail'[p] # "idle" => tail[p] # "idle"
        PROVE  Behind'
  <2>1. CASE \E i \in Id : Exchange(i)
    <3>1. PICK i \in Id : Exchange(i)
      BY <2>1
    <3>2. last' \in {last, last + 1} /\ UNCHANGED <<since, cursor, given>>
      BY <3>1 DEF Exchange, Begin, Started, Updated, Done, Sink, Published, Held, Add, polls
    <3>3. \A p \in Poller : tail'[p] # "idle" => tail[p] # "idle"
      BY <3>1 DEF Exchange, Begin, Started, Updated, Done, Sink, Published, Held, Add, polls
    <3> QED
      BY <1>2, <3>2, <3>3
  <2>2. CASE \/ \E a \in Actor, i \in Id : Drop(a, i)
             \/ \E s \in Session : StartSession(s)
             \/ \E c \in Cleaner : Clean(c)
             \/ UNCHANGED vars
    <3>1. UNCHANGED <<last, polls>>
      BY <2>2 DEF Drop, StartSession, Clean, Forget, DeleteFlows, Deleted, Clear, Wipe, vars
    <3> QED
      BY <1>2, <3>1 DEF polls
  <2> QED
    BY <1>1, <2>1, <2>2 DEF Next
<1>3. \A p \in Poller : last \in Nat /\ cursor[p] \in Nat /\ since[p] \in Nat
  BY IdsAreNumbers DEF TypeOK
<1> QED
  BY <1>2, <1>3 DEF Behind

\* A cleaner is free before it removes flows, and when it has called back.
LEMMA StaysFree ==
  ASSUME TypeOK, Free, [Next]_vars
  PROVE  Free'
<1>1. CASE \E i \in Id : Exchange(i)
  <2>1. PICK i \in Id : Exchange(i)
    BY <1>1
  <2>2. CASE Started(i) \/ Updated(i) \/ Done(i)
    <3>1. Upsert(i) /\ UNCHANGED doing
      BY <2>2 DEF Started, Updated, Done, Sink, clean
    <3>2. \A a \in Actor \ {i} : owes'[a] = owes[a]
      BY <3>1, UpsertKeeps
    <3>3. \A c \in Cleaner : c \in Actor \ {i}
      BY ConstantsAssumption DEF ConstantsAssumption, Actor
    <3> QED
      BY <3>1, <3>2, <3>3 DEF Free
  <2>3. CASE Begin(i) \/ Published(i) \/ Held(i) \/ Add(i)
    BY <2>3 DEF Begin, Published, Held, Add, clean, Free
  <2> QED
    BY <2>1, <2>2, <2>3 DEF Exchange
<1>2. CASE \E a \in Actor, i \in Id : Drop(a, i)
  <2>1. PICK a \in Actor, i \in Id : Drop(a, i)
    BY <1>2
  <2>2. owes' = [owes EXCEPT ![a] = @ \ {i}] /\ UNCHANGED doing
    BY <2>1 DEF Drop, clean
  <2>3. \A c \in Cleaner : c \in Actor /\ owes'[c] \subseteq owes[c]
    BY <2>2 DEF TypeOK, Actor
  <2> QED
    BY <2>2, <2>3 DEF Free
<1>3. CASE \E c \in Cleaner : Clean(c)
  <2>1. PICK c \in Cleaner : Clean(c)
    BY <1>3
  <2>2. CASE DeleteFlows(c) \/ Clear(c)
    <3>1. PICK d \in {"drop", "wipe"} : doing' = [doing EXCEPT ![c] = d]
      BY <2>2 DEF DeleteFlows, Clear
    <3>2. PICK S : Delete(c, S)
      BY <2>2 DEF DeleteFlows, Clear
    <3>3. \A a \in Actor \ {c} : owes'[a] = owes[a]
      BY <3>2, DeleteKeeps
    <3> QED
      BY <3>1, <3>3 DEF Free, TypeOK, Actor
  <2>3. CASE \/ \E s \in Session : Forget(c, s)
             \/ Deleted(c) \/ Wipe(c)
    <3>1. PICK d \in {"idle", "delete"} : doing' = [doing EXCEPT ![c] = d]
      BY <2>3 DEF Forget, Deleted, Wipe
    <3>2. owes[c] = {} /\ UNCHANGED owes
      BY <2>3 DEF Forget, Deleted, Wipe, Free
    <3> QED
      BY <3>1, <3>2 DEF Free, TypeOK
  <2> QED
    BY <2>1, <2>2, <2>3 DEF Clean
<1>4. CASE \/ \E s \in Session : StartSession(s)
           \/ \E p \in Poller : Poll(p)
           \/ UNCHANGED vars
  BY <1>4 DEF StartSession, Poll, Call, Look, Subscribe, TimedOut, LookAgain, Return, vars, clean, Free
<1> QED
  BY <1>1, <1>2, <1>3, <1>4 DEF Next

\* Messages are kept with their flow, or dropped after it.
LEMMA StaysTogether ==
  ASSUME TypeOK, Unbegun, Free, LogFollowsRing, [Next]_vars
  PROVE  LogFollowsRing'
<1>1. CASE \E i \in Id : Exchange(i)
  <2>1. PICK i \in Id : Exchange(i)
    BY <1>1
  <2>2. CASE Begin(i)
    <3>1. at[i] = "none" /\ at' = [at EXCEPT ![i] = "begun"] /\ UNCHANGED <<place, msgs, owes>>
      BY <2>2, IdsAreNumbers DEF Begin, Unbegun, TypeOK, ring, log
    <3> QED
      BY <3>1 DEF LogFollowsRing, Logged, InRing, TypeOK
  <2>3. CASE Started(i) \/ Updated(i) \/ Done(i)
    <3>1. /\ Upsert(i) /\ owes[i] = {} /\ UNCHANGED msgs
          /\ \E to \in Stages : at' = [at EXCEPT ![i] = to]
      BY <2>3 DEF Started, Updated, Done, Sink, Stages, log
    <3>2. /\ \A a \in Actor \ {i} : owes'[a] = owes[a]
          /\ place'[i] > 0
          /\ \A j \in Id : place[j] > 0 => place'[j] > 0 \/ j \in owes'[i]
      BY <3>1, UpsertKeeps
    <3>3. SUFFICES ASSUME NEW j \in Id, msgs[j] > 0, j # i
                   PROVE  \/ place'[j] > 0 \/ at'[j] = "updated"
                          \/ \E a \in Actor : j \in owes'[a]
      BY <3>1, <3>2 DEF LogFollowsRing, Logged, InRing
    <3>4. place[j] > 0 \/ at[j] = "updated" \/ \E a \in Actor : j \in owes[a]
      BY <3>3 DEF LogFollowsRing, Logged, InRing
    <3>5. at'[j] = at[j]
      BY <3>1, <3>3 DEF TypeOK
    <3> QED
      BY <3>1, <3>2, <3>4, <3>5 DEF Actor
  <2>4. CASE Published(i)
    <3>1. at[i] = "done" /\ at' = [at EXCEPT ![i] = "over"] /\ UNCHANGED <<place, msgs, owes>>
      BY <2>4 DEF Published, ring, log
    <3> QED
      BY <3>1 DEF LogFollowsRing, Logged, InRing, TypeOK
  <2>5. CASE Held(i)
    BY <2>5 DEF Held, LogFollowsRing, Logged, InRing, ring, log
  <2>6. CASE Add(i)
    <3>1. /\ at[i] = "updated" /\ UNCHANGED <<at, place, owes>>
          /\ \A j \in Id : j # i /\ msgs'[j] > 0 => msgs[j] > 0
      BY <2>6 DEF Add, TypeOK, ring
    <3> QED
      BY <3>1 DEF LogFollowsRing, Logged, InRing
  <2> QED
    BY <2>1, <2>2, <2>3, <2>4, <2>5, <2>6 DEF Exchange
<1>2. CASE \E a \in Actor, i \in Id : Drop(a, i)
  <2>1. PICK a \in Actor, i \in Id : Drop(a, i)
    BY <1>2
  <2>2. /\ owes' = [owes EXCEPT ![a] = @ \ {i}] /\ msgs' = [msgs EXCEPT ![i] = 0]
        /\ UNCHANGED <<at, place>>
    BY <2>1 DEF Drop, ring
  <2>3. ASSUME NEW j \in Id, msgs'[j] > 0
        PROVE  j # i /\ msgs[j] > 0
    BY <2>2, <2>3 DEF TypeOK
  <2>4. \A b \in Actor, j \in Id : j # i /\ j \in owes[b] => j \in owes'[b]
    BY <2>2 DEF TypeOK
  <2> QED
    BY <2>2, <2>3, <2>4 DEF LogFollowsRing, Logged, InRing
<1>3. CASE \E c \in Cleaner : Clean(c)
  <2>1. PICK c \in Cleaner : Clean(c)
    BY <1>3
  <2>2. CASE DeleteFlows(c) \/ Clear(c)
    <3>1. PICK S : Delete(c, S)
      BY <2>2 DEF DeleteFlows, Clear
    <3>2. UNCHANGED <<at, msgs>> /\ owes[c] = {}
      BY <2>2 DEF DeleteFlows, Clear, Free, log
    <3>3. /\ \A a \in Actor \ {c} : owes'[a] = owes[a]
          /\ owes'[c] = InRing \cap S
          /\ \A j \in Id : place'[j] > 0 <=> j \in InRing \ S
      BY <3>1, DeleteKeeps
    <3>4. c \in Actor
      BY DEF Actor
    <3> QED
      BY <3>2, <3>3, <3>4 DEF LogFollowsRing, Logged, InRing
  <2>3. CASE (\E s \in Session : Forget(c, s)) \/ Deleted(c)
    BY <2>3 DEF Forget, Deleted, LogFollowsRing, Logged, InRing, ring, log
  <2>4. CASE Wipe(c)
    BY <2>4 DEF Wipe, LogFollowsRing, Logged
  <2> QED
    BY <2>1, <2>2, <2>3, <2>4 DEF Clean
<1>4. CASE \/ \E s \in Session : StartSession(s)
           \/ \E p \in Poller : Poll(p)
           \/ UNCHANGED vars
  <2>1. UNCHANGED <<at, place, msgs, owes>>
    BY <1>4 DEF StartSession, Poll, Call, Look, Subscribe, TimedOut, LookAgain, Return, vars, ring, log
  <2> QED
    BY <2>1 DEF LogFollowsRing, Logged, InRing
<1> QED
  BY <1>1, <1>2, <1>3, <1>4 DEF Next

\* Sessions that go are being deleted, and what is in flight then is known.
LEMMA StaysKept ==
  ASSUME TypeOK, Unbegun, Kept, [Next]_vars
  PROVE  Kept'
<1>1. CASE \E i \in Id : Exchange(i)
  <2>1. PICK i \in Id : Exchange(i)
    BY <1>1
  <2>2. CASE Begin(i)
    <3>1. /\ of' = [of EXCEPT ![i] = current] /\ at' = [at EXCEPT ![i] = "begun"]
          /\ UNCHANGED <<place, sess, clean>>
      BY <2>2 DEF Begin, ring
    <3>2. of'[i] \in sessions' /\ current' \in sessions'
      BY <3>1 DEF Kept, TypeOK, sess
    <3>3. ASSUME NEW j \in Id, j # i
          PROVE  of'[j] = of[j] /\ at'[j] = at[j]
      BY <3>1, <3>3 DEF TypeOK
    <3> QED
      BY <3>1, <3>2, <3>3 DEF Kept, InRing, InFlight, sess, clean
  <2>3. CASE Started(i) \/ Updated(i) \/ Done(i)
    <3>1. /\ InFlight(i) /\ Upsert(i) /\ UNCHANGED <<of, sess, clean>>
          /\ \E to \in Stages : at' = [at EXCEPT ![i] = to]
      BY <2>3 DEF Started, Updated, Done, Sink, Stages, InFlight
    <3>2. \A j \in Id : j # i /\ place[j] = 0 => place'[j] = 0
      BY <3>1, UpsertKeeps
    <3>3. ASSUME NEW j \in Id, j \in InRing' \/ InFlight(j)'
          PROVE  j \in InRing \/ InFlight(j)
      BY <3>1, <3>2, <3>3 DEF TypeOK, InRing, InFlight
    <3> QED
      BY <3>1, <3>3 DEF Kept, sess, clean
  <2>4. CASE Published(i)
    <3>1. /\ at[i] = "done" /\ at' = [at EXCEPT ![i] = "over"]
          /\ UNCHANGED <<place, of, sess, clean>>
      BY <2>4 DEF Published, ring
    <3>2. ASSUME NEW j \in Id, j \in InRing' \/ InFlight(j)'
          PROVE  j \in InRing \/ InFlight(j)
      BY <3>1, <3>2 DEF TypeOK, InRing, InFlight
    <3> QED
      BY <3>1, <3>2 DEF Kept, sess, clean
  <2>5. CASE Held(i) \/ Add(i)
    <3>1. UNCHANGED <<at, place, of, sess, clean>>
      BY <2>5 DEF Held, Add, ring
    <3> QED
      BY <3>1 DEF Kept, InRing, InFlight, sess, clean
  <2> QED
    BY <2>1, <2>2, <2>3, <2>4, <2>5 DEF Exchange
<1>2. CASE \E s \in Session : StartSession(s)
  <2>1. PICK s \in Session : StartSession(s)
    BY <1>2
  <2>2. /\ sessions' = sessions \cup {s} /\ current' = s
        /\ UNCHANGED <<at, place, of, clean>>
    BY <2>1 DEF StartSession, ring
  <2> QED
    BY <2>2 DEF Kept, InRing, InFlight, clean
<1>3. CASE \E c \in Cleaner : Clean(c)
  <2>1. PICK c \in Cleaner : Clean(c)
    BY <1>3
  <2>2. CASE \E s \in Session : Forget(c, s)
    <3>1. PICK s \in Session : Forget(c, s)
      BY <2>2
    <3>2. /\ doing[c] = "idle" /\ s # current /\ sessions' = sessions \ {s}
          /\ doing' = [doing EXCEPT ![c] = "delete"] /\ target' = [target EXCEPT ![c] = s]
          /\ UNCHANGED <<at, place, of, current, late>>
      BY <3>1 DEF Forget, ring
    <3>3. doing'[c] = "delete" /\ target'[c] = s
      BY <3>2 DEF TypeOK
    <3>4. ASSUME NEW d \in Cleaner, doing[d] = "delete"
          PROVE  doing'[d] = "delete" /\ target'[d] = target[d]
      BY <3>2, <3>4 DEF TypeOK
    <3>5. current' \in sessions'
      BY <3>2 DEF Kept
    <3>6. ASSUME NEW i \in Id, i \in InRing' \/ InFlight(i)'
          PROVE  \/ of'[i] \in sessions'
                 \/ \E d \in Cleaner : doing'[d] = "delete" /\ target'[d] = of'[i]
                 \/ i \in late'
      <4>1. i \in InRing \/ InFlight(i)
        BY <3>2, <3>6 DEF InRing, InFlight
      <4>2. CASE of[i] \in sessions
        BY <3>2, <3>3, <4>2
      <4>3. CASE i \in late \/ \E d \in Cleaner : doing[d] = "delete" /\ target[d] = of[i]
        BY <3>2, <3>4, <4>3
      <4> QED
        BY <4>1, <4>2, <4>3 DEF Kept
    <3> QED
      BY <3>5, <3>6 DEF Kept
  <2>3. CASE DeleteFlows(c)
    <3> DEFINE S == {i \in Id : of[i] = target[c]}
    <3>1. /\ Delete(c, S) /\ late' = late \cup {i \in S : InFlight(i)}
          /\ doing' = [doing EXCEPT ![c] = "drop"]
          /\ UNCHANGED <<at, of, sess, target>>
      BY <2>3 DEF DeleteFlows
    <3>2. \A j \in Id : place'[j] > 0 <=> j \in InRing \ S
      BY <3>1, DeleteKeeps
    <3>3. ASSUME NEW d \in Cleaner, doing[d] = "delete", d # c
          PROVE  doing'[d] = "delete"
      BY <3>1, <3>3 DEF TypeOK
    <3>4. ASSUME NEW i \in Id, i \in InRing' \/ InFlight(i)'
          PROVE  \/ of'[i] \in sessions'
                 \/ \E d \in Cleaner : doing'[d] = "delete" /\ target'[d] = of'[i]
                 \/ i \in late'
      <4>1. i \in InRing \/ InFlight(i)
        BY <3>1, <3>2, <3>4 DEF InRing, InFlight
      <4>2. CASE i \in S
        BY <3>1, <3>2, <3>4, <4>2 DEF InRing, InFlight
      <4>3. CASE i \notin S
        <5>1. of[i] # target[c]
          BY <4>3
        <5> QED
          BY <3>1, <3>3, <4>1, <5>1 DEF Kept, sess
      <4> QED
        BY <4>2, <4>3
    <3> QED
      BY <3>1, <3>4 DEF Kept, sess
  <2>4. CASE Clear(c)
    <3>1. /\ Delete(c, Id) /\ doing[c] = "idle" /\ doing' = [doing EXCEPT ![c] = "wipe"]
          /\ UNCHANGED <<at, of, sess, target, late>>
      BY <2>4 DEF Clear
    <3>2. \A j \in Id : place'[j] > 0 <=> j \in InRing \ Id
      BY <3>1, DeleteKeeps
    <3>3. ASSUME NEW d \in Cleaner, doing[d] = "delete"
          PROVE  doing'[d] = "delete"
      BY <3>1, <3>3 DEF TypeOK
    <3> QED
      BY <3>1, <3>2, <3>3 DEF Kept, InRing, InFlight, sess
  <2>5. CASE Deleted(c) \/ Wipe(c)
    <3>1. /\ doing[c] # "delete" /\ doing' = [doing EXCEPT ![c] = "idle"]
          /\ UNCHANGED <<at, place, of, sess, target, late>>
      BY <2>5 DEF Deleted, Wipe, ring
    <3>2. ASSUME NEW d \in Cleaner, doing[d] = "delete"
          PROVE  doing'[d] = "delete"
      BY <3>1, <3>2 DEF TypeOK
    <3> QED
      BY <3>1, <3>2 DEF Kept, InRing, InFlight, sess
  <2> QED
    BY <2>1, <2>2, <2>3, <2>4, <2>5 DEF Clean
<1>4. CASE \/ \E a \in Actor, i \in Id : Drop(a, i)
           \/ \E p \in Poller : Poll(p)
           \/ UNCHANGED vars
  <2>1. UNCHANGED <<at, place, of, sess, clean>>
    BY <1>4 DEF Drop, Poll, Call, Look, Subscribe, TimedOut, LookAgain, Return, vars, ring
  <2> QED
    BY <2>1 DEF Kept, InRing, InFlight, sess, clean
<1> QED
  BY <1>1, <1>2, <1>3, <1>4 DEF Next

-----------------------------------------------------------------------------
(* The ring, step by step.                                                 *)

\* A new flow takes the place after the newest or, when the ring is full, the
\* newest when all others have moved down and the oldest is out.
LEMMA UpsertNumbers ==
  ASSUME TypeOK, RingNumbered, NEW i \in Id, Upsert(i)
  PROVE  RingNumbered'
<1> USE ConstantsAssumption DEF ConstantsAssumption
<1>1. /\ count \in Nat /\ count <= Cap /\ place \in [Id -> Nat]
      /\ \A j \in Id : place[j] > 0 => place[j] \in 1..count
      /\ \A j, k \in Id : place[j] > 0 /\ place[j] = place[k] => j = k
      /\ \A n \in 1..count : \E j \in Id : place[j] = n
  BY DEF TypeOK, RingNumbered, Numbered, InRing
<1>2. CASE place[i] > 0
  BY <1>2 DEF Upsert, RingNumbered, Numbered, InRing, ring
<1>3. CASE ~(place[i] > 0) /\ Oldest(i) = {}
  <2>1. count' = count + 1 /\ place' = [place EXCEPT ![i] = count + 1]
    BY <1>3 DEF Upsert
  <2>2. count # Cap
    <3> SUFFICES ASSUME count = Cap PROVE FALSE
      OBVIOUS
    <3>1. PICK j \in Id : place[j] = 1
      BY <1>1
    <3>2. place[i] = 0
      BY <1>1, <1>3
    <3> QED
      BY <1>3, <3>1, <3>2 DEF Oldest
  <2>3. count' \in Nat /\ count' <= Cap
    BY <1>1, <2>1, <2>2
  <2>4. /\ place'[i] = count + 1 /\ place[i] = 0
        /\ \A j \in Id : j # i => place'[j] = place[j]
    BY <1>1, <1>3, <2>1
  <2>5. \A j \in Id : place'[j] > 0 => place'[j] \in 1..count'
    BY <1>1, <2>1, <2>4
  <2>6. \A j, k \in Id : place'[j] > 0 /\ place'[j] = place'[k] => j = k
    <3> SUFFICES ASSUME NEW j \in Id, NEW k \in Id, place'[j] > 0, place'[j] = place'[k] PROVE j = k
      OBVIOUS
    <3>1. \A l \in Id : place[l] # count + 1
      BY <1>1
    <3> QED
      BY <1>1, <2>4, <3>1
  <2>7. \A n \in 1..count' : \E j \in Id : place'[j] = n
    <3> SUFFICES ASSUME NEW n \in 1..count' PROVE \E j \in Id : place'[j] = n
      OBVIOUS
    <3>1. n = count + 1 \/ n \in 1..count
      BY <1>1, <2>1
    <3>2. CASE n \in 1..count
      <4>1. PICK j \in Id : place[j] = n
        BY <1>1, <3>2
      <4> QED
        BY <2>4, <3>2, <4>1
    <3> QED
      BY <2>4, <3>1, <3>2
  <2> QED
    BY <2>3, <2>5, <2>6, <2>7 DEF RingNumbered, Numbered, InRing
<1>4. CASE ~(place[i] > 0) /\ Oldest(i) # {}
  <2>1. /\ place' = [j \in Id |-> IF j = i THEN count
                                  ELSE IF place[j] = 0 THEN 0 ELSE place[j] - 1]
        /\ count' = count
    BY <1>4 DEF Upsert, ring
  <2>2. count = Cap /\ place[i] = 0 /\ count > 0
    BY <1>1, <1>4 DEF Oldest
  <2>3. /\ place'[i] = count
        /\ \A j \in Id : j # i => place'[j] = IF place[j] = 0 THEN 0 ELSE place[j] - 1
    BY <2>1
  <2>4. \A j \in Id : place[j] \in Nat
    BY <1>1
  <2>5. \A j \in Id : place'[j] > 0 => place'[j] \in 1..count'
    BY <1>1, <2>1, <2>2, <2>3, <2>4
  <2>6. \A j, k \in Id : place'[j] > 0 /\ place'[j] = place'[k] => j = k
    <3> SUFFICES ASSUME NEW j \in Id, NEW k \in Id, place'[j] > 0, place'[j] = place'[k] PROVE j = k
      OBVIOUS
    <3>1. \A l \in Id : l # i => place'[l] # count
      BY <1>1, <2>2, <2>3, <2>4
    <3>2. CASE j # i /\ k # i
      <4>1. place[j] > 0 /\ place[j] = place[k]
        BY <2>3, <2>4, <3>2
      <4> QED
        BY <1>1, <4>1
    <3> QED
      BY <2>3, <3>1, <3>2
  <2>7. \A n \in 1..count' : \E j \in Id : place'[j] = n
    <3> SUFFICES ASSUME NEW n \in 1..count' PROVE \E j \in Id : place'[j] = n
      OBVIOUS
    <3>1. n = count \/ (n \in 1..count /\ n + 1 \in 1..count)
      BY <1>1, <2>1
    <3>2. CASE n \in 1..count /\ n + 1 \in 1..count
      <4>1. PICK j \in Id : place[j] = n + 1
        BY <1>1, <3>2
      <4>2. place[j] # 0 /\ place[j] - 1 = n /\ j # i
        BY <2>2, <3>2, <4>1
      <4> QED
        BY <2>3, <4>2
    <3> QED
      BY <2>3, <3>1, <3>2
  <2> QED
    BY <1>1, <2>1, <2>5, <2>6, <2>7 DEF RingNumbered, Numbered, InRing
<1> QED
  BY <1>2, <1>3, <1>4

\* The flows that a delete leaves close up.
LEMMA DeleteNumbers ==
  ASSUME TypeOK, RingNumbered, NEW c \in Cleaner, NEW S, Delete(c, S)
  PROVE  RingNumbered'
<1>1. InRing \ S \in SUBSET InRing /\ InRing \in SUBSET Id /\ InRing \ S \in SUBSET Id
  BY DEF InRing
<1>2. place \in [Id -> Nat] /\ count \in Nat /\ count <= Cap /\ Cap \in Nat
  BY ConstantsAssumption DEF TypeOK, RingNumbered, ConstantsAssumption
<1>3. place' = Ranked(InRing \ S, place) /\ count' = Cardinality(InRing \ S)
  BY DEF Delete
<1>4. \A j, k \in InRing \ S : place[j] = place[k] => j = k
  BY DEF RingNumbered, Numbered
<1>5. Numbered(InRing \ S, place', count')
  BY <1>1, <1>2, <1>3, <1>4, RankedNumbers
<1>6. InRing' = InRing \ S
  <2>1. \A j \in Id : place'[j] > 0 <=> j \in InRing \ S
    BY DeleteKeeps
  <2> QED
    BY <1>1, <2>1 DEF InRing
<1>7. Cardinality(InRing) = count
  BY <1>1, <1>2, NumberedCounts DEF RingNumbered
<1>8. Cardinality(InRing \ S) \in Nat /\ Cardinality(InRing \ S) <= Cardinality(InRing)
  BY <1>1, IdsAreFinite, FS_Subset, FS_CardinalityType
<1>9. count' <= Cap
  BY <1>2, <1>3, <1>7, <1>8
<1> QED
  BY <1>5, <1>6, <1>9 DEF RingNumbered

\* Nothing else moves a flow.
LEMMA StaysNumbered ==
  ASSUME TypeOK, RingNumbered, [Next]_vars
  PROVE  RingNumbered'
<1>1. CASE \E i \in Id : Started(i) \/ Updated(i) \/ Done(i)
  <2>1. PICK i \in Id : Upsert(i)
    BY <1>1 DEF Started, Updated, Done, Sink
  <2> QED
    BY <2>1, UpsertNumbers
<1>2. CASE \E c \in Cleaner : DeleteFlows(c) \/ Clear(c)
  <2>1. PICK c \in Cleaner : DeleteFlows(c) \/ Clear(c)
    BY <1>2
  <2>2. PICK S : Delete(c, S)
    BY <2>1 DEF DeleteFlows, Clear
  <2> QED
    BY <2>2, DeleteNumbers
<1>3. CASE UNCHANGED ring
  BY <1>3 DEF RingNumbered, Numbered, InRing, ring
<1>4. ASSUME NEW i \in Id, Exchange(i), ~(Started(i) \/ Updated(i) \/ Done(i))
      PROVE  UNCHANGED ring
  BY <1>4 DEF Exchange, Begin, Published, Held, Add
<1>5. ASSUME NEW c \in Cleaner, Clean(c), ~(DeleteFlows(c) \/ Clear(c))
      PROVE  UNCHANGED ring
  BY <1>5 DEF Clean, Forget, Deleted, Wipe
<1>6. ASSUME \/ \E a \in Actor, i \in Id : Drop(a, i)
             \/ \E s \in Session : StartSession(s)
             \/ \E p \in Poller : Poll(p)
             \/ UNCHANGED vars
      PROVE  UNCHANGED ring
  BY <1>6 DEF Drop, StartSession, Poll, Call, Look, Subscribe, TimedOut, LookAgain, Return, vars
<1> QED
  BY <1>1, <1>2, <1>3, <1>4, <1>5, <1>6 DEF Next

-----------------------------------------------------------------------------
(* The log, step by step.                                                  *)

\* If flows go from the log and the others close up, those that are newer than
\* one of them have no more messages than they had.
LEMMA NewerOfRanked ==
  ASSUME NEW m \in [Id -> Nat], NEW n \in [Id -> Nat], NEW p \in [Id -> Nat],
         NEW S \in SUBSET Id, \A j, k \in S : p[j] = p[k] => j = k,
         \A k \in S : n[k] <= m[k], NEW i \in S
  PROVE  /\ Newer(m, p, i) \in Nat /\ Newer(n, Ranked(S, p), i) \in Nat
         /\ Newer(n, Ranked(S, p), i) <= Newer(m, p, i)
<1> DEFINE r == Ranked(S, p)
           A == {k \in Id : r[k] > r[i]}
           B == {k \in Id : p[k] > p[i]}
<1>1. /\ r \in [Id -> Nat] /\ \A k \in Id : r[k] > 0 <=> k \in S
      /\ \A j, k \in S : r[j] < r[k] <=> p[j] < p[k]
  BY RankedIsPlace, RankedNumbers
<1> HIDE DEF r
<1>2. A \subseteq S /\ A \in SUBSET Id
  <2>1. r[i] \in Nat /\ \A k \in Id : r[k] \in Nat
    BY <1>1
  <2>2. \A k \in Id : r[k] > r[i] => r[k] > 0
    BY <2>1
  <2> QED
    BY <1>1, <2>2
<1>3. A \in SUBSET B /\ B \in SUBSET Id
  <2>1. \A k \in A : p[i] < p[k]
    BY <1>1, <1>2
  <2>2. \A k \in Id : p[k] \in Nat
    OBVIOUS
  <2> QED
    BY <1>2, <2>1, <2>2
<1>4. Newer(m, p, i) = SumFunctionOnSet(m, B) /\ Newer(n, r, i) = SumFunctionOnSet(n, A)
  BY DEF Newer
<1> HIDE DEF A, B
<1>5. IsFiniteSet(A) /\ IsFiniteSet(B)
  BY <1>2, <1>3, IdsAreFinite
<1>6. /\ \A k \in B : m[k] \in Nat
      /\ \A k \in A : n[k] \in Nat /\ m[k] \in Nat /\ n[k] <= m[k]
  BY <1>2, <1>3
<1>7. SumFunctionOnSet(n, A) <= SumFunctionOnSet(m, A)
  BY <1>5, <1>6, SumBelow
<1>8. SumFunctionOnSet(m, A) <= SumFunctionOnSet(m, B)
  BY <1>3, <1>5, <1>6, SumOfPart
<1>9. SumFunctionOnSet(n, A) \in Nat /\ SumFunctionOnSet(m, A) \in Nat /\ SumFunctionOnSet(m, B) \in Nat
  BY <1>5, <1>6, SumSteps
<1> QED
  BY <1>4, <1>7, <1>8, <1>9 DEF r

\* The flows that are kept when one logs are numbered, and within the budget.
LEMMA AddNumbers ==
  ASSUME TypeOK, LogNumbered, LogSlack, NEW i \in Id, Add(i)
  PROVE  LogNumbered' /\ LogSlack'
<1> USE ConstantsAssumption DEF ConstantsAssumption
<1> DEFINE m == [msgs EXCEPT ![i] = Keep(@)]
           c == Cardinality(Logged)
           p == IF i \in Logged THEN order ELSE [order EXCEPT ![i] = c + 1]
           gone == OverBudget(m, p, i)
           S == {j \in Id : m[j] > 0} \ gone
<1>1. msgs' = [j \in Id |-> IF j \in gone THEN 0 ELSE m[j]] /\ order' = Ranked(S, p)
  BY DEF Add
<1>2. msgs \in [Id -> 0..PerFlow] /\ order \in [Id -> Nat] /\ Logged \in SUBSET Id
  BY DEF TypeOK, Logged
<1>3. c \in Nat
  BY <1>2, CountOfIds
<1>4. Keep(msgs[i]) \in 1..PerFlow
  BY <1>2 DEF Keep
<1>5. /\ m \in [Id -> Nat] /\ m[i] > 0
      /\ \A j \in Id : j # i => m[j] = msgs[j]
  BY <1>2, <1>4
<1>6. \A j \in Id : order[j] > 0 <=> j \in Logged
  BY DEF LogNumbered
<1>7. \A j \in Logged : order[j] <= c
  BY DEF LogNumbered, Numbered
<1>8. \A j, k \in Logged : order[j] = order[k] => j = k
  BY DEF LogNumbered, Numbered
<1> HIDE DEF m, c
<1>9. /\ p \in [Id -> Nat] /\ \A j \in Id : j # i => p[j] = order[j]
      /\ p[i] = IF i \in Logged THEN order[i] ELSE c + 1
  BY <1>2, <1>3
<1> HIDE DEF p
<1>10. \A j \in Id : m[j] > 0 <=> j \in Logged \cup {i}
  BY <1>5 DEF Logged
<1>11. \A j, k \in Logged \cup {i} : p[j] = p[k] => j = k
  <2> SUFFICES ASSUME NEW j \in Logged \cup {i}, NEW k \in Logged \cup {i}, p[j] = p[k], j # k
               PROVE  FALSE
    OBVIOUS
  <2>1. \A l \in Logged : order[l] # c + 1
    BY <1>2, <1>3, <1>7
  <2> QED
    BY <1>2, <1>8, <1>9, <2>1
<1>12. S \in SUBSET Id /\ S \subseteq Logged \cup {i}
  BY <1>10
<1>13. \A j \in S : j \notin gone /\ m[j] > 0
  OBVIOUS
<1>14. \A j \in Id : msgs'[j] > 0 <=> j \in S
  BY <1>1
<1>15. \A j \in S : msgs'[j] = m[j]
  BY <1>1
<1>16. msgs' \in [Id -> Nat]
  BY <1>1, <1>5
<1> HIDE DEF S
<1>17. Logged' = S
  BY <1>12, <1>14 DEF Logged
<1>18. LogNumbered'
  <2>1. \A j, k \in S : p[j] = p[k] => j = k
    BY <1>11, <1>12
  <2>2. Numbered(S, Ranked(S, p), Cardinality(S))
    BY <1>9, <1>12, <2>1, RankedNumbers
  <2>3. \A j \in Id : Ranked(S, p)[j] > 0 <=> j \in S
    BY <1>9, <1>12, RankedIsPlace
  <2> QED
    BY <1>1, <1>17, <2>2, <2>3 DEF LogNumbered
<1>19. ASSUME NEW j \in S PROVE Newer(m, p, j) < Budget
  <2> DEFINE B == {k \in Id : p[k] > p[j]}
             C == {k \in Id : p[k] >= p[j]}
  <2>1. j \in Id /\ p[j] \in Nat /\ p[i] \in Nat /\ m[j] \in Nat /\ m[j] > 0
    BY <1>5, <1>9, <1>12, <1>13
  <2>2. Newer(m, p, j) = SumFunctionOnSet(m, B)
    BY DEF Newer
  <2>3. CASE p[j] < p[i]
    <3>1. j \notin gone
      BY <1>13
    <3>2. ~(SumFunctionOnSet(m, C) > Budget)
      BY <2>1, <2>3, <3>1 DEF OverBudget, Used
    <3>3. B \in SUBSET (C \ {j}) /\ C \in SUBSET Id /\ C \ {j} \in SUBSET Id /\ j \in C
      <4>1. \A k \in Id : p[k] \in Nat
        BY <1>9
      <4> QED
        BY <2>1, <4>1
    <3> HIDE DEF B, C
    <3>4. IsFiniteSet(C) /\ IsFiniteSet(C \ {j}) /\ IsFiniteSet(B)
      BY <3>3, IdsAreFinite
    <3>5. \A k \in C : m[k] \in Nat
      BY <1>5, <3>3
    <3>6. SumFunctionOnSet(m, C) = m[j] + SumFunctionOnSet(m, C \ {j})
      BY <3>3, <3>4, <3>5, SumTakes
    <3>7. SumFunctionOnSet(m, B) <= SumFunctionOnSet(m, C \ {j})
      BY <3>3, <3>4, <3>5, SumOfPart
    <3>8. SumFunctionOnSet(m, C \ {j}) \in Nat
      BY <3>4, <3>5, SumSteps
    <3>9. SumFunctionOnSet(m, B) \in Nat
      BY <3>3, <3>4, <3>5, SumSteps
    <3> QED
      BY <2>1, <2>2, <3>2, <3>6, <3>7, <3>8, <3>9
  <2>4. CASE ~(p[j] < p[i]) /\ i \notin Logged
    <3>1. \A k \in Id : k # i => p[k] <= c
      <4>1. \A k \in Id : order[k] <= c
        BY <1>2, <1>3, <1>6, <1>7
      <4> QED
        BY <1>9, <4>1
    <3>2. p[i] = c + 1
      BY <1>9, <2>4
    <3>3. B = {}
      BY <1>3, <1>9, <2>1, <2>4, <3>1, <3>2
    <3> HIDE DEF B
    <3>4. SumFunctionOnSet(m, {}) = 0
      BY FS_EmptySet, SumOfZeroes
    <3> QED
      BY <2>2, <3>3, <3>4
  <2>5. CASE ~(p[j] < p[i]) /\ i \in Logged
    <3>1. \A k \in Id : p[k] = order[k]
      BY <1>9, <2>5
    <3>2. j \in Logged /\ Newer(msgs, order, j) < Budget
      BY <1>12, <2>5 DEF LogSlack
    <3>3. B \in SUBSET Id /\ B = {k \in Id : order[k] > order[j]}
      BY <1>12, <3>1
    <3>4. i \notin B
      BY <2>1, <2>5
    <3>5. Newer(msgs, order, j) = SumFunctionOnSet(msgs, B)
      BY <3>3 DEF Newer
    <3> HIDE DEF B
    <3>6. \A k \in B : m[k] \in Nat /\ m[k] = msgs[k]
      BY <1>5, <3>3, <3>4
    <3>7. SumFunctionOnSet(m, B) = SumFunctionOnSet(msgs, B)
      BY <3>3, <3>6, IdsAreFinite, SumSame
    <3> QED
      BY <2>2, <3>2, <3>5, <3>7
  <2> QED
    BY <2>3, <2>4, <2>5
<1>20. LogSlack'
  <2> SUFFICES ASSUME NEW j \in S PROVE Newer(msgs', Ranked(S, p), j) < Budget
    BY <1>1, <1>17 DEF LogSlack, Newer
  <2>1. \A k \in S : msgs'[k] <= m[k]
    BY <1>5, <1>12, <1>15
  <2>2. \A k, l \in S : p[k] = p[l] => k = l
    BY <1>11, <1>12
  <2>3. /\ Newer(m, p, j) \in Nat /\ Newer(msgs', Ranked(S, p), j) \in Nat
        /\ Newer(msgs', Ranked(S, p), j) <= Newer(m, p, j)
    BY <1>5, <1>9, <1>12, <1>16, <2>1, <2>2, NewerOfRanked
  <2> QED
    BY <1>19, <2>3
<1> QED
  BY <1>18, <1>20

\* If one flow is dropped the others are still.
LEMMA DropNumbers ==
  ASSUME TypeOK, LogNumbered, LogSlack, NEW a \in Actor, NEW i \in Id, Drop(a, i)
  PROVE  LogNumbered' /\ LogSlack'
<1> USE ConstantsAssumption DEF ConstantsAssumption
<1> DEFINE S == Logged \ {i}
<1>1. msgs' = [msgs EXCEPT ![i] = 0] /\ order' = Ranked(S, order)
  BY DEF Drop
<1>2. msgs \in [Id -> Nat] /\ order \in [Id -> Nat] /\ S \in SUBSET Id
  BY DEF TypeOK, Logged
<1>3. /\ msgs' \in [Id -> Nat] /\ \A j \in S : msgs'[j] = msgs[j]
      /\ \A j \in Id : msgs'[j] > 0 <=> j \in S
  BY <1>1, <1>2 DEF Logged
<1>4. \A j, k \in S : order[j] = order[k] => j = k
  BY DEF LogNumbered, Numbered
<1>5. S \subseteq Logged
  OBVIOUS
<1> HIDE DEF S
<1>6. Logged' = S
  BY <1>2, <1>3 DEF Logged
<1>7. Numbered(S, Ranked(S, order), Cardinality(S))
  BY <1>2, <1>4, RankedNumbers
<1>8. \A j \in Id : Ranked(S, order)[j] > 0 <=> j \in S
  BY <1>2, RankedIsPlace
<1>9. LogNumbered'
  BY <1>1, <1>6, <1>7, <1>8 DEF LogNumbered
<1>10. LogSlack'
  <2> SUFFICES ASSUME NEW j \in S PROVE Newer(msgs', Ranked(S, order), j) < Budget
    BY <1>1, <1>6 DEF LogSlack, Newer
  <2>1. \A k \in S : msgs'[k] <= msgs[k]
    BY <1>2, <1>3
  <2>2. /\ Newer(msgs, order, j) \in Nat /\ Newer(msgs', Ranked(S, order), j) \in Nat
        /\ Newer(msgs', Ranked(S, order), j) <= Newer(msgs, order, j)
    BY <1>2, <1>3, <1>4, <2>1, NewerOfRanked
  <2>3. Newer(msgs, order, j) < Budget
    BY <1>5 DEF LogSlack
  <2> QED
    BY <2>2, <2>3
<1> QED
  BY <1>9, <1>10

\* Nothing else but a clear, that empties it, touches the log.
LEMMA StaysBounded ==
  ASSUME TypeOK, LogNumbered, LogSlack, [Next]_vars
  PROVE  LogNumbered' /\ LogSlack'
<1>1. CASE \E i \in Id : Add(i)
  BY <1>1, AddNumbers
<1>2. CASE \E a \in Actor, i \in Id : Drop(a, i)
  BY <1>2, DropNumbers
<1>3. CASE \E c \in Cleaner : Wipe(c)
  <2>1. \A i \in Id : msgs'[i] = 0 /\ order'[i] = 0
    BY <1>3 DEF Wipe
  <2>2. Logged' = {}
    BY <2>1 DEF Logged
  <2>3. Cardinality(Logged') = 0
    BY <2>2, FS_EmptySet
  <2> QED
    BY <2>1, <2>2, <2>3 DEF LogNumbered, LogSlack, Numbered
<1>4. CASE UNCHANGED log
  BY <1>4 DEF LogNumbered, LogSlack, Numbered, Newer, Logged, log
<1>5. ASSUME NEW i \in Id, Exchange(i), ~Add(i)
      PROVE  UNCHANGED log
  BY <1>5 DEF Exchange, Begin, Published, Held, Started, Updated, Done, Sink
<1>6. ASSUME NEW c \in Cleaner, Clean(c), ~Wipe(c)
      PROVE  UNCHANGED log
  BY <1>6 DEF Clean, Forget, Deleted, DeleteFlows, Clear
<1>7. ASSUME \/ \E s \in Session : StartSession(s)
             \/ \E p \in Poller : Poll(p)
             \/ UNCHANGED vars
      PROVE  UNCHANGED log
  BY <1>7 DEF StartSession, Poll, Call, Look, Subscribe, TimedOut, LookAgain, Return, vars
<1> QED
  BY <1>1, <1>2, <1>3, <1>4, <1>5, <1>6, <1>7 DEF Next

-----------------------------------------------------------------------------
\* The parts hold together.
THEOREM Invariance == Spec => []Inv
<1>1. Init => Inv
  BY InitInv
<1>2. Inv /\ [Next]_vars => Inv'
  <2> SUFFICES ASSUME Inv, [Next]_vars PROVE Inv'
    OBVIOUS
  <2> USE DEF Inv
  <2>1. TypeOK' /\ Unbegun'
    BY NextTyped
  <2>2. Free'
    BY StaysFree
  <2>3. LogFollowsRing'
    BY StaysTogether
  <2>4. Kept'
    BY StaysKept
  <2>5. Behind'
    BY StaysBehind
  <2>6. RingNumbered'
    BY StaysNumbered
  <2>7. LogNumbered' /\ LogSlack'
    BY StaysBounded
  <2> QED
    BY <2>1, <2>2, <2>3, <2>4, <2>5, <2>6, <2>7
<1> QED
  BY <1>1, <1>2, PTL DEF Spec

\* Every reachable state is well typed, for any ring, log, sessions and clients.
THEOREM TypeCorrect == Spec => []TypeOK
<1>1. Inv => TypeOK
  BY DEF Inv
<1> QED
  BY <1>1, Invariance, PTL

\* Messages outlive their flow only in the hands of who is to drop them: an
\* eviction, a delete or a clear that calls back late loses track of none.
THEOREM FollowsHolds == Spec => []LogFollowsRing
<1>1. Inv => LogFollowsRing
  BY DEF Inv
<1> QED
  BY <1>1, Invariance, PTL

\* The flows of a deleted session go with it, those then in flight excepted.
THEOREM GoneHolds == Spec => []GoneIsGone
<1>1. Inv => GoneIsGone
  BY DEF Inv, Kept, GoneIsGone, InRing
<1> QED
  BY <1>1, Invariance, PTL

\* A client that follows its cursor is never given a flow again.
THEOREM GivenOnceHolds == Spec => []GivenOnce
<1>1. Inv => GivenOnce
  BY DEF Inv, Behind, GivenOnce
<1> QED
  BY <1>1, Invariance, PTL

\* With the oldest flow the log may be over its budget, by less than a flow.
LEMMA SlackBounds ==
  ASSUME TypeOK, LogNumbered, LogSlack
  PROVE  LogBounded
<1> USE ConstantsAssumption DEF ConstantsAssumption
<1>1. msgs \in [Id -> 0..PerFlow] /\ order \in [Id -> Nat] /\ Logged \in SUBSET Id
  BY DEF TypeOK, Logged
<1>2. IsFiniteSet(Id) /\ \A i \in Id : msgs[i] \in Nat
  BY <1>1, IdsAreFinite
<1>3. CASE Logged = {}
  <2>1. \A i \in Id : msgs[i] = 0
    BY <1>2, <1>3 DEF Logged
  <2>2. SumFunctionOnSet(msgs, Id) = 0
    BY <1>2, <2>1, SumOfZeroes
  <2> QED
    BY <2>2 DEF LogBounded, Used
<1>4. CASE Logged # {}
  <2>1. Cardinality(Logged) \in Nat /\ Cardinality(Logged) # 0
    BY <1>1, <1>4, IdsAreFinite, FS_EmptySet, FS_CardinalityType
  <2>2. PICK a \in Logged : order[a] = 1
    BY <2>1 DEF LogNumbered, Numbered
  <2> DEFINE R == {k \in Id : order[k] > order[a]}
             others == Id \ {a}
  <2>3. SumFunctionOnSet(msgs, Id) = msgs[a] + SumFunctionOnSet(msgs, others)
    BY <1>1, <1>2, <2>2, SumTakes
  <2>4. SumFunctionOnSet(msgs, R) < Budget
    BY <2>2 DEF LogSlack, Newer
  <2>5. R \in SUBSET others /\ others \in SUBSET Id
    BY <1>1, <2>2
  <2>6. \A k \in others \ R : msgs[k] = 0
    <3> SUFFICES ASSUME NEW k \in others \ R, msgs[k] # 0 PROVE FALSE
      OBVIOUS
    <3>1. k \in Logged
      BY <1>2 DEF Logged
    <3>2. order[k] > 0 /\ order[k] \in Nat
      BY <1>1, <3>1 DEF LogNumbered
    <3>3. order[k] = order[a]
      BY <2>2, <3>2
    <3>4. k = a
      BY <3>1, <3>3 DEF LogNumbered, Numbered
    <3> QED
      BY <3>4
  <2> HIDE DEF R, others
  <2>7. IsFiniteSet(others) /\ \A k \in others : msgs[k] \in Nat
    BY <1>2, <2>5, IdsAreFinite
  <2>8. SumFunctionOnSet(msgs, R) = SumFunctionOnSet(msgs, others)
    BY <2>5, <2>6, <2>7, SumOfSupport
  <2>9. SumFunctionOnSet(msgs, others) \in Nat
    BY <2>7, SumSteps
  <2>10. msgs[a] \in 0..PerFlow
    BY <1>1, <2>2
  <2> QED
    BY <2>3, <2>4, <2>8, <2>9, <2>10 DEF LogBounded, Used
<1> QED
  BY <1>3, <1>4

\* A ring whose places are numbered is in order.
LEMMA NumberedInOrder ==
  ASSUME TypeOK, RingNumbered
  PROVE  RingInOrder
<1>1. InRing \in SUBSET Id /\ count \in Nat /\ count <= Cap
  BY DEF TypeOK, InRing, RingNumbered
<1>2. Cardinality(InRing) = count
  BY <1>1, NumberedCounts DEF RingNumbered
<1>3. {place[i] : i \in InRing} = 1..count
  BY DEF RingNumbered, Numbered
<1> QED
  BY <1>1, <1>2, <1>3 DEF RingInOrder

\* The ring is never over its size, and has no gap and no place twice, whatever
\* is evicted, deleted or cleared in between.
THEOREM RingInOrderHolds == Spec => []RingInOrder
<1>1. Inv => RingInOrder
  BY NumberedInOrder DEF Inv
<1> QED
  BY <1>1, Invariance, PTL

\* The log stays within its budget and one flow's allowance, for any budget and
\* any number of flows that take turns.
THEOREM LogBoundedHolds == Spec => []LogBounded
<1>1. Inv => LogBounded
  BY SlackBounds DEF Inv
<1> QED
  BY <1>1, Invariance, PTL

-----------------------------------------------------------------------------
(* HAR files.                                                              *)

\* Times of a flow: all but the first may be zero, and they may be in any order.  A clock
\* is far from the zero time: farther than a handshake is long.
HarTimes == {t \in [start : Nat, dns : Nat, connected : Nat, tls : Nat, wrote : Nat, first : Nat, end : Nat] :
               t.start >= Milli /\ t.tls - t.connected + 2 * Milli <= t.start}

\* A duration of zero is read as zero.
ShortGiven == Short \subseteq Nat \ {0}

\* Durations of whole microseconds.
Micros == {Micro * k : k \in Nat}

LEMMA MsIs ==
  ASSUME NEW d \in Int
  PROVE  /\ ms(d) \in Micros /\ ms(d) \in Nat
         /\ d < 0 => ms(d) = 0
         /\ d >= 0 => ms(d) - d <= 500 /\ d - ms(d) <= 500
<1>1. CASE d < 0
  <2>1. ms(d) = Micro * 0
    BY <1>1 DEF ms, Micro
  <2>2. 0 \in Nat /\ Micro * 0 = 0
    BY DEF Micro
  <2>3. QED
    BY <1>1, <2>1, <2>2 DEF Micros
<1>2. CASE d >= 0
  <2> DEFINE k == (d + 500) \div 1000
  <2>1. k \in Nat /\ 1000 * k <= d + 500 /\ d + 500 < 1000 * k + 1000
    BY <1>2
  <2>2. ms(d) = k * 1000 /\ Micro * k = k * 1000
    <3>1. ms(d) = ((d + 1000 \div 2) \div 1000) * 1000
      BY <1>2 DEF ms, Micro
    <3>2. 1000 \div 2 = 500
      OBVIOUS
    <3>3. QED
      BY <2>1, <3>1, <3>2 DEF Micro
  <2> HIDE DEF k
  <2>3. QED
    BY <1>2, <2>1, <2>2 DEF Micros
<1>3. QED
  BY <1>1, <1>2

LEMMA BackIs ==
  ASSUME ShortGiven, NEW v \in Nat
  PROVE  Back(v) \in Nat /\ (Back(v) = v \/ (v > 0 /\ Back(v) = v - 1))
  BY DEF Back, ShortGiven

\* What is a few nanoseconds off whole microseconds is rounded to them.
LEMMA MsOf ==
  ASSUME NEW v \in Micros, NEW j \in Int, -400 <= j, j <= 400
  PROVE  ms(v + j) = v
<1>1. PICK k \in Nat : v = 1000 * k
  BY DEF Micros, Micro
<1>2. CASE v + j < 0
  <2>1. v = 0
    BY <1>1, <1>2
  <2>2. QED
    BY <1>2, <2>1 DEF ms
<1>3. CASE v + j >= 0
  <2>1. (v + j + 500) \div 1000 = k
    BY <1>1, <1>3
  <2>2. ms(v + j) = ((v + j + 1000 \div 2) \div 1000) * 1000 /\ 1000 \div 2 = 500
    BY <1>1, <1>3 DEF ms, Micro
  <2>3. QED
    BY <1>1, <2>1, <2>2
<1>4. QED
  BY <1>1, <1>2, <1>3

LEMMA MsBack ==
  ASSUME ShortGiven, NEW v \in Micros
  PROVE  ms(Back(v)) = v
<1>1. v \in Nat
  BY DEF Micros, Micro
<1>2. v + 0 = v /\ v + (-1) = v - 1
  BY <1>1
<1>3. ms(v + 0) = v /\ ms(v + (-1)) = v
  BY MsOf
<1>4. QED
  BY <1>1, <1>2, <1>3, BackIs

LEMMA MicrosAdd ==
  ASSUME NEW v \in Micros, NEW w \in Micros
  PROVE  v + w \in Micros /\ v \in Nat
<1>1. PICK k \in Nat : v = 1000 * k
  BY DEF Micros, Micro
<1>2. PICK l \in Nat : w = 1000 * l
  BY DEF Micros, Micro
<1>3. k + l \in Nat /\ v + w = 1000 * (k + l)
  BY <1>1, <1>2
<1>4. QED
  BY <1>1, <1>3 DEF Micros, Micro

\* The moments an import arrives at.
Moments(s, tm) ==
  LET dns  == after(s, tm.dns)
      conn == after(dns, tm.connect)
      sent == after(conn, tm.send)
  IN  [dns |-> dns, conn |-> conn, sent |-> sent, got |-> after(sent, tm.wait)]

Phase == Micros \cup {-1}
\* The phases of some flow, that began at s.
PhasesOf(s, tm) ==
  /\ tm.blocked = -1
  /\ {tm.dns, tm.connect, tm.ssl, tm.send, tm.wait, tm.receive, tm.total} \subseteq Phase
  /\ tm.ssl >= 0 => tm.connect >= 0 /\ tm.ssl < s
  /\ tm.receive >= 0 => tm.wait >= 0 /\ tm.total >= 0
  /\ tm.wait >= 0 /\ tm.total >= 0 => tm.receive >= 0

\* importTiming, by its moments.
LEMMA TimingIs ==
  ASSUME NEW s, NEW tm, tm.blocked = -1
  PROVE  LET m == Moments(s, tm) IN
         importTiming(s, tm) =
           [start |-> s, dns |-> told(tm.dns, m.dns),
            connected |-> told(tm.connect, IF tm.ssl < 0 THEN m.conn ELSE m.conn - Back(tm.ssl)),
            tls |-> IF tm.connect < 0 THEN 0 ELSE told(tm.ssl, m.conn),
            wrote |-> told(tm.send, m.sent), first |-> told(tm.wait, m.got),
            end |-> IF tm.total > 0 THEN s + Back(tm.total)
                    ELSE IF tm.receive >= 0 THEN m.got + Back(tm.receive)
                    ELSE IF tm.total = 0 THEN s ELSE 0]
<1>1. after(s, tm.blocked) = s
  <2>1. tm.blocked < 0
    OBVIOUS
  <2>2. QED
    BY <2>1 DEF after
<1>2. QED
  BY <1>1, Zenon DEF importTiming, Moments

\* Every moment is reached after whole microseconds, but for a nanosecond of each phase.
LEMMA MomentsRead ==
  ASSUME ShortGiven, NEW s \in Nat, NEW tm, PhasesOf(s, tm)
  PROVE  LET m == Moments(s, tm) IN
         /\ s <= m.dns /\ m.dns <= m.conn /\ m.conn <= m.sent /\ m.sent <= m.got
         /\ m.dns \in Nat /\ m.conn \in Nat /\ m.sent \in Nat /\ m.got \in Nat
         /\ tm.dns < 0 => m.dns = s
         /\ tm.dns >= 0 => m.dns = s + Back(tm.dns)
         /\ tm.connect < 0 => m.conn = m.dns
         /\ tm.connect >= 0 => m.conn = m.dns + Back(tm.connect)
         /\ tm.send < 0 => m.sent = m.conn
         /\ tm.send >= 0 => m.sent = m.conn + Back(tm.send)
         /\ tm.wait < 0 => m.got = m.sent
         /\ tm.wait >= 0 => m.got = m.sent + Back(tm.wait)
<1> DEFINE dns == after(s, tm.dns)
           conn == after(dns, tm.connect)
           sent == after(conn, tm.send)
           got == after(sent, tm.wait)
<1>1. /\ tm.dns \in Nat \cup {-1} /\ tm.connect \in Nat \cup {-1} /\ tm.send \in Nat \cup {-1} /\ tm.wait \in Nat \cup {-1}
  BY DEF PhasesOf, Phase, Micros, Micro
<1>2. \A c \in Nat, v \in Nat \cup {-1} :
        /\ after(c, v) \in Nat /\ c <= after(c, v)
        /\ v < 0 => after(c, v) = c
        /\ v >= 0 => after(c, v) = c + Back(v)
  BY BackIs DEF after
<1>3. dns \in Nat /\ conn \in Nat /\ sent \in Nat /\ got \in Nat
  BY <1>1, <1>2
<1>4. Moments(s, tm) = [dns |-> dns, conn |-> conn, sent |-> sent, got |-> got]
  BY DEF Moments
<1> HIDE DEF dns, conn, sent, got
<1>5. /\ s <= dns /\ dns <= conn /\ conn <= sent /\ sent <= got
      /\ tm.dns < 0 => dns = s
      /\ tm.dns >= 0 => dns = s + Back(tm.dns)
      /\ tm.connect < 0 => conn = dns
      /\ tm.connect >= 0 => conn = dns + Back(tm.connect)
      /\ tm.send < 0 => sent = conn
      /\ tm.send >= 0 => sent = conn + Back(tm.send)
      /\ tm.wait < 0 => got = sent
      /\ tm.wait >= 0 => got = sent + Back(tm.wait)
  BY <1>1, <1>2, <1>3 DEF dns, conn, sent, got
<1>6. QED
  BY <1>3, <1>4, <1>5

\* The phases of a flow are those of a flow.
LEMMA PhasesAre ==
  ASSUME NEW t \in HarTimes
  PROVE  LET tm == timings(t)
             dns  == IF t.dns = 0 THEN t.start ELSE t.dns
             conn == IF t.tls # 0 THEN t.tls ELSE IF t.connected # 0 THEN t.connected ELSE dns
             sent == IF t.wrote = 0 THEN conn ELSE t.wrote
             got  == IF t.first = 0 THEN sent ELSE t.first
         IN
         /\ tm = [blocked |-> -1, dns |-> tm.dns, connect |-> tm.connect, ssl |-> tm.ssl, send |-> tm.send,
                  wait |-> tm.wait, receive |-> tm.receive, total |-> tm.total]
         /\ PhasesOf(t.start - (t.start % Milli), tm)
         /\ dns \in Nat /\ conn \in Nat /\ sent \in Nat /\ got \in Nat
         /\ tm.dns = (IF t.dns = 0 THEN -1 ELSE ms(dns - t.start))
         /\ tm.connect = (IF t.connected = 0 /\ t.tls = 0 THEN -1 ELSE ms(conn - dns))
         /\ tm.ssl = (IF t.connected = 0 \/ t.tls = 0 THEN -1 ELSE ms(t.tls - t.connected))
         /\ tm.send = (IF t.wrote = 0 THEN -1 ELSE ms(sent - conn))
         /\ tm.wait = (IF t.first = 0 THEN -1 ELSE ms(got - sent))
         /\ tm.receive = (IF t.end = 0 \/ t.first = 0 THEN -1 ELSE ms(t.end - got))
         /\ tm.total = (IF t.end = 0 THEN -1 ELSE ms(t.end - t.start))
<1> DEFINE tm == timings(t)
           dns  == IF t.dns = 0 THEN t.start ELSE t.dns
           conn == IF t.tls # 0 THEN t.tls ELSE IF t.connected # 0 THEN t.connected ELSE dns
           sent == IF t.wrote = 0 THEN conn ELSE t.wrote
           got  == IF t.first = 0 THEN sent ELSE t.first
           s    == t.start - (t.start % Milli)
<1>1. /\ t.start \in Nat /\ t.dns \in Nat /\ t.connected \in Nat /\ t.tls \in Nat
      /\ t.wrote \in Nat /\ t.first \in Nat /\ t.end \in Nat
      /\ t.tls - t.connected + 2 * Milli <= t.start
  BY DEF HarTimes
<1>2. /\ tm = [blocked |-> -1, dns |-> tm.dns, connect |-> tm.connect, ssl |-> tm.ssl, send |-> tm.send,
               wait |-> tm.wait, receive |-> tm.receive, total |-> tm.total]
      /\ tm.blocked = -1
      /\ tm.dns = (IF t.dns = 0 THEN -1 ELSE ms(dns - t.start))
      /\ tm.connect = (IF t.connected = 0 /\ t.tls = 0 THEN -1 ELSE ms(conn - dns))
      /\ tm.ssl = (IF t.connected = 0 \/ t.tls = 0 THEN -1 ELSE ms(t.tls - t.connected))
      /\ tm.send = (IF t.wrote = 0 THEN -1 ELSE ms(sent - conn))
      /\ tm.wait = (IF t.first = 0 THEN -1 ELSE ms(got - sent))
      /\ tm.receive = (IF t.end = 0 \/ t.first = 0 THEN -1 ELSE ms(t.end - got))
      /\ tm.total = (IF t.end = 0 THEN -1 ELSE ms(t.end - t.start))
  BY DEF timings
<1>3. dns \in Nat
  BY <1>1
<1> HIDE DEF tm, dns
<1>4. conn \in Nat
  BY <1>1, <1>3
<1> HIDE DEF conn
<1>5. sent \in Nat
  BY <1>1, <1>4
<1> HIDE DEF sent
<1>6. got \in Nat
  BY <1>1, <1>5
<1> HIDE DEF got
<1>7. \A d \in Int : ms(d) \in Micros /\ ms(d) \in Nat /\ ms(d) >= 0 /\ (d >= 0 => ms(d) - d <= 500) /\ (d < 0 => ms(d) = 0)
  BY MsIs
<1>8. s \in Nat /\ t.tls - t.connected + Milli <= s /\ s >= 0
  BY <1>1 DEF Milli
<1>9. tm.dns \in Phase /\ tm.connect \in Phase /\ tm.ssl \in Phase /\ tm.send \in Phase /\ tm.wait \in Phase
      /\ tm.receive \in Phase /\ tm.total \in Phase
  BY <1>1, <1>2, <1>3, <1>4, <1>5, <1>6, <1>7 DEF Phase
<1> HIDE DEF s
<1>10. tm.ssl >= 0 => tm.connect >= 0 /\ tm.ssl < s
  <2>1. CASE t.connected = 0 \/ t.tls = 0
    BY <1>2, <2>1
  <2>2. CASE t.connected # 0 /\ t.tls # 0
    <3>1. tm.ssl = ms(t.tls - t.connected) /\ tm.connect = ms(conn - dns)
      BY <1>2, <2>2
    <3>2. t.tls - t.connected \in Int /\ conn - dns \in Int
      BY <1>1, <1>3, <1>4
    <3>3. s > 0
      BY <1>1, <1>8 DEF s, Milli, HarTimes
    <3>4. QED
      BY <1>7, <1>8, <3>1, <3>2, <3>3 DEF Milli
  <2>3. QED
    BY <2>1, <2>2
<1>11. /\ tm.receive >= 0 => tm.wait >= 0 /\ tm.total >= 0
       /\ tm.wait >= 0 /\ tm.total >= 0 => tm.receive >= 0
  BY <1>1, <1>2, <1>3, <1>4, <1>5, <1>6, <1>7
<1>12. PhasesOf(s, tm)
  BY <1>2, <1>9, <1>10, <1>11 DEF PhasesOf
<1>13. QED
  BY <1>2, <1>3, <1>4, <1>5, <1>6, <1>12 DEF tm, dns, conn, sent, got, s

\* Two phases that were measured are in their order.
LEMMA OrderedPairs ==
  ASSUME NEW t \in HarTimes, Ordered(t)
  PROVE  /\ \A m \in {t.dns, t.connected, t.tls, t.wrote, t.first, t.end} : m # 0 => t.start <= m
         /\ t.dns # 0 => \A m \in {t.connected, t.tls, t.wrote, t.first, t.end} : m # 0 => t.dns <= m
         /\ t.connected # 0 => \A m \in {t.tls, t.wrote, t.first, t.end} : m # 0 => t.connected <= m
         /\ t.tls # 0 => \A m \in {t.wrote, t.first, t.end} : m # 0 => t.tls <= m
         /\ t.wrote # 0 => \A m \in {t.first, t.end} : m # 0 => t.wrote <= m
         /\ t.first # 0 /\ t.end # 0 => t.first <= t.end
<1> DEFINE marks == <<t.start, t.dns, t.connected, t.tls, t.wrote, t.first, t.end>>
<1>1. \A i, j \in 1..7 : i < j /\ marks[i] # 0 /\ marks[j] # 0 => marks[i] <= marks[j]
  BY DEF Ordered
<1>2. /\ marks[1] = t.start /\ marks[2] = t.dns /\ marks[3] = t.connected /\ marks[4] = t.tls
      /\ marks[5] = t.wrote /\ marks[6] = t.first /\ marks[7] = t.end
  OBVIOUS
<1>3. t.start # 0
  BY DEF HarTimes, Milli
<1> HIDE DEF marks
<1>4. QED
  BY <1>1, <1>2, <1>3

\* timings and importTiming: what was measured is told, whatever the times, and nothing
\* else; and of times in their order, the first byte and the end are told within the
\* rounding of the phases they are told in: "TTFB and totals survive a round trip"
\* (har/import.go).
THEOREM TimesSurvive ==
  ASSUME NEW t \in HarTimes, ShortGiven
  PROVE  LET g == importTiming(t.start - (t.start % Milli), timings(t)) IN
         /\ g.dns = 0 <=> t.dns = 0
         /\ g.wrote = 0 <=> t.wrote = 0
         /\ g.first = 0 <=> t.first = 0
         /\ g.end = 0 <=> t.end = 0
         /\ Ordered(t) => /\ Near(TTFB(g), TTFB(t), 4)
                          /\ t.end # 0 => Near(Total(g, 0), Total(t, 0), 1)
<1> DEFINE s == t.start - (t.start % Milli)
           tm == timings(t)
           m == Moments(s, tm)
           g == importTiming(s, tm)
           dns  == IF t.dns = 0 THEN t.start ELSE t.dns
           conn == IF t.tls # 0 THEN t.tls ELSE IF t.connected # 0 THEN t.connected ELSE dns
           sent == IF t.wrote = 0 THEN conn ELSE t.wrote
           got  == IF t.first = 0 THEN sent ELSE t.first
<1>1. /\ t.start \in Nat /\ t.start > 0 /\ t.dns \in Nat /\ t.connected \in Nat /\ t.tls \in Nat
      /\ t.wrote \in Nat /\ t.first \in Nat /\ t.end \in Nat
      /\ s \in Nat /\ s > 0
  BY DEF HarTimes, Milli
<1>2. /\ PhasesOf(s, tm)
      /\ dns \in Nat /\ conn \in Nat /\ sent \in Nat /\ got \in Nat
      /\ tm.dns = (IF t.dns = 0 THEN -1 ELSE ms(dns - t.start))
      /\ tm.connect = (IF t.connected = 0 /\ t.tls = 0 THEN -1 ELSE ms(conn - dns))
      /\ tm.send = (IF t.wrote = 0 THEN -1 ELSE ms(sent - conn))
      /\ tm.wait = (IF t.first = 0 THEN -1 ELSE ms(got - sent))
      /\ tm.receive = (IF t.end = 0 \/ t.first = 0 THEN -1 ELSE ms(t.end - got))
      /\ tm.total = (IF t.end = 0 THEN -1 ELSE ms(t.end - t.start))
  BY PhasesAre, Zenon
<1>3. Ordered(t) => /\ t.start <= dns /\ dns <= conn /\ conn <= sent /\ sent <= got
                    /\ t.end # 0 => got <= t.end
  BY <1>1, OrderedPairs
<1>4. /\ t.dns = 0 => dns = t.start
      /\ t.connected = 0 /\ t.tls = 0 => conn = dns
      /\ t.wrote = 0 => sent = conn
      /\ t.first = 0 => got = sent
      /\ t.first # 0 => got = t.first
  OBVIOUS
<1>5. \A d \in Int : ms(d) \in Nat /\ (d >= 0 => ms(d) - d <= 500 /\ d - ms(d) <= 500)
  BY MsIs
<1>6. \A v \in Nat : Back(v) \in Nat /\ (Back(v) = v \/ (v > 0 /\ Back(v) = v - 1))
  BY BackIs
<1>7. /\ s <= m.dns /\ m.dns <= m.conn /\ m.conn <= m.sent /\ m.sent <= m.got
      /\ m.dns \in Nat /\ m.conn \in Nat /\ m.sent \in Nat /\ m.got \in Nat
      /\ tm.dns < 0 => m.dns = s
      /\ tm.dns >= 0 => m.dns = s + Back(tm.dns)
      /\ tm.connect < 0 => m.conn = m.dns
      /\ tm.connect >= 0 => m.conn = m.dns + Back(tm.connect)
      /\ tm.send < 0 => m.sent = m.conn
      /\ tm.send >= 0 => m.sent = m.conn + Back(tm.send)
      /\ tm.wait < 0 => m.got = m.sent
      /\ tm.wait >= 0 => m.got = m.sent + Back(tm.wait)
  <2>1. s \in Nat /\ PhasesOf(s, tm)
    BY <1>1, <1>2
  <2> HIDE DEF s, tm
  <2>2. QED
    BY <2>1, MomentsRead, Zenon
<1>8. g = [start |-> s, dns |-> told(tm.dns, m.dns),
            connected |-> told(tm.connect, IF tm.ssl < 0 THEN m.conn ELSE m.conn - Back(tm.ssl)),
            tls |-> IF tm.connect < 0 THEN 0 ELSE told(tm.ssl, m.conn),
            wrote |-> told(tm.send, m.sent), first |-> told(tm.wait, m.got),
            end |-> IF tm.total > 0 THEN s + Back(tm.total)
                    ELSE IF tm.receive >= 0 THEN m.got + Back(tm.receive)
                    ELSE IF tm.total = 0 THEN s ELSE 0]
  <2>1. tm.blocked = -1
    BY <1>2 DEF PhasesOf
  <2>2. QED
    BY <2>1, TimingIs, Zenon
<1> HIDE DEF g, m, tm
<1>9. /\ g.start = s /\ g.dns = told(tm.dns, m.dns) /\ g.wrote = told(tm.send, m.sent)
      /\ g.first = told(tm.wait, m.got)
      /\ g.end = (IF tm.total > 0 THEN s + Back(tm.total)
                  ELSE IF tm.receive >= 0 THEN m.got + Back(tm.receive)
                  ELSE IF tm.total = 0 THEN s ELSE 0)
  BY <1>8
<1> HIDE DEF dns, conn, sent, got, s
<1>10. /\ tm.dns \in Nat \cup {-1} /\ tm.connect \in Nat \cup {-1} /\ tm.send \in Nat \cup {-1} /\ tm.wait \in Nat \cup {-1}
       /\ tm.receive \in Nat \cup {-1} /\ tm.total \in Nat \cup {-1}
       /\ tm.dns = -1 <=> t.dns = 0
       /\ tm.connect = -1 <=> t.connected = 0 /\ t.tls = 0
       /\ tm.send = -1 <=> t.wrote = 0
       /\ tm.wait = -1 <=> t.first = 0
       /\ tm.receive = -1 <=> t.end = 0 \/ t.first = 0
       /\ tm.total = -1 <=> t.end = 0
  BY <1>1, <1>2, <1>5
<1>11. (g.dns = 0 <=> t.dns = 0) /\ (g.wrote = 0 <=> t.wrote = 0) /\ (g.first = 0 <=> t.first = 0)
  BY <1>1, <1>7, <1>9, <1>10 DEF told
<1>12. g.end = 0 <=> t.end = 0
  <2>1. tm.total \in Nat => Back(tm.total) \in Nat
    BY <1>6
  <2>2. tm.receive \in Nat => Back(tm.receive) \in Nat
    BY <1>6
  <2>3. tm.total > 0 => Back(tm.total) \in Nat /\ s + Back(tm.total) > 0
    BY <1>1, <1>10, <2>1
  <2>4. tm.receive >= 0 => m.got + Back(tm.receive) > 0
    BY <1>1, <1>7, <1>10, <2>2
  <2>5. QED
    BY <1>1, <1>9, <1>10, <2>3, <2>4
<1>13. ASSUME Ordered(t)
       PROVE  Near(TTFB(g), TTFB(t), 4)
  <2> DEFINE Off(a, b, k) == a - b <= 501 * k /\ b - a <= 501 * k
  <2>1. \A d \in Nat : Back(ms(d)) - d <= 501 /\ d - Back(ms(d)) <= 501 /\ Back(ms(d)) \in Nat
    <3>1. ASSUME NEW d \in Nat
          PROVE  Back(ms(d)) - d <= 501 /\ d - Back(ms(d)) <= 501 /\ Back(ms(d)) \in Nat
      <4>1. d \in Int /\ d >= 0 /\ ms(d) \in Nat
        BY <1>5
      <4>2. Back(ms(d)) \in Nat /\ (Back(ms(d)) = ms(d) \/ Back(ms(d)) = ms(d) - 1)
        BY <1>6, <4>1
      <4>3. QED
        BY <1>5, <4>1, <4>2
    <3>2. QED
      BY <3>1
  <2>2. t.start <= dns /\ dns <= conn /\ conn <= sent /\ sent <= got
    BY <1>3, <1>13
  <2>3. Off(m.dns - s, dns - t.start, 1)
    <3>1. dns - t.start \in Nat
      BY <1>1, <1>2, <2>2
    <3>2. QED
      BY <1>1, <1>2, <1>4, <1>7, <1>10, <2>1, <3>1
  <2>4. Off(m.conn - m.dns, conn - dns, 1)
    <3>1. conn - dns \in Nat
      BY <1>2, <2>2
    <3>2. QED
      BY <1>1, <1>2, <1>4, <1>7, <1>10, <2>1, <3>1
  <2>5. Off(m.sent - m.conn, sent - conn, 1)
    <3>1. sent - conn \in Nat
      BY <1>2, <2>2
    <3>2. QED
      BY <1>1, <1>2, <1>4, <1>7, <1>10, <2>1, <3>1
  <2>6. Off(m.got - m.sent, got - sent, 1)
    <3>1. got - sent \in Nat
      BY <1>2, <2>2
    <3>2. QED
      BY <1>1, <1>2, <1>4, <1>7, <1>10, <2>1, <3>1
  <2>7. CASE t.first = 0
    <3>1. TTFB(g) = 0 /\ TTFB(t) = 0
      BY <1>11, <2>7 DEF TTFB
    <3>2. QED
      BY <3>1 DEF Near, Micro
  <2>8. CASE t.first # 0
    <3>1. TTFB(g) = m.got - s /\ TTFB(t) = got - t.start
      BY <1>4, <1>9, <1>10, <1>11, <2>8 DEF TTFB, told
    <3>2. 4 * (Micro \div 2 + 1) = 501 * 4
      BY DEF Micro
    <3>3. QED
      BY <1>1, <1>2, <1>7, <2>3, <2>4, <2>5, <2>6, <3>1, <3>2 DEF Near
  <2>9. QED
    BY <2>7, <2>8
<1>14. ASSUME Ordered(t), t.end # 0
       PROVE  Near(Total(g, 0), Total(t, 0), 1)
  <2>1. Total(g, 0) = g.end - s /\ Total(t, 0) = t.end - t.start
    BY <1>9, <1>12, <1>14 DEF Total
  <2>2. tm.total = ms(t.end - t.start) /\ t.end - t.start \in Nat
    BY <1>1, <1>2, <1>3, <1>14
  <2>3. tm.total - (t.end - t.start) <= 500 /\ (t.end - t.start) - tm.total <= 500 /\ tm.total \in Nat
    BY <1>5, <2>2
  <2>4. 1 * (Micro \div 2 + 1) = 501
    BY DEF Micro
  <2>5. CASE tm.total > 0
    <3>1. g.end = s + Back(tm.total) /\ (Back(tm.total) = tm.total \/ Back(tm.total) = tm.total - 1)
      BY <1>6, <1>9, <2>3, <2>5
    <3>2. QED
      BY <1>1, <2>1, <2>2, <2>3, <2>4, <3>1 DEF Near
  <2>6. CASE tm.total = 0
    <3>1. \A d \in Int : d <= t.end - t.start => ms(d) = 0
      <4>1. t.end - t.start <= 499
        BY <2>2, <2>3, <2>6 DEF ms, Micro
      <4>2. QED
        BY <2>2, <4>1, SMTT(60) DEF ms, Micro
    <3>2. tm.dns <= 0 /\ tm.connect <= 0 /\ tm.send <= 0 /\ tm.wait <= 0 /\ tm.receive <= 0
      BY <1>1, <1>2, <1>3, <1>14, <3>1
    <3>3. Back(0) = 0
      BY <1>6
    <3>4. g.end = s
      BY <1>1, <1>7, <1>9, <1>10, <2>6, <3>2, <3>3
    <3>5. QED
      BY <1>1, <2>1, <2>2, <2>3, <2>4, <2>6, <3>4 DEF Near
  <2>7. QED
    BY <2>3, <2>5, <2>6
<1>15. QED
  BY <1>11, <1>12, <1>13, <1>14 DEF g, tm, s

\* Any limit, any names of headers, and any values of headers and texts that the redactor
\* masks (the mask itself is not among them).
HarOptions == [cap : Int, secret : SUBSET STRING, words : SUBSET (STRING \ {"masked"}),
               redact : SUBSET (Seq(STRING) \ {<<>>, <<"masked">>})]

\* Any bytes that were stored.
Blob == [layer : STRING, content : Seq(STRING)]
\* What has been captured of a body is not longer than the body.
BodyRef == {ref \in [size : Nat, captured : Nat, hash : Blob \cup {Nothing}, mime : STRING, encoding : STRING,
                    truncated : BOOLEAN] :
              ref.captured > 0 \/ ref.hash # Nothing => ref.size > 0}
\* Headers, each with its values.
Headers == UNION {[N -> Seq(STRING)] : N \in SUBSET STRING}
\* The pieces of a path and of a query are strings (that these are is beyond the provers).
Piece == STRING \cup {"?", "%20", "A"}
\* Any flow that was recorded: its kind is known, and its scheme is the one of its request,
\* also that of a WebSocket (handler.go:251, websocket.go:22).
Flow == [method : STRING, kind : STRING \ {""}, scheme : STRING \ {"ws", "wss"}, host : STRING, port : Nat,
         path : Seq(Piece), query : Seq(Piece), proto : STRING, upProto : STRING, client : STRING, status : Nat,
         reqH : Headers, respH : Headers, t : HarTimes, reqBody : BodyRef, respBody : BodyRef,
         state : STRING, session : STRING, error : STRING, tags : Seq(STRING), replay : BOOLEAN]

\* Nothing is nil: no number, no content of a request, and no note of pano's.
NothingIsNil ==
  /\ Nothing \notin Nat
  /\ \A layer, content : Nothing # [layer |-> layer, content |-> content]
  /\ \A mime, text, encoding : Nothing # [mime |-> mime, text |-> text, encoding |-> encoding]
  /\ \A kind, state, session, error, tags, a, b, replay :
       Nothing # [kind |-> kind, state |-> state, session |-> session, error |-> error, tags |-> tags,
                  reqTruncated |-> a, respTruncated |-> b, replay |-> replay]

\* The bytes of a body are those that its own encoding gives.
LEMMA WholeIsBytes ==
  ASSUME NEW ref \in BodyRef, ref.hash # Nothing
  PROVE  /\ Whole(ref) = Bytes(Decoded(ref.encoding, ref.hash))
         /\ Len(Whole(ref)) \in Nat
<1>1. ref.hash \in Blob
  BY DEF BodyRef
<1>2. Len(ref.hash.content) \in Nat /\ Len(<<"xff">>) \in Nat
  BY <1>1 DEF Blob
<1>3. CASE ref.encoding = ref.hash.layer
  BY <1>1, <1>2, <1>3 DEF Whole, Decoded, Bytes, Blob
<1>4. CASE ref.encoding # ref.hash.layer
  <2>1. Whole(ref) = Bytes(ref.hash)
    BY <1>4 DEF Whole
  <2>2. Len(Bytes(ref.hash)) \in Nat
    BY <1>2, Zenon DEF Bytes
  <2>3. QED
    BY <1>4, <2>1, <2>2 DEF Decoded
<1>5. QED
  BY <1>3, <1>4

\* The encoding of a flow's body, looked up in that flow alone.
LEMMA EncodingFound ==
  ASSUME NEW f, NEW b
  PROVE  /\ f.reqBody.hash = b => encodingOf(<<f>>, b) = f.reqBody.encoding
         /\ f.reqBody.hash # b /\ f.respBody.hash = b => encodingOf(<<f>>, b) = f.respBody.encoding
<1> DEFINE where(body) == {n \in DOMAIN <<f>> : <<f>>[n][body].hash = b}
           all == where("reqBody") \cup where("respBody")
           first == CHOOSE n \in all : \A k \in all : n <= k
<1>1. DOMAIN <<f>> = {1} /\ <<f>>[1] = f
  OBVIOUS
<1>2. ASSUME f.reqBody.hash = b \/ f.respBody.hash = b
      PROVE  first = 1
  <2>1. all = {1}
    BY <1>1, <1>2
  <2> HIDE DEF all
  <2>2. \E n \in all : \A k \in all : n <= k
    BY <2>1
  <2>3. first \in all
    BY <2>2
  <2>4. QED
    BY <2>1, <2>3
<1>3. encodingOf(<<f>>, b) = IF first \in where("reqBody") THEN <<f>>[first].reqBody.encoding
                             ELSE <<f>>[first].respBody.encoding
  BY DEF encodingOf
<1>4. 1 \in where("reqBody") <=> f.reqBody.hash = b
  BY <1>1
<1> HIDE DEF first, where
<1>5. QED
  BY <1>1, <1>2, <1>3, <1>4

\* A body that fits is read back as what it is.
LEMMA BodyReadBack ==
  ASSUME NEW f, NEW ref \in BodyRef, NEW mime, NEW opts, opts.redact = {}, opts.cap \in Int,
         ref.hash # Nothing, Len(Whole(ref)) <= opts.cap, encodingOf(<<f>>, ref.hash) = ref.encoding
  PROVE  LET b == ExportedBody(<<f>>, ref, mime, opts) IN decodeBody(b.text, b.encoding) = Whole(ref)
<1> DEFINE c == Bytes(Decoded(encodingOf(<<f>>, ref.hash), ref.hash))
           inline == IsTextual(Of(mime)) /\ Utf8(c)
           full == [text |-> [b64 |-> ~inline, bytes |-> IF inline /\ c \in opts.redact THEN <<"masked">> ELSE c],
                    encoding |-> IF inline THEN "" ELSE "base64", decodedSize |-> Len(c)]
<1>1. c = Whole(ref) /\ Len(c) \in Nat
  BY WholeIsBytes
<1>2. ExportedBody(<<f>>, ref, mime, opts) =
        IF opts.cap < 0 THEN NoText ELSE IF Len(c) > opts.cap THEN [NoText EXCEPT !.decodedSize = Len(c)] ELSE full
  BY DEF ExportedBody
<1> HIDE DEF c
<1>3. Len(c) \in Nat /\ ~(opts.cap < 0) /\ ~(Len(c) > opts.cap)
  BY <1>1
<1>4. ExportedBody(<<f>>, ref, mime, opts) = full
  BY <1>2, <1>3
<1>5. full.text.bytes = c /\ full.text.b64 = ~inline /\ full.encoding = (IF inline THEN "" ELSE "base64")
  OBVIOUS
<1> HIDE DEF full, inline
<1>6. QED
  BY <1>1, <1>4, <1>5 DEF decodeBody

\* The order of the numbers.
Less == {pair \in Nat \X Nat : pair[1] < pair[2]}

\* A set of numbers has a least one.
LEMMA LeastOne ==
  ASSUME NEW T, T \subseteq Nat, T # {}
  PROVE  \E x \in T : \A y \in T : x <= y
<1>1. IsWellFoundedOn(Less, Nat)
  <2>1. OpToRel(<, Nat) = Less
    BY DEF OpToRel, Less
  <2>2. QED
    BY <2>1, NatLessThanWellFounded, Zenon
<1>2. PICK x \in T : \A y \in T : ~(<<y, x>> \in Less)
  BY <1>1, WFMin, Zenon
<1>3. ASSUME NEW y \in T
      PROVE  x <= y
  <2>1. x \in Nat /\ y \in Nat
    OBVIOUS
  <2>2. ~(y < x)
    BY <1>2, <2>1 DEF Less
  <2>3. QED
    BY <2>1, <2>2
<1>4. QED
  BY <1>3

\* Nothing is in the empty sequence.
LEMMA EmptyHasNone == ToSet(<<>>) = {}
<1>1. DOMAIN <<>> = {}
  OBVIOUS
<1>2. QED
  BY <1>1, Zenon DEF ToSet

\* strings.Cut, where there is a mark: what stands before it and after it.
LEMMA CutThere ==
  ASSUME NEW S, NEW s \in Seq(S), NEW mark, mark \in ToSet(s)
  PROVE  \E n \in 1..Len(s) :
           /\ s[n] = mark /\ \A k \in 1..(n - 1) : s[k] # mark
           /\ CutAt(s, mark) = <<SubSeq(s, 1, n - 1), SubSeq(s, n + 1, Len(s))>>
<1> DEFINE T == {n \in 1..Len(s) : s[n] = mark}
           Least(n) == s[n] = mark /\ \A k \in 1..(n - 1) : s[k] # mark
<1>1. Len(s) \in Nat /\ DOMAIN s = 1..Len(s)
  OBVIOUS
<1>2. \E n \in T : \A k \in T : n <= k
  <2>1. T \subseteq Nat /\ T # {}
    BY <1>1 DEF ToSet
  <2> HIDE DEF T
  <2>2. QED
    BY <2>1, LeastOne
<1>3. \E n \in DOMAIN s : Least(n)
  <2>1. PICK n \in T : \A k \in T : n <= k
    BY <1>2
  <2>2. n \in 1..Len(s) /\ s[n] = mark
    OBVIOUS
  <2>3. \A k \in 1..(n - 1) : s[k] # mark
    BY <1>1, <2>1, <2>2
  <2>4. QED
    BY <1>1, <2>2, <2>3
<1> DEFINE n == CHOOSE n \in DOMAIN s : Least(n)
<1>4. n \in DOMAIN s /\ Least(n)
  BY <1>3, Zenon
<1>5. CutAt(s, mark) = <<SubSeq(s, 1, n - 1), SubSeq(s, n + 1, Len(s))>>
  BY Zenon DEF CutAt
<1> HIDE DEF n
<1>6. QED
  BY <1>1, <1>4, <1>5

\* A text that is cut, put together again.
LEMMA CutTyped ==
  ASSUME NEW S, NEW s \in Seq(S), NEW mark
  PROVE  LET c == CutAt(s, mark) IN
         /\ c[1] \in Seq(S) /\ c[2] \in Seq(S)
         /\ mark \notin ToSet(c[1]) /\ ToSet(c[1]) \subseteq ToSet(s) /\ ToSet(c[2]) \subseteq ToSet(s)
<1>1. CASE mark \notin ToSet(s)
  <2>1. CutAt(s, mark) = <<s, <<>>>>
    BY <1>1 DEF CutAt
  <2>2. <<>> \in Seq(S) /\ ToSet(<<>>) = {}
    BY DEF ToSet
  <2>3. QED
    BY <1>1, <2>1, <2>2
<1>2. CASE mark \in ToSet(s)
  <2>1. PICK n \in 1..Len(s) :
           /\ s[n] = mark /\ \A k \in 1..(n - 1) : s[k] # mark
           /\ CutAt(s, mark) = <<SubSeq(s, 1, n - 1), SubSeq(s, n + 1, Len(s))>>
    BY <1>2, CutThere
  <2> DEFINE a == SubSeq(s, 1, n - 1)
             b == SubSeq(s, n + 1, Len(s))
  <2>2. Len(s) \in Nat /\ DOMAIN s = 1..Len(s) /\ \A k \in 1..Len(s) : s[k] \in S
    OBVIOUS
  <2>3. a \in Seq(S) /\ DOMAIN a = 1..(n - 1) /\ \A k \in 1..(n - 1) : a[k] = s[k]
    BY <2>2
  <2>4. b \in Seq(S) /\ DOMAIN b = 1..(Len(s) - n) /\ \A k \in 1..(Len(s) - n) : b[k] = s[n + k]
    BY <2>2
  <2>5. ToSet(a) \subseteq ToSet(s) /\ mark \notin ToSet(a)
    <3> HIDE DEF a
    <3>1. QED
      BY <2>1, <2>2, <2>3 DEF ToSet
  <2>6. ToSet(b) \subseteq ToSet(s)
    <3> HIDE DEF b
    <3>1. ASSUME NEW k \in 1..(Len(s) - n)
          PROVE  b[k] \in ToSet(s)
      <4>1. n + k \in DOMAIN s /\ b[k] = s[n + k]
        BY <2>2, <2>4
      <4>2. QED
        BY <4>1 DEF ToSet
    <3>2. QED
      BY <2>4, <3>1 DEF ToSet
  <2>7. CutAt(s, mark)[1] = a /\ CutAt(s, mark)[2] = b
    BY <2>1
  <2>8. QED
    BY <2>3, <2>4, <2>5, <2>6, <2>7
<1>3. QED
  BY <1>1, <1>2

\* A text with a mark is cut at it.
LEMMA CutFound ==
  ASSUME NEW S, NEW a \in Seq(S), NEW b \in Seq(S), NEW mark \in S, mark \notin ToSet(a)
  PROVE  CutAt(a \o (<<mark>> \o b), mark) = <<a, b>>
<1> DEFINE t == <<mark>> \o b
           s == a \o t
<1>1. /\ Len(a) \in Nat /\ DOMAIN a = 1..Len(a) /\ Len(b) \in Nat
      /\ \A k \in 1..Len(a) : a[k] # mark
  BY DEF ToSet
<1>2. /\ t \in Seq(S) /\ Len(t) = 1 + Len(b) /\ t[1] = mark
      /\ \A k \in 1..Len(b) : t[1 + k] = b[k]
  <2>1. <<mark>> \in Seq(S) /\ Len(<<mark>>) = 1 /\ <<mark>>[1] = mark
    OBVIOUS
  <2>2. /\ t \in Seq(S) /\ Len(t) = 1 + Len(b)
        /\ \A i \in 1..1 + Len(b) : t[i] = IF i <= 1 THEN mark ELSE b[i - 1]
    BY <2>1, ConcatProperties
  <2> HIDE DEF t
  <2>3. t[1] = mark
    BY <1>1, <2>2
  <2>4. \A k \in 1..Len(b) : t[1 + k] = b[k]
    BY <1>1, <2>2
  <2>5. QED
    BY <2>2, <2>3, <2>4
<1> HIDE DEF t
<1>3. /\ s \in Seq(S) /\ Len(s) = Len(a) + 1 + Len(b) /\ DOMAIN s = 1..Len(s)
      /\ \A k \in 1..Len(a) : s[k] = a[k]
      /\ s[Len(a) + 1] = mark
      /\ \A k \in 1..Len(b) : s[Len(a) + 1 + k] = b[k]
  <2>1. /\ s \in Seq(S) /\ Len(s) = Len(a) + Len(t)
        /\ \A i \in 1..Len(a) + Len(t) : s[i] = IF i <= Len(a) THEN a[i] ELSE t[i - Len(a)]
    BY <1>2, ConcatProperties
  <2> HIDE DEF s
  <2>2. Len(s) = Len(a) + 1 + Len(b) /\ DOMAIN s = 1..Len(s)
    BY <1>1, <1>2, <2>1
  <2>3. \A k \in 1..Len(a) : s[k] = a[k]
    BY <1>1, <1>2, <2>1
  <2>4. s[Len(a) + 1] = mark
    <3>1. Len(a) + 1 \in 1..Len(a) + Len(t) /\ ~(Len(a) + 1 <= Len(a)) /\ Len(a) + 1 - Len(a) = 1
      BY <1>1, <1>2
    <3>2. QED
      BY <1>2, <2>1, <3>1
  <2>5. \A k \in 1..Len(b) : s[Len(a) + 1 + k] = b[k]
    <3> TAKE k \in 1..Len(b)
    <3>1. /\ Len(a) + 1 + k \in 1..Len(a) + Len(t) /\ ~(Len(a) + 1 + k <= Len(a))
          /\ Len(a) + 1 + k - Len(a) = 1 + k
      BY <1>1, <1>2
    <3>2. QED
      BY <1>2, <2>1, <3>1
  <2>6. QED
    BY <2>1, <2>2, <2>3, <2>4, <2>5
<1> HIDE DEF s
<1>4. mark \in ToSet(s)
  <2>1. Len(a) + 1 \in DOMAIN s
    BY <1>1, <1>3
  <2>2. QED
    BY <1>3, <2>1 DEF ToSet
<1>5. PICK n \in 1..Len(s) :
         /\ s[n] = mark /\ \A k \in 1..(n - 1) : s[k] # mark
         /\ CutAt(s, mark) = <<SubSeq(s, 1, n - 1), SubSeq(s, n + 1, Len(s))>>
  <2>1. s \in Seq(S)
    BY <1>3
  <2>2. QED
    BY <1>4, <2>1, CutThere
<1>9. n = Len(a) + 1
  <2>1. n \in Nat /\ n <= Len(a) + 1 + Len(b) /\ n >= 1
    BY <1>1, <1>3
  <2>2. n > Len(a)
    <3>1. \A k \in 1..Len(a) : s[k] # mark
      BY <1>1, <1>3
    <3>2. n \notin 1..Len(a)
      BY <1>5, <3>1
    <3>3. QED
      BY <1>1, <2>1, <3>2
  <2>3. ~(Len(a) + 1 \in 1..(n - 1))
    BY <1>3, <1>5
  <2>4. QED
    BY <1>1, <2>1, <2>2, <2>3
<1>6. SubSeq(s, 1, n - 1) = a
  <2>1. /\ SubSeq(s, 1, n - 1) \in Seq(S) /\ Len(SubSeq(s, 1, n - 1)) = Len(a)
        /\ \A k \in 1..Len(a) : SubSeq(s, 1, n - 1)[k] = a[k]
    BY <1>1, <1>3, <1>9
  <2>2. QED
    BY <1>1, <1>3, <2>1, SeqEqual
<1>7. SubSeq(s, n + 1, Len(s)) = b
  <2>1. /\ SubSeq(s, n + 1, Len(s)) \in Seq(S) /\ Len(SubSeq(s, n + 1, Len(s))) = Len(b)
        /\ \A k \in 1..Len(b) : SubSeq(s, n + 1, Len(s))[k] = b[k]
    BY <1>1, <1>3, <1>9
  <2>2. QED
    BY <1>1, <1>3, <2>1, SeqEqual
<1>8. QED
  BY <1>5, <1>6, <1>7 DEF s, t

\* The text of an address: where its path ends and its query begins.
LEMMA Spelled ==
  ASSUME NEW S, "?" \in S, NEW p \in Seq(S), NEW q \in Seq(S), "#" \notin ToSet(p) \cup ToSet(q), "?" \notin ToSet(p)
  PROVE  LET rest == p \o (IF q = <<>> THEN <<>> ELSE <<"?">> \o q) IN
         /\ CutAt(rest, "#") = <<rest, <<>>>> /\ CutAt(rest, "?") = <<p, q>>
         /\ ToSet(rest) \subseteq ToSet(p) \cup ToSet(q) \cup {"?"}
<1> DEFINE mark == "?"
           t == <<mark>> \o q
           rest == p \o (IF q = <<>> THEN <<>> ELSE t)
<1>0. mark \in S /\ mark \notin ToSet(p) /\ mark # "#"
  OBVIOUS
<1>1. CASE q = <<>>
  <2>1. rest = p
    BY <1>1, ConcatEmptySeq
  <2>2. QED
    BY <1>0, <1>1, <2>1 DEF CutAt
<1>2. CASE q # <<>>
  <2>1. rest = p \o t
    BY <1>2
  <2> HIDE DEF mark
  <2>2. CutAt(p \o t, mark) = <<p, q>>
    BY <1>0, CutFound
  <2>3. <<mark>> \in Seq(S) /\ Len(<<mark>>) = 1 /\ <<mark>>[1] = mark
    BY <1>0
  <2>4. /\ t \in Seq(S) /\ Len(t) = 1 + Len(q)
        /\ \A i \in 1..1 + Len(q) : t[i] = IF i <= 1 THEN mark ELSE q[i - 1]
    BY <2>3, ConcatProperties
  <2>5. Len(p) \in Nat /\ Len(q) \in Nat /\ DOMAIN p = 1..Len(p) /\ DOMAIN q = 1..Len(q) /\ DOMAIN t = 1..Len(t)
    BY <2>4
  <2> HIDE DEF t
  <2>6. ToSet(t) \subseteq ToSet(q) \cup {mark}
    <3>1. \A i \in 1..1 + Len(q) : t[i] = mark \/ t[i] \in ToSet(q)
      BY <2>4, <2>5 DEF ToSet
    <3>2. QED
      BY <2>4, <2>5, <3>1 DEF ToSet
  <2>7. ToSet(p \o t) \subseteq ToSet(p) \cup ToSet(t)
    <3> DEFINE u == p \o t
    <3>1. /\ u \in Seq(S) /\ Len(u) = Len(p) + Len(t)
          /\ \A i \in 1..Len(p) + Len(t) : u[i] = IF i <= Len(p) THEN p[i] ELSE t[i - Len(p)]
      BY <2>4, ConcatProperties
    <3> HIDE DEF u
    <3>2. DOMAIN u = 1..Len(p) + Len(t)
      BY <3>1
    <3>3. \A i \in 1..Len(p) + Len(t) : u[i] \in ToSet(p) \cup ToSet(t)
      <4> TAKE i \in 1..Len(p) + Len(t)
      <4>1. CASE i <= Len(p)
        <5>1. i \in DOMAIN p /\ u[i] = p[i]
          BY <2>5, <3>1, <4>1
        <5>2. QED
          BY <5>1 DEF ToSet
      <4>2. CASE ~(i <= Len(p))
        <5>1. i - Len(p) \in 1..Len(t) /\ u[i] = t[i - Len(p)]
          BY <2>4, <2>5, <3>1, <4>2
        <5>2. QED
          BY <2>5, <5>1 DEF ToSet
      <4>3. QED
        BY <4>1, <4>2
    <3>4. QED
      BY <3>2, <3>3 DEF ToSet, u
  <2>8. "#" \notin ToSet(p \o t)
    BY <1>0, <2>6, <2>7
  <2>9. CutAt(p \o t, "#") = <<p \o t, <<>>>>
    BY <2>8 DEF CutAt
  <2>10. QED
    BY <1>0, <2>1, <2>2, <2>6, <2>7, <2>9 DEF t, mark
<1>3. QED
  BY <1>1, <1>2

\* EscapedPath: what is escaped has no mark that the path had not, and is left as it is.
LEMMA EscapedOnce ==
  ASSUME NEW p \in Seq(Piece)
  PROVE  /\ Escaped(p) \in Seq(Piece) /\ Escaped(Escaped(p)) = Escaped(p)
         /\ ToSet(Escaped(p)) \subseteq ToSet(p) \cup {"%20", "A"}
<1> DEFINE e == [n \in DOMAIN p |-> Anew(p[n])]
<1>1. CASE " " \notin ToSet(p)
  BY <1>1 DEF Escaped
<1>2. CASE " " \in ToSet(p)
  <2>1. Escaped(p) = e
    BY <1>2 DEF Escaped
  <2>2. Len(p) \in Nat /\ DOMAIN p = 1..Len(p) /\ \A n \in 1..Len(p) : p[n] \in Piece
    OBVIOUS
  <2>3. \A x \in Piece : Anew(x) \in Piece /\ Anew(x) # " " /\ (Anew(x) = x \/ Anew(x) \in {"%20", "A"})
    BY DEF Anew, Piece
  <2>4. e \in Seq(Piece) /\ DOMAIN e = 1..Len(p)
    <3>1. e = [n \in 1..Len(p) |-> Anew(p[n])] /\ \A n \in 1..Len(p) : Anew(p[n]) \in Piece
      BY <2>2, <2>3
    <3>2. QED
      BY <2>2, <3>1
  <2>5. \A n \in 1..Len(p) : e[n] # " " /\ (e[n] = p[n] \/ e[n] \in {"%20", "A"})
    BY <2>2, <2>3
  <2> HIDE DEF e
  <2>6. " " \notin ToSet(e) /\ ToSet(e) \subseteq ToSet(p) \cup {"%20", "A"}
    BY <2>2, <2>4, <2>5 DEF ToSet
  <2>7. QED
    BY <2>1, <2>4, <2>6 DEF Escaped
<1>3. QED
  BY <1>1, <1>2

\* Flow.URL, setURL: an address that is written as it is says where the request went.
LEMMA AddressReadBack ==
  ASSUME NEW f \in Flow, NothingIsNil, f.host # "::1", f.scheme # "", Safe(f)
  PROVE  LET u == ReadURL(URL(f)) IN
         /\ ~Unread(URL(f))
         /\ u.scheme = f.scheme /\ u.host = f.host /\ u.path = f.path /\ u.query = f.query
         /\ f.scheme \in DOMAIN DefaultPort /\ f.port # 0 => u.port = f.port
<1> DEFINE a == URL(f)
           rest == f.path \o (IF f.query = <<>> THEN <<>> ELSE <<"?">> \o f.query)
<1>1. /\ f.scheme \notin {"ws", "wss"} /\ f.port \in Nat /\ f.port # Nothing
      /\ f.path \in Seq(Piece) /\ f.query \in Seq(Piece)
  BY DEF Flow, NothingIsNil
<1>2. /\ ToSet(f.path) \cap {"?", "#", "%", " ", "ctl"} = {}
      /\ ToSet(f.query) \cap {"#", "ctl"} = {}
  BY DEF Safe
<1>3. /\ CutAt(rest, "#") = <<rest, <<>>>> /\ CutAt(rest, "?") = <<f.path, f.query>>
      /\ ToSet(rest) \subseteq ToSet(f.path) \cup ToSet(f.query) \cup {"?"}
  <2>1. "?" \in Piece /\ "#" \notin ToSet(f.path) \cup ToSet(f.query) /\ "?" \notin ToSet(f.path)
    BY <1>2 DEF Piece
  <2>2. QED
    BY <1>1, <2>1, Spelled, Zenon
<1>4. /\ a.scheme = f.scheme /\ a.host = f.host /\ a.rest = rest
      /\ a.port = (IF f.scheme \in DOMAIN DefaultPort /\ f.port \notin {0, DefaultPort[f.scheme]}
                   THEN f.port ELSE Nothing)
  BY DEF URL
<1> HIDE DEF a, rest
<1>5. Plain(a.scheme) = f.scheme
  BY <1>1, <1>4 DEF Plain
<1>6. CutAt(a.rest, "#")[1] = rest /\ CutAt(a.rest, "#")[2] = <<>> /\ CutAt(rest, "?")[1] = f.path
      /\ CutAt(rest, "?")[2] = f.query
  <2> DEFINE whole == CutAt(a.rest, "#")
             asked == CutAt(rest, "?")
  <2>1. whole = <<rest, <<>>>> /\ asked = <<f.path, f.query>>
    BY <1>3, <1>4
  <2> HIDE DEF whole, asked
  <2>2. whole[1] = rest /\ whole[2] = <<>> /\ asked[1] = f.path /\ asked[2] = f.query
    BY <2>1
  <2>3. QED
    BY <2>2 DEF whole, asked
<1>7. ~Unread(a)
  <2>1. ToSet(<<>>) = {}
    BY EmptyHasNone
  <2>2. "ctl" \notin ToSet(rest) /\ "%" \notin ToSet(f.path)
    BY <1>2, <1>3
  <2>3. /\ a.scheme # "" /\ a.host # "::1"
        /\ CutAt(a.rest, "#")[1] = rest
        /\ ToSet(CutAt(a.rest, "#")[2]) = {} /\ CutAt(CutAt(a.rest, "#")[1], "?")[1] = f.path
    BY <1>4, <1>6, <2>1
  <2>4. QED
    BY <2>2, <2>3, Zenon DEF Unread
<1>8. Escaped(f.path) = f.path
  BY <1>2 DEF Escaped
<1> DEFINE asked == CutAt(CutAt(a.rest, "#")[1], "?")
           port == IF a.port # Nothing THEN a.port
                   ELSE IF Plain(a.scheme) \in DOMAIN DefaultPort THEN DefaultPort[Plain(a.scheme)] ELSE 0
<1>9. ReadURL(a) = [scheme |-> Plain(a.scheme), host |-> a.host, port |-> port, path |-> Escaped(asked[1]),
                    query |-> asked[2], kind |-> IF a.scheme # Plain(a.scheme) THEN "ws" ELSE "http"]
  BY <1>7, Zenon DEF ReadURL
<1>10. asked[1] = f.path /\ asked[2] = f.query
  BY <1>6
<1> HIDE DEF asked
<1>11. f.scheme \in DOMAIN DefaultPort /\ f.port # 0 => port = f.port
  BY <1>1, <1>4, <1>5
<1> HIDE DEF port
<1>12. /\ ReadURL(a).scheme = f.scheme /\ ReadURL(a).host = f.host /\ ReadURL(a).path = f.path
       /\ ReadURL(a).query = f.query /\ ReadURL(a).port = port
  <2>1. /\ ReadURL(a).scheme = Plain(a.scheme) /\ ReadURL(a).host = a.host
        /\ ReadURL(a).path = Escaped(asked[1]) /\ ReadURL(a).query = asked[2] /\ ReadURL(a).port = port
    <3> DEFINE u == ReadURL(a)
               path == Escaped(asked[1])
               query == asked[2]
               kind == IF a.scheme # Plain(a.scheme) THEN "ws" ELSE "http"
               scheme == Plain(a.scheme)
    <3>1. u = [scheme |-> scheme, host |-> a.host, port |-> port, path |-> path, query |-> query, kind |-> kind]
      BY <1>9
    <3> HIDE DEF u, path, query, kind, scheme
    <3>2. u.scheme = scheme /\ u.host = a.host /\ u.path = path /\ u.query = query /\ u.port = port
      BY <3>1
    <3>3. QED
      BY <3>2 DEF u, path, query, scheme
  <2>2. Plain(a.scheme) = f.scheme /\ a.host = f.host
    BY <1>4, <1>5
  <2>3. Escaped(asked[1]) = f.path /\ asked[2] = f.query
    BY <1>8, <1>10
  <2>4. QED
    BY <2>1, <2>2, <2>3, Zenon
<1>13. QED
  BY <1>7, <1>11, <1>12 DEF a

\* Flow.URL, setURL: of an address that can be read, the scheme and the host are read as
\* they were.
LEMMA AddressRead ==
  ASSUME NEW f \in Flow, ~Unread(URL(f))
  PROVE  ReadURL(URL(f)).scheme = f.scheme /\ ReadURL(URL(f)).host = f.host
<1> DEFINE a == URL(f)
           asked == CutAt(CutAt(a.rest, "#")[1], "?")
           port == IF a.port # Nothing THEN a.port
                   ELSE IF Plain(a.scheme) \in DOMAIN DefaultPort THEN DefaultPort[Plain(a.scheme)] ELSE 0
<1>1. a.scheme = f.scheme /\ a.host = f.host
  BY DEF URL
<1>2. Plain(f.scheme) = f.scheme
  BY DEF Flow, Plain
<1>3. ~Unread(a)
  OBVIOUS
<1> HIDE DEF a
<1>4. ReadURL(a) = [scheme |-> Plain(a.scheme), host |-> a.host, port |-> port, path |-> Escaped(asked[1]),
                    query |-> asked[2], kind |-> IF a.scheme # Plain(a.scheme) THEN "ws" ELSE "http"]
  BY <1>3, Zenon DEF ReadURL
<1> HIDE DEF asked, port
<1>5. ReadURL(a).scheme = Plain(a.scheme) /\ ReadURL(a).host = a.host
  BY <1>4
<1>6. QED
  BY <1>1, <1>2, <1>5 DEF a

\* exporter.headers, headerMap: headers that are not masked are read as they were.
LEMMA HeadersReadBack ==
  ASSUME NEW h \in Headers, NEW opts, Plainly(h, opts)
  PROVE  headerMap(RedactHeaders(h, opts)) = h
<1> DEFINE r == RedactHeaders(h, opts)
<1>1. PICK N \in SUBSET STRING : h \in [N -> Seq(STRING)]
  BY DEF Headers
<1>2. ASSUME NEW name \in N
      PROVE  /\ name \notin opts.secret
             /\ \A n \in DOMAIN h[name] : h[name][n] \notin opts.words
             /\ h[name] = [n \in DOMAIN h[name] |-> h[name][n]]
  <2>1. h[name] \in Seq(STRING)
    BY <1>1
  <2>2. ToSet(h[name]) \cap opts.words = {} /\ name \notin opts.secret
    BY <1>1 DEF Plainly
  <2>3. QED
    BY <2>1, <2>2 DEF ToSet
<1>3. r = [name \in N |->
             [n \in DOMAIN h[name] |->
                IF name \in opts.secret \/ h[name][n] \in opts.words THEN "masked" ELSE h[name][n]]]
  BY <1>1 DEF RedactHeaders
<1>4. r = [name \in N |-> h[name]]
  <2>1. \A name \in N :
          [n \in DOMAIN h[name] |->
             IF name \in opts.secret \/ h[name][n] \in opts.words THEN "masked" ELSE h[name][n]] = h[name]
    BY <1>2
  <2>2. QED
    BY <1>3, <2>1
<1>5. r = h
  BY <1>1, <1>4
<1>6. headerMap(h) = [name \in N |-> h[name]]
  BY <1>1 DEF Plainly, headerMap
<1>7. QED
  BY <1>1, <1>5, <1>6

\* A body as it is stored.
StoredRef(ref, b) ==
  IF b = <<>> THEN ref
  ELSE [ref EXCEPT !.hash = [layer |-> "", content |-> b], !.captured = Len(b), !.encoding = ""]

\* importEntry, in its parts.
LEMMA ImportIs ==
  ASSUME NEW e
  PROVE  LET p == Note(e)
             u == ReadURL(e.url)
         IN
         /\ importEntry(e).reqBody = Sent(e) /\ importEntry(e).respBody = Got(e)
         /\ importEntry(e).flow =
              [method |-> e.method, proto |-> e.proto, client |-> e.client, status |-> e.status,
               upProto |-> IF e.respProto = e.proto THEN "" ELSE e.respProto,
               scheme |-> u.scheme, host |-> u.host, port |-> u.port, path |-> u.path, query |-> u.query,
               reqH |-> headerMap(e.reqH), respH |-> headerMap(e.respH), t |-> importTiming(e.start, e.timings),
               kind |-> IF p.kind # "" THEN p.kind ELSE u.kind,
               state |-> IF p.error # "" /\ p.state \in {"", "done"} THEN "failed"
                         ELSE IF p.state # "" THEN p.state ELSE "done",
               session |-> p.session, error |-> p.error, tags |-> p.tags, replay |-> p.replay,
               reqBody |-> Req(e), respBody |-> Resp(e)]
<1> DEFINE p == Note(e)
           u == ReadURL(e.url)
           flow == [method |-> e.method, proto |-> e.proto, client |-> e.client, status |-> e.status,
             upProto |-> IF e.respProto = e.proto THEN "" ELSE e.respProto,
             scheme |-> u.scheme, host |-> u.host, port |-> u.port, path |-> u.path, query |-> u.query,
             reqH |-> headerMap(e.reqH), respH |-> headerMap(e.respH), t |-> importTiming(e.start, e.timings),
             kind |-> IF p.kind # "" THEN p.kind ELSE u.kind,
             state |-> IF p.error # "" /\ p.state \in {"", "done"} THEN "failed"
                       ELSE IF p.state # "" THEN p.state ELSE "done",
             session |-> p.session, error |-> p.error, tags |-> p.tags, replay |-> p.replay,
             reqBody |-> Req(e), respBody |-> Resp(e)]
<1>1. importEntry(e) = [reqBody |-> Sent(e), respBody |-> Got(e), flow |-> flow]
  BY Zenon DEF importEntry
<1> HIDE DEF flow
<1>2. importEntry(e).reqBody = Sent(e) /\ importEntry(e).respBody = Got(e) /\ importEntry(e).flow = flow
  BY <1>1
<1>3. QED
  BY <1>2, Zenon DEF flow

\* importEntry, field by field.
LEMMA ImportFields ==
  ASSUME NEW e
  PROVE  LET g == importEntry(e)
             u == ReadURL(e.url)
         IN
         /\ g.reqBody = Sent(e) /\ g.respBody = Got(e)
         /\ g.flow.method = e.method /\ g.flow.status = e.status
         /\ g.flow.scheme = u.scheme /\ g.flow.host = u.host
         /\ g.flow.port = u.port /\ g.flow.path = u.path /\ g.flow.query = u.query
         /\ g.flow.reqH = headerMap(e.reqH) /\ g.flow.respH = headerMap(e.respH)
         /\ g.flow.t = importTiming(e.start, e.timings)
         /\ g.flow.kind = (IF Note(e).kind # "" THEN Note(e).kind ELSE u.kind)
         /\ g.flow.reqBody = Req(e)
<1> DEFINE g == importEntry(e)
           p == Note(e)
           u == ReadURL(e.url)
           w == g.flow
<1>1. /\ g.reqBody = Sent(e) /\ g.respBody = Got(e)
      /\ w = [method |-> e.method, proto |-> e.proto, client |-> e.client, status |-> e.status,
               upProto |-> IF e.respProto = e.proto THEN "" ELSE e.respProto,
               scheme |-> u.scheme, host |-> u.host, port |-> u.port, path |-> u.path, query |-> u.query,
               reqH |-> headerMap(e.reqH), respH |-> headerMap(e.respH), t |-> importTiming(e.start, e.timings),
               kind |-> IF p.kind # "" THEN p.kind ELSE u.kind,
               state |-> IF p.error # "" /\ p.state \in {"", "done"} THEN "failed"
                         ELSE IF p.state # "" THEN p.state ELSE "done",
               session |-> p.session, error |-> p.error, tags |-> p.tags, replay |-> p.replay,
               reqBody |-> Req(e), respBody |-> Resp(e)]
  BY ImportIs, Zenon
<1> HIDE DEF g, p, u, w
<1>2. /\ w.method = e.method /\ w.status = e.status
      /\ w.scheme = u.scheme /\ w.host = u.host /\ w.port = u.port /\ w.path = u.path /\ w.query = u.query
      /\ w.reqH = headerMap(e.reqH) /\ w.respH = headerMap(e.respH)
      /\ w.t = importTiming(e.start, e.timings)
      /\ w.kind = (IF p.kind # "" THEN p.kind ELSE u.kind)
      /\ w.reqBody = Req(e)
  BY <1>1
<1> QED
  BY <1>1, <1>2, Zenon DEF g, p, u, w

\* har.Export and har.Import: what RoundTripTrue says is so for any flow and any options:
\* the exchange that is imported is the one that was exported, but for the rounding of its
\* times and for an address that cannot be read, which is kept to the letter.
THEOREM ExchangeSurvives ==
  ASSUME NEW f \in Flow, NEW opts \in HarOptions, NothingIsNil, ShortGiven
  PROVE  RoundTripTrue(f, opts)
<1> DEFINE e == Entry(<<f>>, f, opts)
           g == importEntry(e)
           fits(ref) == ref.hash # Nothing /\ Len(Whole(ref)) <= opts.cap
           reqH == RedactHeaders(f.reqH, opts)
           respH == RedactHeaders(f.respH, opts)
           reqMime == firstNonEmpty(Header(reqH, "Content-Type"), f.reqBody.mime)
           respMime == firstNonEmpty(Header(respH, "Content-Type"), f.respBody.mime)
           post == ExportedBody(<<f>>, f.reqBody, reqMime, opts)
           content == IF hasBody(f.respBody) THEN ExportedBody(<<f>>, f.respBody, respMime, opts) ELSE NoText
<1>1. /\ e.method = firstNonEmpty(f.method, Inferred(f.kind)) /\ e.url = URL(f) /\ e.status = f.status
      /\ e.reqH = reqH /\ e.respH = respH /\ e.start = f.t.start - (f.t.start % Milli) /\ e.timings = timings(f.t)
      /\ e.reqSize = f.reqBody.size
      /\ e.post = (IF hasBody(f.reqBody) THEN [mime |-> reqMime, text |-> post.text, encoding |-> post.encoding]
                   ELSE Nothing)
      /\ e.content.text = content.text /\ e.content.encoding = content.encoding
      /\ e.pano = [kind |-> f.kind, state |-> f.state, session |-> f.session, error |-> f.error,
                   tags |-> f.tags, reqTruncated |-> f.reqBody.truncated,
                   respTruncated |-> f.respBody.truncated, replay |-> f.replay]
  BY DEF Entry
<1>2. /\ f.kind # "" /\ f.t \in HarTimes /\ f.reqBody \in BodyRef /\ f.respBody \in BodyRef
      /\ f.reqH \in Headers /\ f.respH \in Headers
  BY DEF Flow
<1>3. e.pano # Nothing /\ e.pano.kind = f.kind
  BY <1>1, SMTT(60) DEF NothingIsNil
<1> HIDE DEF e, post, content, reqMime, respMime, reqH, respH
<1>4. /\ g.flow.method = e.method /\ g.flow.status = e.status
      /\ g.flow.scheme = ReadURL(e.url).scheme /\ g.flow.host = ReadURL(e.url).host
      /\ g.flow.port = ReadURL(e.url).port /\ g.flow.path = ReadURL(e.url).path
      /\ g.flow.query = ReadURL(e.url).query
      /\ g.flow.reqH = headerMap(e.reqH) /\ g.flow.respH = headerMap(e.respH)
      /\ g.flow.t = importTiming(e.start, e.timings)
  BY ImportFields, Zenon
<1>5. g.flow.kind = f.kind
  <2>1. g.flow.kind = IF Note(e).kind # "" THEN Note(e).kind ELSE ReadURL(e.url).kind
    BY ImportFields, Zenon
  <2>2. Note(e) = e.pano
    BY <1>3, Zenon DEF Note
  <2>3. QED
    BY <1>2, <1>3, <2>1, <2>2, Zenon
<1>6. /\ g.reqBody = (IF e.post = Nothing THEN <<>> ELSE decodeBody(e.post.text, e.post.encoding))
      /\ g.respBody = decodeBody(e.content.text, e.content.encoding)
  <2>1. g.reqBody = Sent(e) /\ g.respBody = Got(e)
    BY ImportFields, Zenon
  <2>2. QED
    BY <2>1, Zenon DEF Sent, Got
<1>7. e.reqSize > 0 => g.flow.reqBody.size = e.reqSize
  <2> DEFINE p == Note(e)
             sent == Sent(e)
             type == Header(headerMap(e.reqH), "Content-Type")
             req == IF e.post # Nothing THEN bodyRef(sent, e.post.mime, type, 0, e.reqSize)
                    ELSE IF e.reqSize > 0 THEN bodyRef(<<>>, "", type, 0, e.reqSize)
                    ELSE NoBody
  <2>1. g.flow.reqBody = [req EXCEPT !.truncated = p.reqTruncated]
    <3>1. g.flow.reqBody = Req(e)
      BY ImportFields, Zenon
    <3>2. QED
      BY <3>1, Zenon DEF Req
  <2>2. ASSUME NEW b, NEW mime, NEW ct, e.reqSize > 0
        PROVE  /\ bodyRef(b, mime, ct, 0, e.reqSize).size = e.reqSize
               /\ \A v : [bodyRef(b, mime, ct, 0, e.reqSize) EXCEPT !.truncated = v].size = e.reqSize
    BY <2>2 DEF bodyRef
  <2> HIDE DEF g, p, sent, type
  <2>3. ASSUME e.reqSize > 0, e.post # Nothing
        PROVE  g.flow.reqBody.size = e.reqSize
    <3>1. g.flow.reqBody = [bodyRef(sent, e.post.mime, type, 0, e.reqSize) EXCEPT !.truncated = p.reqTruncated]
      BY <2>1, <2>3
    <3>2. QED
      BY <2>2, <2>3, <3>1
  <2>4. ASSUME e.reqSize > 0, e.post = Nothing
        PROVE  g.flow.reqBody.size = e.reqSize
    <3>1. g.flow.reqBody = [bodyRef(<<>>, "", type, 0, e.reqSize) EXCEPT !.truncated = p.reqTruncated]
      BY <2>1, <2>4
    <3>2. \A v : [bodyRef(<<>>, "", type, 0, e.reqSize) EXCEPT !.truncated = v].size = e.reqSize
      BY <2>4 DEF bodyRef
    <3>3. QED
      BY <3>1, <3>2
  <2>5. QED
    BY <2>3, <2>4, SMTT(60)
<1> HIDE DEF g
<1>8. e.post # Nothing <=> hasBody(f.reqBody)
  BY <1>1 DEF NothingIsNil
<1>9. hasBody(f.reqBody) => e.post.text = post.text /\ e.post.encoding = post.encoding
  BY <1>1
<1>10. opts.cap \in Int
  BY DEF HarOptions
<1>11. ASSUME opts.redact = {}, fits(f.reqBody)
       PROVE  g.reqBody = Whole(f.reqBody)
  <2>1. encodingOf(<<f>>, f.reqBody.hash) = f.reqBody.encoding
    BY EncodingFound
  <2>2. decodeBody(post.text, post.encoding) = Whole(f.reqBody)
    BY <1>2, <1>10, <1>11, <2>1, BodyReadBack DEF post
  <2>3. hasBody(f.reqBody)
    BY <1>11 DEF hasBody
  <2>4. QED
    BY <1>6, <1>8, <1>9, <2>2, <2>3
<1>12. ASSUME opts.redact = {}, fits(f.respBody),
              f.reqBody.hash = f.respBody.hash => f.reqBody.encoding = f.respBody.encoding
       PROVE  g.respBody = Whole(f.respBody)
  <2>1. encodingOf(<<f>>, f.respBody.hash) = f.respBody.encoding
    BY <1>12, EncodingFound
  <2>2. hasBody(f.respBody)
    BY <1>12 DEF hasBody
  <2>3. decodeBody(content.text, content.encoding) = Whole(f.respBody)
    BY <1>2, <1>10, <1>12, <2>1, <2>2, BodyReadBack, ZenonT(60) DEF content
  <2>4. QED
    BY <1>1, <1>6, <2>3
<1>13. f.reqBody.size > 0 => g.flow.reqBody.size = f.reqBody.size
  <2>1. f.reqBody.size \in Nat
    BY <1>2 DEF BodyRef
  <2>2. QED
    BY <1>1, <1>7, <2>1 DEF bodyRef
<1>14. /\ \A m \in {"dns", "wrote", "first", "end"} : g.flow.t[m] = 0 <=> f.t[m] = 0
       /\ Ordered(f.t) => /\ Near(TTFB(g.flow.t), TTFB(f.t), 4)
                          /\ f.t.end # 0 => Near(Total(g.flow.t, 0), Total(f.t, 0), 1)
  <2>1. g.flow.t = importTiming(f.t.start - (f.t.start % Milli), timings(f.t)) /\ f.t \in HarTimes
    BY <1>1, <1>2, <1>4
  <2>2. /\ g.flow.t.dns = 0 <=> f.t.dns = 0
        /\ g.flow.t.wrote = 0 <=> f.t.wrote = 0
        /\ g.flow.t.first = 0 <=> f.t.first = 0
        /\ g.flow.t.end = 0 <=> f.t.end = 0
        /\ Ordered(f.t) => /\ Near(TTFB(g.flow.t), TTFB(f.t), 4)
                           /\ f.t.end # 0 => Near(Total(g.flow.t, 0), Total(f.t, 0), 1)
    BY <2>1, TimesSurvive, Zenon
  <2>3. QED
    BY <2>2
<1>15. f.method # "" => g.flow.method = f.method
  BY <1>1, <1>4 DEF firstNonEmpty
<1>16. /\ Plainly(f.reqH, opts) => g.flow.reqH = f.reqH
       /\ Plainly(f.respH, opts) => g.flow.respH = f.respH
  <2>1. /\ g.flow.reqH = headerMap(RedactHeaders(f.reqH, opts))
        /\ g.flow.respH = headerMap(RedactHeaders(f.respH, opts))
    BY <1>1, <1>4 DEF reqH, respH
  <2>2. QED
    BY <1>2, <2>1, HeadersReadBack
<1>17. /\ f.host # "::1" /\ f.scheme # "" /\ Safe(f) =>
            /\ <<g.flow.scheme, g.flow.host, g.flow.path, g.flow.query>> = <<f.scheme, f.host, f.path, f.query>>
            /\ f.scheme \in DOMAIN DefaultPort /\ f.port # 0 => g.flow.port = f.port
       /\ Unread(e.url) => g.flow.scheme = "" /\ g.flow.path = Verbatim(e.url)
       /\ ~Unread(e.url) => g.flow.scheme = f.scheme /\ g.flow.host = f.host
  <2>1. /\ g.flow.scheme = ReadURL(URL(f)).scheme /\ g.flow.host = ReadURL(URL(f)).host
        /\ g.flow.port = ReadURL(URL(f)).port /\ g.flow.path = ReadURL(URL(f)).path
        /\ g.flow.query = ReadURL(URL(f)).query
    BY <1>1, <1>4
  <2>2. e.url = URL(f)
    BY <1>1
  <2>3. ASSUME f.host # "::1", f.scheme # "", Safe(f)
        PROVE  /\ <<g.flow.scheme, g.flow.host, g.flow.path, g.flow.query>> = <<f.scheme, f.host, f.path, f.query>>
               /\ f.scheme \in DOMAIN DefaultPort /\ f.port # 0 => g.flow.port = f.port
    BY <2>1, <2>3, AddressReadBack, Zenon
  <2>4. ASSUME Unread(URL(f))
        PROVE  ReadURL(URL(f)).scheme = "" /\ ReadURL(URL(f)).path = Verbatim(URL(f))
    <3> DEFINE a == URL(f)
    <3>1. Unread(a)
      BY <2>4
    <3> HIDE DEF a
    <3> DEFINE whole == Verbatim(a)
               u == ReadURL(a)
               none == <<>>
    <3>2. u = [scheme |-> "", host |-> "", port |-> 0, path |-> whole, query |-> none, kind |-> "http"]
      BY <3>1, Zenon DEF ReadURL
    <3> HIDE DEF whole, none, u
    <3>3. u.scheme = "" /\ u.path = whole
      BY <3>2
    <3>4. QED
      BY <3>3 DEF a, whole, u
  <2>5. ASSUME ~Unread(URL(f))
        PROVE  ReadURL(URL(f)).scheme = f.scheme /\ ReadURL(URL(f)).host = f.host
    BY <2>5, AddressRead, Zenon
  <2>6. QED
    BY <2>1, <2>2, <2>3, <2>4, <2>5, Zenon
<1>18. g.flow.status = f.status
  BY <1>1, <1>4
<1>19. QED
  BY <1>5, <1>11, <1>12, <1>13, <1>14, <1>15, <1>16, <1>17, <1>18, ZenonT(60) DEF RoundTripTrue, e, g

\* The phases of what was imported are those it was imported from: but for the end, which is
\* told twice.
LEMMA TimesRead ==
  ASSUME ShortGiven, NEW s \in Nat, s > 0, NEW tm, PhasesOf(s, tm)
  PROVE  LET y == importTiming(s, tm)
             un == timings(y)
             m == Moments(s, tm)
         IN
         /\ un = [blocked |-> -1, dns |-> tm.dns, connect |-> tm.connect, ssl |-> tm.ssl, send |-> tm.send,
                  wait |-> tm.wait, receive |-> un.receive, total |-> un.total]
         /\ y.start = s
         /\ y.end = (IF tm.total > 0 THEN s + Back(tm.total)
                     ELSE IF tm.receive >= 0 THEN m.got + Back(tm.receive)
                     ELSE IF tm.total = 0 THEN s ELSE 0)
         /\ un.receive = (IF y.end = 0 \/ tm.wait < 0 THEN -1 ELSE ms(y.end - m.got))
         /\ un.total = (IF y.end = 0 THEN -1 ELSE ms(y.end - s))
<1> DEFINE m == Moments(s, tm)
           y == importTiming(s, tm)
           un == timings(y)
<1>1. /\ tm.blocked = -1
      /\ tm.dns \in Phase /\ tm.connect \in Phase /\ tm.ssl \in Phase /\ tm.send \in Phase /\ tm.wait \in Phase
      /\ tm.receive \in Phase /\ tm.total \in Phase
      /\ tm.ssl >= 0 => tm.connect >= 0 /\ tm.ssl < s
  BY DEF PhasesOf
<1>2. \A v \in Phase : v \in Int /\ (v < 0 <=> v = -1) /\ (v >= 0 => v \in Micros /\ v \in Nat)
  BY DEF Phase, Micros, Micro
<1>3. /\ s <= m.dns /\ m.dns <= m.conn /\ m.conn <= m.sent /\ m.sent <= m.got
      /\ m.dns \in Nat /\ m.conn \in Nat /\ m.sent \in Nat /\ m.got \in Nat
      /\ tm.dns < 0 => m.dns = s
      /\ tm.dns >= 0 => m.dns = s + Back(tm.dns)
      /\ tm.connect < 0 => m.conn = m.dns
      /\ tm.connect >= 0 => m.conn = m.dns + Back(tm.connect)
      /\ tm.send < 0 => m.sent = m.conn
      /\ tm.send >= 0 => m.sent = m.conn + Back(tm.send)
      /\ tm.wait < 0 => m.got = m.sent
      /\ tm.wait >= 0 => m.got = m.sent + Back(tm.wait)
  BY MomentsRead, Zenon
<1>4. y = [start |-> s, dns |-> told(tm.dns, m.dns),
           connected |-> told(tm.connect, IF tm.ssl < 0 THEN m.conn ELSE m.conn - Back(tm.ssl)),
           tls |-> IF tm.connect < 0 THEN 0 ELSE told(tm.ssl, m.conn),
           wrote |-> told(tm.send, m.sent), first |-> told(tm.wait, m.got),
           end |-> IF tm.total > 0 THEN s + Back(tm.total)
                   ELSE IF tm.receive >= 0 THEN m.got + Back(tm.receive)
                   ELSE IF tm.total = 0 THEN s ELSE 0]
  BY <1>1, TimingIs, Zenon
<1> HIDE DEF y, m
<1>5. /\ y.start = s /\ y.dns = told(tm.dns, m.dns)
      /\ y.connected = told(tm.connect, IF tm.ssl < 0 THEN m.conn ELSE m.conn - Back(tm.ssl))
      /\ y.tls = (IF tm.connect < 0 THEN 0 ELSE told(tm.ssl, m.conn))
      /\ y.wrote = told(tm.send, m.sent) /\ y.first = told(tm.wait, m.got)
      /\ y.end = (IF tm.total > 0 THEN s + Back(tm.total)
                  ELSE IF tm.receive >= 0 THEN m.got + Back(tm.receive)
                  ELSE IF tm.total = 0 THEN s ELSE 0)
  BY <1>4
<1>6. tm.ssl >= 0 => Back(tm.ssl) \in Nat /\ Back(tm.ssl) < s
  <2>1. ASSUME tm.ssl >= 0
        PROVE  Back(tm.ssl) \in Nat /\ Back(tm.ssl) < s
    <3>1. tm.ssl \in Nat /\ tm.ssl < s
      BY <1>1, <1>2, <2>1
    <3>2. Back(tm.ssl) \in Nat /\ (Back(tm.ssl) = tm.ssl \/ (tm.ssl > 0 /\ Back(tm.ssl) = tm.ssl - 1))
      BY <3>1, BackIs
    <3>3. QED
      BY <3>1, <3>2
  <2>2. QED
    BY <2>1
<1> DEFINE dns  == IF y.dns = 0 THEN y.start ELSE y.dns
           conn == IF y.tls # 0 THEN y.tls ELSE IF y.connected # 0 THEN y.connected ELSE dns
           sent == IF y.wrote = 0 THEN conn ELSE y.wrote
           got  == IF y.first = 0 THEN sent ELSE y.first
<1>7. un = [blocked |-> -1,
            dns     |-> IF y.dns = 0 THEN -1 ELSE ms(dns - y.start),
            connect |-> IF y.connected = 0 /\ y.tls = 0 THEN -1 ELSE ms(conn - dns),
            ssl     |-> IF y.connected = 0 \/ y.tls = 0 THEN -1 ELSE ms(y.tls - y.connected),
            send    |-> IF y.wrote = 0 THEN -1 ELSE ms(sent - conn),
            wait    |-> IF y.first = 0 THEN -1 ELSE ms(got - sent),
            receive |-> IF y.end = 0 \/ y.first = 0 THEN -1 ELSE ms(y.end - got),
            total   |-> IF y.end = 0 THEN -1 ELSE ms(y.end - y.start)]
  BY Zenon DEF timings
<1> HIDE DEF un
<1>8. dns = m.dns /\ (y.dns = 0 <=> tm.dns < 0)
  BY <1>1, <1>2, <1>3, <1>5 DEF told
<1> HIDE DEF dns
<1>9. conn = m.conn /\ (y.connected = 0 /\ y.tls = 0 <=> tm.connect < 0) /\ (y.connected = 0 \/ y.tls = 0 <=> tm.ssl < 0)
  BY <1>1, <1>2, <1>3, <1>5, <1>6, <1>8 DEF told
<1> HIDE DEF conn
<1>10. sent = m.sent /\ (y.wrote = 0 <=> tm.send < 0)
  BY <1>1, <1>2, <1>3, <1>5, <1>9 DEF told
<1> HIDE DEF sent
<1>11. got = m.got /\ (y.first = 0 <=> tm.wait < 0)
  BY <1>1, <1>2, <1>3, <1>5, <1>10 DEF told
<1> HIDE DEF got
<1>12. \A v \in Micros : ms(Back(v)) = v
  BY MsBack
<1>13. (IF y.dns = 0 THEN -1 ELSE ms(dns - y.start)) = tm.dns
  <2>1. CASE tm.dns < 0
    BY <1>1, <1>2, <1>8, <2>1
  <2>2. CASE tm.dns >= 0
    <3>1. Back(tm.dns) \in Nat
      BY <1>1, <1>2, <2>2, BackIs
    <3>2. dns - y.start = Back(tm.dns)
      BY <1>3, <1>5, <1>8, <2>2, <3>1
    <3>3. QED
      BY <1>1, <1>2, <1>8, <1>12, <2>2, <3>2
  <2>3. QED
    BY <1>1, <1>2, <2>1, <2>2
<1>14. (IF y.connected = 0 /\ y.tls = 0 THEN -1 ELSE ms(conn - dns)) = tm.connect
  <2>1. CASE tm.connect < 0
    BY <1>1, <1>2, <1>9, <2>1
  <2>2. CASE tm.connect >= 0
    <3>1. Back(tm.connect) \in Nat
      BY <1>1, <1>2, <2>2, BackIs
    <3>2. conn - dns = Back(tm.connect)
      BY <1>3, <1>8, <1>9, <2>2, <3>1
    <3>3. QED
      BY <1>1, <1>2, <1>9, <1>12, <2>2, <3>2
  <2>3. QED
    BY <1>1, <1>2, <2>1, <2>2
<1>15. (IF y.connected = 0 \/ y.tls = 0 THEN -1 ELSE ms(y.tls - y.connected)) = tm.ssl
  <2>1. CASE tm.ssl < 0
    BY <1>1, <1>2, <1>9, <2>1
  <2>2. CASE tm.ssl >= 0
    <3>1. y.tls - y.connected = Back(tm.ssl)
      BY <1>1, <1>2, <1>3, <1>5, <1>6, <2>2 DEF told
    <3>2. QED
      BY <1>1, <1>2, <1>9, <1>12, <2>2, <3>1
  <2>3. QED
    BY <1>1, <1>2, <2>1, <2>2
<1>16. (IF y.wrote = 0 THEN -1 ELSE ms(sent - conn)) = tm.send
  <2>1. CASE tm.send < 0
    BY <1>1, <1>2, <1>10, <2>1
  <2>2. CASE tm.send >= 0
    <3>1. Back(tm.send) \in Nat
      BY <1>1, <1>2, <2>2, BackIs
    <3>2. sent - conn = Back(tm.send)
      BY <1>3, <1>9, <1>10, <2>2, <3>1
    <3>3. QED
      BY <1>1, <1>2, <1>10, <1>12, <2>2, <3>2
  <2>3. QED
    BY <1>1, <1>2, <2>1, <2>2
<1>17. (IF y.first = 0 THEN -1 ELSE ms(got - sent)) = tm.wait
  <2>1. CASE tm.wait < 0
    BY <1>1, <1>2, <1>11, <2>1
  <2>2. CASE tm.wait >= 0
    <3>1. Back(tm.wait) \in Nat
      BY <1>1, <1>2, <2>2, BackIs
    <3>2. got - sent = Back(tm.wait)
      BY <1>3, <1>10, <1>11, <2>2, <3>1
    <3>3. QED
      BY <1>1, <1>2, <1>11, <1>12, <2>2, <3>2
  <2>3. QED
    BY <1>1, <1>2, <2>1, <2>2
<1>18. /\ un = [blocked |-> -1, dns |-> tm.dns, connect |-> tm.connect, ssl |-> tm.ssl, send |-> tm.send,
                wait |-> tm.wait, receive |-> IF y.end = 0 \/ y.first = 0 THEN -1 ELSE ms(y.end - got),
                total |-> IF y.end = 0 THEN -1 ELSE ms(y.end - y.start)]
  BY <1>7, <1>13, <1>14, <1>15, <1>16, <1>17
<1>19. /\ un.receive = (IF y.end = 0 \/ y.first = 0 THEN -1 ELSE ms(y.end - got))
       /\ un.total = (IF y.end = 0 THEN -1 ELSE ms(y.end - y.start))
  BY <1>18
<1>20. un = [blocked |-> -1, dns |-> tm.dns, connect |-> tm.connect, ssl |-> tm.ssl, send |-> tm.send,
             wait |-> tm.wait, receive |-> un.receive, total |-> un.total]
  BY <1>18, <1>19
<1>21. QED
  BY <1>5, <1>11, <1>19, <1>20 DEF un, y, m

\* Whatever the times of a flow were, what is read of them is written as it was read.
LEMMA TimesStay ==
  ASSUME NEW t \in HarTimes, ShortGiven
  PROVE  LET s == t.start - (t.start % Milli)
             y == importTiming(s, timings(t))
             z == importTiming(y.start - (y.start % Milli), timings(y))
         IN z.start = y.start /\ timings(z) = timings(y)
<1> DEFINE s == t.start - (t.start % Milli)
           tm == timings(t)
           y == importTiming(s, tm)
           un == timings(y)
           z == importTiming(s, un)
           vn == timings(z)
           m == Moments(s, tm)
           w == Moments(s, un)
<1>1. s \in Nat /\ s > 0 /\ s - (s % Milli) = s
  <2>1. t.start \in Nat /\ t.start >= Milli
    BY DEF HarTimes
  <2>2. QED
    BY <2>1 DEF Milli
<1>2. PhasesOf(s, tm)
  BY PhasesAre, Zenon
<1> HIDE DEF s, tm
<1>3. /\ un = [blocked |-> -1, dns |-> tm.dns, connect |-> tm.connect, ssl |-> tm.ssl, send |-> tm.send,
               wait |-> tm.wait, receive |-> un.receive, total |-> un.total]
      /\ y.start = s
      /\ y.end = (IF tm.total > 0 THEN s + Back(tm.total)
                  ELSE IF tm.receive >= 0 THEN m.got + Back(tm.receive)
                  ELSE IF tm.total = 0 THEN s ELSE 0)
      /\ un.receive = (IF y.end = 0 \/ tm.wait < 0 THEN -1 ELSE ms(y.end - m.got))
      /\ un.total = (IF y.end = 0 THEN -1 ELSE ms(y.end - s))
  BY <1>1, <1>2, TimesRead, Zenon
<1>4. /\ s <= m.dns /\ m.dns <= m.conn /\ m.conn <= m.sent /\ m.sent <= m.got
      /\ m.dns \in Nat /\ m.conn \in Nat /\ m.sent \in Nat /\ m.got \in Nat
      /\ tm.dns < 0 => m.dns = s
      /\ tm.dns >= 0 => m.dns = s + Back(tm.dns)
      /\ tm.connect < 0 => m.conn = m.dns
      /\ tm.connect >= 0 => m.conn = m.dns + Back(tm.connect)
      /\ tm.send < 0 => m.sent = m.conn
      /\ tm.send >= 0 => m.sent = m.conn + Back(tm.send)
      /\ tm.wait < 0 => m.got = m.sent
      /\ tm.wait >= 0 => m.got = m.sent + Back(tm.wait)
  BY <1>1, <1>2, MomentsRead, Zenon
<1> HIDE DEF un, y
<1>5. un.blocked = -1 /\ un.dns = tm.dns /\ un.connect = tm.connect /\ un.ssl = tm.ssl /\ un.send = tm.send /\ un.wait = tm.wait
  BY <1>3
<1>6. w = m
  BY <1>5 DEF Moments
<1> HIDE DEF m, w
<1>7. /\ tm.dns \in Phase /\ tm.connect \in Phase /\ tm.ssl \in Phase /\ tm.send \in Phase /\ tm.wait \in Phase
      /\ tm.receive \in Phase /\ tm.total \in Phase
      /\ tm.ssl >= 0 => tm.connect >= 0 /\ tm.ssl < s
      /\ tm.receive >= 0 => tm.wait >= 0 /\ tm.total >= 0
      /\ tm.wait >= 0 /\ tm.total >= 0 => tm.receive >= 0
  BY <1>2 DEF PhasesOf
<1>8. \A v \in Phase : v \in Int /\ (v < 0 <=> v = -1) /\ (v >= 0 => v \in Micros /\ v \in Nat)
  BY DEF Phase, Micros, Micro
<1>9. \A d \in Int : ms(d) \in Micros /\ ms(d) \in Nat
  BY MsIs
<1>10. \A v \in Nat : Back(v) \in Nat /\ (Back(v) = v \/ (v > 0 /\ Back(v) = v - 1))
  BY BackIs
<1>11. y.end \in Nat /\ (y.end = 0 <=> tm.total < 0)
  <2>1. CASE tm.total > 0
    <3>1. Back(tm.total) \in Nat
      BY <1>7, <1>8, <1>10, <2>1
    <3>2. QED
      BY <1>1, <1>3, <1>7, <1>8, <2>1, <3>1
  <2>2. CASE tm.total = 0
    <3>1. tm.receive >= 0 => Back(tm.receive) \in Nat
      BY <1>7, <1>8, <1>10
    <3>2. QED
      BY <1>1, <1>3, <1>4, <2>2, <3>1
  <2>3. CASE tm.total < 0
    BY <1>3, <1>7, <1>8, <2>3
  <2>4. QED
    BY <1>7, <1>8, <2>1, <2>2, <2>3
<1>12. PhasesOf(s, un)
  <2>1. y.end - s \in Int /\ y.end - m.got \in Int
    BY <1>1, <1>4, <1>11
  <2>2. un.receive \in Phase /\ un.total \in Phase
    BY <1>3, <1>9, <2>1 DEF Phase
  <2>3. /\ un.receive >= 0 => tm.wait >= 0 /\ un.total >= 0
        /\ tm.wait >= 0 /\ un.total >= 0 => un.receive >= 0
    BY <1>3, <1>7, <1>8, <1>9, <2>1
  <2>4. QED
    BY <1>5, <1>7, <2>2, <2>3 DEF PhasesOf
<1>13. /\ vn = [blocked |-> -1, dns |-> un.dns, connect |-> un.connect, ssl |-> un.ssl, send |-> un.send,
                wait |-> un.wait, receive |-> vn.receive, total |-> vn.total]
       /\ z.start = s
       /\ z.end = (IF un.total > 0 THEN s + Back(un.total)
                   ELSE IF un.receive >= 0 THEN w.got + Back(un.receive)
                   ELSE IF un.total = 0 THEN s ELSE 0)
       /\ vn.receive = (IF z.end = 0 \/ un.wait < 0 THEN -1 ELSE ms(z.end - w.got))
       /\ vn.total = (IF z.end = 0 THEN -1 ELSE ms(z.end - s))
  <2> HIDE DEF un
  <2>1. QED
    BY <1>1, <1>12, TimesRead, Zenon DEF w
<1> HIDE DEF z, vn
<1>14. z.end = y.end \/ (tm.total = 0 /\ tm.receive >= 0 /\ un.total > 0)
  <2>1. CASE tm.total > 0
    <3>1. Back(tm.total) \in Nat /\ tm.total \in Micros
      BY <1>7, <1>8, <1>10, <2>1
    <3>2. y.end - s = Back(tm.total) /\ y.end # 0
      BY <1>1, <1>3, <1>11, <2>1, <3>1
    <3>3. un.total = tm.total
      BY <1>3, <3>1, <3>2, MsBack
    <3>4. QED
      BY <1>3, <1>13, <2>1, <3>3
  <2>2. CASE tm.total = 0 /\ tm.receive >= 0
    <3>1. y.end = m.got + Back(tm.receive) /\ y.end # 0 /\ tm.wait >= 0 /\ Back(tm.receive) \in Nat /\ tm.receive \in Micros
      BY <1>3, <1>7, <1>8, <1>10, <1>11, <2>2
    <3>2. y.end - m.got = Back(tm.receive)
      BY <1>4, <3>1
    <3>3. un.receive = tm.receive
      BY <1>3, <1>7, <1>8, <3>1, <3>2, MsBack
    <3>4. y.end - s \in Int /\ un.total \in Nat
      BY <1>1, <1>3, <1>9, <1>11, <3>1
    <3>5. CASE un.total = 0
      BY <1>6, <1>13, <2>2, <3>1, <3>3, <3>5
    <3>6. QED
      BY <2>2, <3>4, <3>5
  <2>3. CASE tm.total = 0 /\ tm.receive < 0
    <3>1. y.end = s /\ tm.wait < 0
      BY <1>3, <1>7, <1>8, <2>3
    <3>2. ms(s - s) = 0
      BY <1>1 DEF ms, Micro
    <3>3. un.total = 0 /\ un.receive = -1
      BY <1>1, <1>3, <3>1, <3>2
    <3>4. QED
      BY <1>13, <3>1, <3>3
  <2>4. CASE tm.total < 0
    <3>1. y.end = 0 /\ un.total = -1 /\ un.receive = -1
      BY <1>3, <1>11, <2>4
    <3>2. QED
      BY <1>13, <3>1
  <2>5. QED
    BY <1>7, <1>8, <2>1, <2>2, <2>3, <2>4
<1>15. vn.receive = un.receive /\ vn.total = un.total
  <2>1. CASE z.end = y.end
    BY <1>3, <1>5, <1>6, <1>13, <2>1
  <2>2. CASE tm.total = 0 /\ tm.receive >= 0 /\ un.total > 0
    <3>1. y.end = m.got + Back(tm.receive) /\ y.end # 0 /\ tm.wait >= 0 /\ Back(tm.receive) \in Nat
          /\ tm.receive \in Micros /\ tm.receive \in Nat
      BY <1>3, <1>7, <1>8, <1>10, <1>11, <2>2
    <3>2. un.total = ms(y.end - s) /\ un.total \in Nat /\ un.total \in Micros /\ Back(un.total) \in Nat
      <4>1. y.end - s \in Int
        BY <1>1, <1>11
      <4>2. QED
        BY <1>3, <1>9, <1>10, <3>1, <4>1
    <3>3. z.end = s + Back(un.total) /\ z.end # 0
      BY <1>1, <1>13, <2>2, <3>2
    <3>4. z.end - s = Back(un.total)
      BY <1>1, <3>2, <3>3
    <3>5. vn.total = un.total
      BY <1>13, <3>2, <3>3, <3>4, MsBack
    <3>6. PICK g \in Micros, j \in 0..4 : m.got - s = g - j
      <4>1. ASSUME NEW p \in Phase, NEW u \in Nat, NEW v \in Nat, p < 0 => v = u, p >= 0 => v = u + Back(p)
            PROVE  \E g \in Micros : v - u = g \/ v - u = g - 1
        <5>1. CASE p < 0
          <6>1. 0 \in Micros
            <7>1. Micro * 0 = 0
              BY DEF Micro
            <7>2. QED
              BY <7>1 DEF Micros
          <6>2. v - u = 0
            BY <4>1, <5>1
          <6>3. QED
            BY <6>1, <6>2
        <5>2. CASE p >= 0
          <6>1. p \in Micros /\ p \in Nat /\ v = u + Back(p)
            BY <1>8, <4>1, <5>2
          <6>2. v - u = p \/ v - u = p - 1
            BY <1>10, <6>1
          <6>3. QED
            BY <6>1, <6>2
        <5>3. QED
          BY <1>8, <5>1, <5>2
      <4>2. PICK a \in Micros : m.dns - s = a \/ m.dns - s = a - 1
        BY <1>1, <1>4, <1>7, <4>1
      <4>3. PICK b \in Micros : m.conn - m.dns = b \/ m.conn - m.dns = b - 1
        BY <1>4, <1>7, <4>1
      <4>4. PICK c \in Micros : m.sent - m.conn = c \/ m.sent - m.conn = c - 1
        BY <1>4, <1>7, <4>1
      <4>5. PICK d \in Micros : m.got - m.sent = d \/ m.got - m.sent = d - 1
        BY <1>4, <1>7, <4>1
      <4>6. a + b \in Micros /\ c + d \in Micros /\ a \in Nat /\ b \in Nat /\ c \in Nat /\ d \in Nat
        BY MicrosAdd
      <4>7. (a + b) + (c + d) \in Micros
        BY <4>6, MicrosAdd
      <4>8. ((a + b) + (c + d)) - (m.got - s) \in 0..4
        BY <1>1, <1>4, <4>2, <4>3, <4>4, <4>5, <4>6
      <4>9. QED
        BY <1>1, <1>4, <4>6, <4>7, <4>8
    <3>7. g \in Nat /\ g + tm.receive \in Micros
      BY <3>1, MicrosAdd
    <3>8. PICK i \in 0..1 : Back(tm.receive) = tm.receive - i
      <4>1. Back(tm.receive) = tm.receive - 0 \/ Back(tm.receive) = tm.receive - 1
        BY <1>10, <3>1
      <4>2. QED
        BY <4>1
    <3>9. un.total = g + tm.receive
      <4>1. y.end - s = (g + tm.receive) + (0 - j - i) /\ 0 - j - i \in Int /\ -400 <= 0 - j - i /\ 0 - j - i <= 400
        BY <1>1, <1>4, <3>1, <3>6, <3>7, <3>8
      <4>2. QED
        BY <3>2, <3>7, <4>1, MsOf
    <3>10. PICK l \in 0..1 : Back(un.total) = un.total - l
      <4>1. Back(un.total) = un.total - 0 \/ Back(un.total) = un.total - 1
        BY <1>10, <3>2
      <4>2. QED
        BY <4>1
    <3>11. z.end - m.got = tm.receive + (j - l) /\ j - l \in Int /\ -400 <= j - l /\ j - l <= 400
      BY <1>1, <1>4, <3>1, <3>3, <3>6, <3>7, <3>9, <3>10
    <3>12. ms(z.end - m.got) = tm.receive
      BY <3>1, <3>11, MsOf
    <3>13. y.end - m.got = Back(tm.receive)
      BY <1>4, <3>1
    <3>14. un.receive = tm.receive
      BY <1>3, <1>7, <1>8, <3>1, <3>13, MsBack
    <3>15. vn.receive = tm.receive
      BY <1>5, <1>6, <1>7, <1>8, <1>13, <3>1, <3>3, <3>12
    <3>16. QED
      BY <3>5, <3>14, <3>15
  <2>3. QED
    BY <1>14, <2>1, <2>2
<1>16. vn = un
  BY <1>3, <1>5, <1>13, <1>15
<1>17. QED
  BY <1>1, <1>3, <1>13, <1>16 DEF s, tm, y, un, z, vn

-----------------------------------------------------------------------------
(* Files of what was imported.                                             *)

\* The bytes that the text of a body stands for, and the size that is told of them.
Text(x, ref, opts) ==
  IF opts.cap < 0 \/ ref.hash = Nothing THEN <<>>
  ELSE LET c == Bytes(Decoded(encodingOf(<<x>>, ref.hash), ref.hash)) IN IF Len(c) > opts.cap THEN <<>> ELSE c
DecodedSize(x, ref, opts) ==
  IF opts.cap < 0 \/ ref.hash = Nothing THEN -1
  ELSE Len(Bytes(Decoded(encodingOf(<<x>>, ref.hash), ref.hash)))

\* The flow that an entry is imported as.
LEMMA StoredIs ==
  ASSUME NEW e
  PROVE  LET y == Stored(importEntry(e), "here")
             p == Note(e)
             u == ReadURL(e.url)
         IN
         y = [method |-> e.method, proto |-> e.proto, client |-> e.client, status |-> e.status,
              upProto |-> IF e.respProto = e.proto THEN "" ELSE e.respProto,
              scheme |-> u.scheme, host |-> u.host, port |-> u.port, path |-> u.path, query |-> u.query,
              reqH |-> headerMap(e.reqH), respH |-> headerMap(e.respH), t |-> importTiming(e.start, e.timings),
              kind |-> IF p.kind # "" THEN p.kind ELSE u.kind,
              state |-> "done", session |-> "here", error |-> p.error,
              tags |-> Append(p.tags, "imported"), replay |-> p.replay,
              reqBody |-> StoredRef(Req(e), Sent(e)), respBody |-> StoredRef(Resp(e), Got(e))]
<1> DEFINE i == importEntry(e)
           p == Note(e)
           u == ReadURL(e.url)
<1>1. /\ i.reqBody = Sent(e) /\ i.respBody = Got(e)
      /\ i.flow = [method |-> e.method, proto |-> e.proto, client |-> e.client, status |-> e.status,
             upProto |-> IF e.respProto = e.proto THEN "" ELSE e.respProto,
             scheme |-> u.scheme, host |-> u.host, port |-> u.port, path |-> u.path, query |-> u.query,
             reqH |-> headerMap(e.reqH), respH |-> headerMap(e.respH), t |-> importTiming(e.start, e.timings),
             kind |-> IF p.kind # "" THEN p.kind ELSE u.kind,
             state |-> IF p.error # "" /\ p.state \in {"", "done"} THEN "failed"
                       ELSE IF p.state # "" THEN p.state ELSE "done",
             session |-> p.session, error |-> p.error, tags |-> p.tags, replay |-> p.replay,
             reqBody |-> Req(e), respBody |-> Resp(e)]
  BY ImportIs, Zenon
<1> HIDE DEF i
<1> DEFINE y == Stored(i, "here")
           w == [method |-> e.method, proto |-> e.proto, client |-> e.client, status |-> e.status,
                 upProto |-> IF e.respProto = e.proto THEN "" ELSE e.respProto,
                 scheme |-> u.scheme, host |-> u.host, port |-> u.port, path |-> u.path, query |-> u.query,
                 reqH |-> headerMap(e.reqH), respH |-> headerMap(e.respH), t |-> importTiming(e.start, e.timings),
                 kind |-> IF p.kind # "" THEN p.kind ELSE u.kind,
                 state |-> IF p.error # "" /\ p.state \in {"", "done"} THEN "failed"
                           ELSE IF p.state # "" THEN p.state ELSE "done",
                 session |-> p.session, error |-> p.error, tags |-> p.tags, replay |-> p.replay,
                 reqBody |-> Req(e), respBody |-> Resp(e)]
<1>2. y = [i.flow EXCEPT !.session = "here", !.state = "done", !.tags = Append(i.flow.tags, "imported"),
                         !.reqBody = StoredRef(i.flow.reqBody, i.reqBody), !.respBody = StoredRef(i.flow.respBody, i.respBody)]
  BY DEF Stored, StoredRef
<1>3. i.flow = w
  BY <1>1
<1> HIDE DEF y, p, u
<1>4. w.tags = p.tags /\ w.reqBody = Req(e) /\ w.respBody = Resp(e)
  OBVIOUS
<1> HIDE DEF w
<1> DEFINE up == IF e.respProto = e.proto THEN "" ELSE e.respProto
           was == IF p.error # "" /\ p.state \in {"", "done"} THEN "failed"
                  ELSE IF p.state # "" THEN p.state ELSE "done"
           kind1 == IF p.kind # "" THEN p.kind ELSE u.kind
           reqH1 == headerMap(e.reqH)
           respH1 == headerMap(e.respH)
           t1 == importTiming(e.start, e.timings)
           tags1 == Append(p.tags, "imported")
           sent1 == StoredRef(Req(e), Sent(e))
           got1 == StoredRef(Resp(e), Got(e))
<1>5. y = [w EXCEPT !.session = "here", !.state = "done", !.tags = tags1, !.reqBody = sent1, !.respBody = got1]
  BY <1>1, <1>2, <1>3, <1>4
<1>6. w = [method |-> e.method, proto |-> e.proto, client |-> e.client, status |-> e.status,
           upProto |-> up, scheme |-> u.scheme, host |-> u.host, port |-> u.port, path |-> u.path, query |-> u.query,
           reqH |-> reqH1, respH |-> respH1, t |-> t1, kind |-> kind1, state |-> was,
           session |-> p.session, error |-> p.error, tags |-> p.tags, replay |-> p.replay,
           reqBody |-> Req(e), respBody |-> Resp(e)]
  BY Zenon DEF w
<1> HIDE DEF up, was, kind1, reqH1, respH1, t1, tags1, sent1, got1
<1>7. y = [method |-> e.method, proto |-> e.proto, client |-> e.client, status |-> e.status,
           upProto |-> up, scheme |-> u.scheme, host |-> u.host, port |-> u.port, path |-> u.path, query |-> u.query,
           reqH |-> reqH1, respH |-> respH1, t |-> t1, kind |-> kind1, state |-> "done",
           session |-> "here", error |-> p.error, tags |-> tags1, replay |-> p.replay,
           reqBody |-> sent1, respBody |-> got1]
  BY <1>5, <1>6, ZenonT(60)
<1>8. QED
  BY <1>7, ZenonT(60) DEF y, i, p, u, up, was, kind1, reqH1, respH1, t1, tags1, sent1, got1

\* exporter.body, decodeBody: the text of an entry is read as the bytes that were written.
LEMMA TextBack ==
  ASSUME NEW x, NEW ref, NEW mime, NEW opts, opts.redact = {}
  PROVE  LET b == ExportedBody(<<x>>, ref, mime, opts) IN
         decodeBody(b.text, b.encoding) = Text(x, ref, opts) /\ b.decodedSize = DecodedSize(x, ref, opts)
<1> DEFINE c == Bytes(Decoded(encodingOf(<<x>>, ref.hash), ref.hash))
           inline == IsTextual(Of(mime)) /\ Utf8(c)
           full == [text |-> [b64 |-> ~inline, bytes |-> IF inline /\ c \in opts.redact THEN <<"masked">> ELSE c],
                    encoding |-> IF inline THEN "" ELSE "base64", decodedSize |-> Len(c)]
           long == [NoText EXCEPT !.decodedSize = Len(c)]
           nil == opts.cap < 0 \/ ref.hash = Nothing
           b == ExportedBody(<<x>>, ref, mime, opts)
<1>1. b = IF nil THEN NoText ELSE IF Len(c) > opts.cap THEN long ELSE full
  BY DEF ExportedBody
<1>2. /\ Text(x, ref, opts) = (IF nil THEN <<>> ELSE IF Len(c) > opts.cap THEN <<>> ELSE c)
      /\ DecodedSize(x, ref, opts) = (IF nil THEN -1 ELSE Len(c))
  BY DEF Text, DecodedSize
<1> HIDE DEF c, b, nil
<1>3. /\ decodeBody(NoText.text, NoText.encoding) = <<>> /\ NoText.decodedSize = -1
      /\ decodeBody(long.text, long.encoding) = <<>> /\ long.decodedSize = Len(c)
  BY DEF decodeBody, NoText
<1>4. full.text.bytes = c /\ full.text.b64 = ~inline /\ full.encoding = (IF inline THEN "" ELSE "base64")
      /\ full.decodedSize = Len(c)
  OBVIOUS
<1> HIDE DEF full, long, inline
<1>5. decodeBody(full.text, full.encoding) = c
  BY <1>4 DEF decodeBody
<1>6. QED
  BY <1>1, <1>2, <1>3, <1>4, <1>5 DEF b

\* The text of an entry is within the limit, and its size is the one the entry tells.
LEMMA TextTyped ==
  ASSUME NEW x, NEW ref \in BodyRef, NEW opts, opts.cap \in Int
  PROVE  /\ Len(Text(x, ref, opts)) \in Nat /\ (Text(x, ref, opts) = <<>> <=> Len(Text(x, ref, opts)) = 0)
         /\ DecodedSize(x, ref, opts) \in Int /\ DecodedSize(x, ref, opts) >= -1
         /\ Text(x, ref, opts) # <<>> => /\ DecodedSize(x, ref, opts) = Len(Text(x, ref, opts))
                                         /\ Len(Text(x, ref, opts)) <= opts.cap
<1> DEFINE d == Decoded(encodingOf(<<x>>, ref.hash), ref.hash)
           c == Bytes(d)
<1>1. CASE opts.cap < 0 \/ ref.hash = Nothing
  BY <1>1 DEF Text, DecodedSize
<1>2. CASE ~(opts.cap < 0 \/ ref.hash = Nothing)
  <2>1. ref.hash \in Blob
    BY <1>2 DEF BodyRef
  <2>2. d.content \in Seq(STRING)
    BY <2>1 DEF Decoded, Blob
  <2> HIDE DEF d
  <2>3. /\ Len(d.content) \in Nat /\ (d.content = <<>> <=> Len(d.content) = 0)
        /\ Len(<<"xff">>) \in Nat /\ (<<"xff">> = <<>> <=> Len(<<"xff">>) = 0)
    BY <2>2
  <2>4. Len(c) \in Nat /\ (c = <<>> <=> Len(c) = 0)
    BY <2>3, Zenon DEF Bytes
  <2> HIDE DEF c
  <2>5. /\ Text(x, ref, opts) = (IF Len(c) > opts.cap THEN <<>> ELSE c)
        /\ DecodedSize(x, ref, opts) = Len(c)
    BY <1>2 DEF Text, DecodedSize, c, d
  <2>6. QED
    BY <1>2, <2>4, <2>5
<1>3. QED
  BY <1>1, <1>2

\* Headers that were exported once are not changed again.
LEMMA HeadersStay ==
  ASSUME NEW h, NEW opts
  PROVE  LET r == RedactHeaders(h, opts) IN
         /\ RedactHeaders(headerMap(r), opts) = headerMap(r)
         /\ headerMap(headerMap(r)) = headerMap(r)
         /\ Header(headerMap(r), "Content-Type") = Header(r, "Content-Type")
<1> DEFINE r == RedactHeaders(h, opts)
           N == {name \in DOMAIN h : name \notin {"", ":method", ":path"}}
<1> DEFINE Shown(name) ==
             [n \in DOMAIN h[name] |->
                IF name \in opts.secret \/ h[name][n] \in opts.words THEN "masked" ELSE h[name][n]]
<1>1. r = [name \in DOMAIN h |-> Shown(name)]
  BY DEF RedactHeaders
<1>0. \A name :
        [n \in DOMAIN Shown(name) |->
           IF name \in opts.secret \/ Shown(name)[n] \in opts.words THEN "masked" ELSE Shown(name)[n]] = Shown(name)
  OBVIOUS
<1> HIDE DEF Shown
<1>2. headerMap(r) = [name \in N |-> Shown(name)]
  BY <1>1 DEF headerMap
<1> HIDE DEF r
<1>3. RedactHeaders(headerMap(r), opts) = headerMap(r)
  <2> DEFINE was == headerMap(r)
  <2>1. DOMAIN was = N /\ \A name \in N : was[name] = Shown(name)
    BY <1>2
  <2> HIDE DEF was
  <2>2. RedactHeaders(was, opts) =
          [name \in N |->
             [n \in DOMAIN Shown(name) |->
                IF name \in opts.secret \/ Shown(name)[n] \in opts.words THEN "masked" ELSE Shown(name)[n]]]
    BY <2>1 DEF RedactHeaders
  <2>3. RedactHeaders(was, opts) = [name \in N |-> Shown(name)]
    BY <1>0, <2>2
  <2>4. QED
    BY <1>2, <2>3 DEF was
<1>4. headerMap(headerMap(r)) = headerMap(r)
  BY <1>2 DEF headerMap
<1>5. Header(headerMap(r), "Content-Type") = Header(r, "Content-Type")
  BY <1>1, <1>2 DEF Header
<1>6. QED
  BY <1>3, <1>4, <1>5 DEF r

\* Flow.URL, setURL: an address that could be read is written and read as itself.
LEMMA AddressStays ==
  ASSUME NEW f \in Flow, NothingIsNil, \A s \in DOMAIN DefaultPort : DefaultPort[s] \in Nat, ~Unread(URL(f))
  PROVE  LET u == ReadURL(URL(f)) IN
         \A y : /\ y.scheme = u.scheme /\ y.host = u.host /\ y.port = u.port
                /\ y.path = u.path /\ y.query = u.query
                => LET v == ReadURL(URL(y)) IN
                   /\ v.scheme = u.scheme /\ v.host = u.host /\ v.port = u.port
                   /\ v.path = u.path /\ v.query = u.query
<1> DEFINE a == URL(f)
           u == ReadURL(a)
           rest == f.path \o (IF f.query = <<>> THEN <<>> ELSE <<"?">> \o f.query)
           whole == CutAt(rest, "#")[1]
           p == CutAt(whole, "?")[1]
           q == CutAt(whole, "?")[2]
<1>1. /\ f.scheme \notin {"ws", "wss"} /\ f.port \in Nat /\ f.port # Nothing /\ Nothing \notin Nat
      /\ f.path \in Seq(Piece) /\ f.query \in Seq(Piece)
  BY DEF Flow, NothingIsNil
<1>2. /\ a.scheme = f.scheme /\ a.host = f.host /\ a.rest = rest
      /\ a.port = (IF f.scheme \in DOMAIN DefaultPort /\ f.port \notin {0, DefaultPort[f.scheme]}
                   THEN f.port ELSE Nothing)
  BY DEF URL
<1>3. rest \in Seq(Piece)
  <2>1. "?" \in Piece
    BY DEF Piece
  <2> DEFINE mark == "?"
  <2>2. mark \in Piece
    BY <2>1
  <2> HIDE DEF mark
  <2>3. <<mark>> \o f.query \in Seq(Piece) /\ <<>> \in Seq(Piece)
    BY <1>1, <2>2, ConcatProperties
  <2>4. QED
    BY <1>1, <2>3, ConcatProperties DEF mark
<1> HIDE DEF a, rest
<1>4. /\ whole \in Seq(Piece) /\ "#" \notin ToSet(whole)
  BY <1>3, CutTyped, Zenon
<1> HIDE DEF whole
<1>5. /\ p \in Seq(Piece) /\ q \in Seq(Piece) /\ "?" \notin ToSet(p)
      /\ ToSet(p) \subseteq ToSet(whole) /\ ToSet(q) \subseteq ToSet(whole)
  BY <1>4, CutTyped, Zenon
<1> HIDE DEF p, q
<1>6. a.scheme # "" /\ "ctl" \notin ToSet(whole) /\ "%" \notin ToSet(p) /\ a.host # "::1"
  BY <1>2 DEF Unread, a, whole, p
<1>7. Plain(f.scheme) = f.scheme
  BY <1>1 DEF Plain
<1> DEFINE port == IF a.port # Nothing THEN a.port
                   ELSE IF f.scheme \in DOMAIN DefaultPort THEN DefaultPort[f.scheme] ELSE 0
<1>8. /\ u.scheme = f.scheme /\ u.host = f.host /\ u.path = Escaped(p) /\ u.query = q /\ u.port = port
  <2>1. u = [scheme |-> f.scheme, host |-> f.host, port |-> port, path |-> Escaped(p), query |-> q,
             kind |-> IF f.scheme # f.scheme THEN "ws" ELSE "http"]
    BY <1>2, <1>7 DEF ReadURL, a, whole, p, q
  <2> HIDE DEF u, port
  <2>2. QED
    BY <2>1
<1> HIDE DEF u
<1>9. /\ Escaped(p) \in Seq(Piece) /\ Escaped(Escaped(p)) = Escaped(p)
      /\ ToSet(Escaped(p)) \subseteq ToSet(p) \cup {"%20", "A"}
  BY <1>5, EscapedOnce, Zenon
<1> DEFINE e == Escaped(p)
<1>10. /\ "#" \notin ToSet(e) \cup ToSet(q) /\ "?" \notin ToSet(e)
       /\ "ctl" \notin ToSet(e) \cup ToSet(q) /\ "%" \notin ToSet(e)
  BY <1>4, <1>5, <1>6, <1>9
<1> HIDE DEF e
<1> DEFINE again == e \o (IF q = <<>> THEN <<>> ELSE <<"?">> \o q)
<1>11. /\ CutAt(again, "#") = <<again, <<>>>> /\ CutAt(again, "?") = <<e, q>>
       /\ ToSet(again) \subseteq ToSet(e) \cup ToSet(q) \cup {"?"}
  <2>1. "?" \in Piece /\ e \in Seq(Piece)
    BY <1>9 DEF Piece, e
  <2>2. QED
    BY <1>5, <1>10, <2>1, Spelled, Zenon
<1>12. ASSUME NEW y, y.scheme = u.scheme, y.host = u.host, y.port = u.port, y.path = u.path, y.query = u.query
       PROVE  LET v == ReadURL(URL(y)) IN
              /\ v.scheme = u.scheme /\ v.host = u.host /\ v.port = u.port
              /\ v.path = u.path /\ v.query = u.query
  <2> DEFINE b == URL(y)
             v == ReadURL(b)
  <2>1. /\ b.scheme = f.scheme /\ b.host = f.host /\ b.rest = again
        /\ b.port = (IF f.scheme \in DOMAIN DefaultPort /\ port \notin {0, DefaultPort[f.scheme]}
                     THEN port ELSE Nothing)
    <3> HIDE DEF port
    <3>1. QED
      BY <1>8, <1>12 DEF URL, e
  <2> HIDE DEF b, again
  <2>2. CutAt(b.rest, "#")[1] = again /\ CutAt(b.rest, "#")[2] = <<>> /\ CutAt(again, "?")[1] = e
        /\ CutAt(again, "?")[2] = q
    BY <1>11, <2>1
  <2>3. ~Unread(b)
    <3>1. ToSet(<<>>) = {}
      BY EmptyHasNone
    <3>2. "ctl" \notin ToSet(again)
      BY <1>10, <1>11
    <3>3. QED
      BY <1>2, <1>6, <1>10, <2>1, <2>2, <3>1, <3>2 DEF Unread
  <2>4. Escaped(e) = e
    BY <1>9 DEF e
  <2>5. v.scheme = f.scheme /\ v.host = f.host /\ v.path = e /\ v.query = q
        /\ v.port = IF b.port # Nothing THEN b.port
                    ELSE IF f.scheme \in DOMAIN DefaultPort THEN DefaultPort[f.scheme] ELSE 0
    BY <1>7, <2>1, <2>2, <2>3, <2>4 DEF ReadURL
  <2> HIDE DEF v
  <2>6. v.port = port
    BY <1>1, <1>2, <2>1, <2>5
  <2>7. QED
    BY <1>8, <2>5, <2>6 DEF v, b, e
<1>13. QED
  BY <1>12 DEF u, a

\* An entry of a file with one flow, and the media types its headers tell.
EntryOf(x, opts) == Entry(<<x>>, x, opts)
ReqType(x, opts) == Header(RedactHeaders(x.reqH, opts), "Content-Type")
RespType(x, opts) == Header(RedactHeaders(x.respH, opts), "Content-Type")

\* The fields of the entry of a flow, and what is noted in it.
LEMMA EntryIs ==
  ASSUME NEW x, NEW opts, NothingIsNil
  PROVE  LET e == EntryOf(x, opts) IN
         /\ e.method = firstNonEmpty(x.method, Inferred(x.kind)) /\ e.url = URL(x) /\ e.proto = x.proto
         /\ e.respProto = firstNonEmpty(x.upProto, x.proto) /\ e.client = x.client /\ e.status = x.status
         /\ e.reqH = RedactHeaders(x.reqH, opts) /\ e.respH = RedactHeaders(x.respH, opts)
         /\ e.start = x.t.start - (x.t.start % Milli) /\ e.timings = timings(x.t)
         /\ e.reqSize = x.reqBody.size /\ e.respSize = x.respBody.size
         /\ Note(e) = [kind |-> x.kind, state |-> x.state, session |-> x.session, error |-> x.error,
                       tags |-> x.tags, reqTruncated |-> x.reqBody.truncated,
                       respTruncated |-> x.respBody.truncated, replay |-> x.replay]
<1> DEFINE e == EntryOf(x, opts)
           p == [kind |-> x.kind, state |-> x.state, session |-> x.session, error |-> x.error,
                 tags |-> x.tags, reqTruncated |-> x.reqBody.truncated,
                 respTruncated |-> x.respBody.truncated, replay |-> x.replay]
<1>1. /\ e.method = firstNonEmpty(x.method, Inferred(x.kind)) /\ e.url = URL(x) /\ e.proto = x.proto
      /\ e.respProto = firstNonEmpty(x.upProto, x.proto) /\ e.client = x.client /\ e.status = x.status
      /\ e.reqH = RedactHeaders(x.reqH, opts) /\ e.respH = RedactHeaders(x.respH, opts)
      /\ e.start = x.t.start - (x.t.start % Milli) /\ e.timings = timings(x.t)
      /\ e.reqSize = x.reqBody.size /\ e.respSize = x.respBody.size
      /\ e.pano = p
  BY DEF EntryOf, Entry
<1> HIDE DEF e
<1>2. Nothing # p
  BY DEF NothingIsNil
<1> HIDE DEF p
<1>3. Note(e) = p
  BY <1>1, <1>2 DEF Note
<1>4. QED
  BY <1>1, <1>3, SMTT(60) DEF e, p

\* Nothing is longer than a limit that it is within.
LEMMA Within == \A m \in Nat, c \in Int : m <= c => ~(c < 0) /\ ~(m > c)
  OBVIOUS

\* A body, a body cut as it was cut, and a body that was stored.
Ref(size, captured, hash, mime, encoding, truncated) ==
  [size |-> size, captured |-> captured, hash |-> hash, mime |-> mime, encoding |-> encoding, truncated |-> truncated]
Cut(ref, cut) == [ref EXCEPT !.truncated = cut]
Store(ref, blob, len, none) == [ref EXCEPT !.hash = blob, !.captured = len, !.encoding = none]
Empty == ""
Hash(b) == IF b = <<>> THEN Nothing ELSE [layer |-> "", content |-> b]
Body(size, b, mime, cut) == Ref(size, Len(b), Hash(b), mime, "", cut)

\* Marking a body as truncated changes nothing else.
LEMMA CutIs ==
  ASSUME NEW a, NEW b, NEW c, NEW d, NEW e, NEW t, NEW new
  PROVE  Cut(Ref(a, b, c, d, e, t), new) = Ref(a, b, c, d, e, new)
  BY DEF Cut, Ref

\* Storing a body changes where it is, its length and its encoding.
LEMMA StoreIs ==
  ASSUME NEW a, NEW b, NEW c, NEW d, NEW e, NEW t, NEW n, NEW h, NEW none
  PROVE  Store(Ref(a, b, c, d, e, t), h, n, none) = Ref(a, n, h, d, none, t)
<1> DEFINE r == Ref(a, b, c, d, e, t)
           x == Store(r, h, n, none)
<1>1. DOMAIN x = {"size", "captured", "hash", "mime", "encoding", "truncated"} /\ x = [k \in DOMAIN x |-> x[k]]
  <2>1. DOMAIN x = DOMAIN r /\ x = [k \in DOMAIN r |-> x[k]]
    BY DEF Store
  <2>2. DOMAIN r = {"size", "captured", "hash", "mime", "encoding", "truncated"}
    BY DEF Ref
  <2>3. QED
    BY <2>1, <2>2, Zenon
<1>2. x.hash = h /\ x.captured = n /\ x.encoding = none /\ x.size = a /\ x.mime = d /\ x.truncated = t
  BY DEF Store, Ref
<1> HIDE DEF x
<1>3. x = Ref(a, n, h, d, none, t)
  BY <1>1, <1>2 DEF Ref
<1>4. QED
  BY <1>3 DEF x

\* bodyRef: the size of a body is the declared one, the one on the wire, or its length.
Sized(b, declared, wire) == IF declared > 0 THEN declared ELSE IF wire > 0 THEN wire ELSE Len(b)

\* bodyRef, Daemon.HAR: the reference to a body that was imported and stored.
LEMMA StoredRefIs ==
  ASSUME NEW b, NEW mime, NEW type, NEW declared, NEW wire, NEW cut
  PROVE  StoredRef(Cut(bodyRef(b, mime, type, declared, wire), cut), b) =
           Body(Sized(b, declared, wire), b, firstNonEmpty(mime, type), cut)
<1> DEFINE m == firstNonEmpty(mime, type)
           blob == [layer |-> "", content |-> b]
           size == Sized(b, declared, wire)
           v == Ref(size, Len(b), Nothing, m, "", cut)
<1>1. bodyRef(b, mime, type, declared, wire) = Ref(size, Len(b), Nothing, m, "", FALSE)
  BY Zenon DEF bodyRef, Sized, Ref
<1>2. Cut(bodyRef(b, mime, type, declared, wire), cut) = v
  <2> DEFINE no == FALSE
             none == ""
  <2>1. bodyRef(b, mime, type, declared, wire) = Ref(size, Len(b), Nothing, m, none, no)
    BY <1>1
  <2>2. v = Ref(size, Len(b), Nothing, m, none, cut)
    OBVIOUS
  <2> HIDE DEF no, none, m, size, v
  <2>3. QED
    BY <2>1, <2>2, CutIs
<1>3. CASE b = <<>>
  BY <1>2, <1>3, Zenon DEF StoredRef, Body, Hash
<1>4. CASE b # <<>>
  <2>1. StoredRef(v, b) = Store(v, blob, Len(b), "")
    BY <1>4, Zenon DEF StoredRef, Store
  <2>2. Store(v, blob, Len(b), "") = Ref(size, Len(b), blob, m, "", cut)
    <3> DEFINE none == ""
    <3>1. v = Ref(size, Len(b), Nothing, m, none, cut)
      OBVIOUS
    <3> HIDE DEF blob, m, size, none, v
    <3>2. Store(v, blob, Len(b), none) = Ref(size, Len(b), blob, m, none, cut)
      BY <3>1, StoreIs
    <3>3. QED
      BY <3>2 DEF none
  <2>3. QED
    BY <1>2, <1>4, <2>1, <2>2, Zenon DEF Body, Hash
<1>5. QED
  BY <1>3, <1>4

\* The request body of the flow that an entry is imported as.
LEMMA RequestIs ==
  ASSUME NEW x, NEW opts, NothingIsNil, opts.redact = {}, x.reqBody.size \in Nat,
         hasBody(x.reqBody) <=> x.reqBody.size > 0
  PROVE  LET e == EntryOf(x, opts)  s == Text(x, x.reqBody, opts)  r == x.reqBody  c == ReqType(x, opts)
             ct == Header(headerMap(e.reqH), "Content-Type") IN
         StoredRef(Req(e), Sent(e)) =
           IF r.size > 0
           THEN Body(r.size, s, firstNonEmpty(firstNonEmpty(c, r.mime), ct), r.truncated)
           ELSE Cut(NoBody, r.truncated)
<1> DEFINE e == EntryOf(x, opts)
           s == Text(x, x.reqBody, opts)
           r == x.reqBody
           c == ReqType(x, opts)
           ct == Header(headerMap(e.reqH), "Content-Type")
           post == ExportedBody(<<x>>, r, firstNonEmpty(c, r.mime), opts)
<1>1. Note(e).reqTruncated = r.truncated /\ e.reqSize = r.size
  BY EntryIs
<1>2. e.post = IF hasBody(r) THEN [mime |-> firstNonEmpty(c, r.mime), text |-> post.text, encoding |-> post.encoding]
               ELSE Nothing
  BY DEF EntryOf, Entry, ReqType
<1>3. decodeBody(post.text, post.encoding) = s
  BY TextBack
<1> HIDE DEF e, s, c, ct, post
<1>4. CASE r.size > 0
  <2>1. e.post # Nothing /\ e.post.mime = firstNonEmpty(c, r.mime) /\ e.post.text = post.text
        /\ e.post.encoding = post.encoding
    <3>1. e.post = [mime |-> firstNonEmpty(c, r.mime), text |-> post.text, encoding |-> post.encoding]
      BY <1>2, <1>4
    <3>2. QED
      BY <3>1 DEF NothingIsNil
  <2>2. Sent(e) = s
    BY <1>3, <2>1 DEF Sent
  <2>3. Req(e) = Cut(bodyRef(s, firstNonEmpty(c, r.mime), ct, 0, r.size), r.truncated)
    BY <1>1, <2>1, <2>2 DEF Req, ct, Cut
  <2>4. QED
    <3> DEFINE m == firstNonEmpty(c, r.mime)
    <3>1. Sized(s, 0, r.size) = r.size
      BY <1>4 DEF Sized
    <3> HIDE DEF m
    <3>2. StoredRef(Cut(bodyRef(s, m, ct, 0, r.size), r.truncated), s) =
            Body(Sized(s, 0, r.size), s, firstNonEmpty(m, ct), r.truncated)
      BY StoredRefIs
    <3>3. QED
      BY <1>4, <2>2, <2>3, <3>1, <3>2, Zenon DEF e, s, c, ct, m
<1>5. CASE ~(r.size > 0)
  <2>1. e.post = Nothing /\ ~(e.reqSize > 0)
    BY <1>1, <1>2, <1>5
  <2>2. Sent(e) = <<>> /\ Req(e) = Cut(NoBody, r.truncated)
    BY <1>1, <2>1 DEF Sent, Req, Cut
  <2>3. QED
    BY <1>5, <2>2 DEF StoredRef, e
<1>6. QED
  BY <1>4, <1>5

\* The response body of the flow that an entry is imported as.
LEMMA ResponseIs ==
  ASSUME NEW x, NEW opts, NothingIsNil, opts.redact = {}, x.respBody.size \in Nat,
         hasBody(x.respBody) <=> x.respBody.size > 0,
         DecodedSize(x, x.respBody, opts) \in Int
  PROVE  LET e == EntryOf(x, opts)  s == Text(x, x.respBody, opts)  r == x.respBody  c == RespType(x, opts)
             n == DecodedSize(x, x.respBody, opts)
             ct == Header(headerMap(e.respH), "Content-Type") IN
         StoredRef(Resp(e), Got(e)) =
           IF r.size > 0
           THEN Body(IF n > 0 THEN n ELSE r.size, s, firstNonEmpty(firstNonEmpty(c, r.mime), ct), r.truncated)
           ELSE Cut(NoBody, r.truncated)
<1> DEFINE e == EntryOf(x, opts)
           s == Text(x, x.respBody, opts)
           r == x.respBody
           c == RespType(x, opts)
           n == DecodedSize(x, x.respBody, opts)
           ct == Header(headerMap(e.respH), "Content-Type")
           body == ExportedBody(<<x>>, r, firstNonEmpty(c, r.mime), opts)
           content == IF hasBody(r) THEN body ELSE NoText
           size == IF n > 0 THEN n ELSE r.size
<1>1. Note(e).respTruncated = r.truncated /\ e.respSize = r.size
  BY EntryIs
<1>2. e.content = [mime |-> firstNonEmpty(c, r.mime), text |-> content.text, encoding |-> content.encoding,
                   size |-> IF content.decodedSize >= 0 THEN content.decodedSize ELSE r.size]
  BY DEF EntryOf, Entry, RespType
<1>3. decodeBody(body.text, body.encoding) = s /\ body.decodedSize = n
  BY TextBack
<1>4. decodeBody(NoText.text, NoText.encoding) = <<>> /\ NoText.decodedSize = -1
  BY DEF decodeBody, NoText
<1> HIDE DEF e, s, c, n, ct, body
<1>5. /\ e.content.mime = firstNonEmpty(c, r.mime) /\ e.content.text = content.text
      /\ e.content.encoding = content.encoding
      /\ e.content.size = (IF content.decodedSize >= 0 THEN content.decodedSize ELSE r.size)
  BY <1>2
<1>6. CASE r.size > 0
  <2>1. content = body
    BY <1>6
  <2> HIDE DEF content
  <2>2. Got(e) = s /\ e.content.size = (IF n >= 0 THEN n ELSE r.size)
    BY <1>3, <1>5, <2>1 DEF Got
  <2>3. Resp(e) = Cut(bodyRef(s, firstNonEmpty(c, r.mime), ct, e.content.size, r.size), r.truncated)
    BY <1>1, <1>5, <1>6, <2>2 DEF Resp, ct, Cut
  <2>4. Sized(s, e.content.size, r.size) = size
    BY <1>6, <2>2 DEF n, Sized
  <2>5. StoredRef(Resp(e), Got(e)) =
          Body(size, s, firstNonEmpty(firstNonEmpty(c, r.mime), ct), r.truncated)
    <3> DEFINE m == firstNonEmpty(c, r.mime)
    <3> HIDE DEF size, m
    <3>1. StoredRef(Cut(bodyRef(s, m, ct, e.content.size, r.size), r.truncated), s) =
            Body(Sized(s, e.content.size, r.size), s, firstNonEmpty(m, ct), r.truncated)
      BY StoredRefIs
    <3>2. QED
      BY <2>2, <2>3, <2>4, <3>1, Zenon DEF m
  <2>6. QED
    BY <1>6, <2>5 DEF e, s, c, ct, n, size
<1>7. CASE ~(r.size > 0)
  <2>1. content = NoText /\ r.size = 0
    BY <1>7
  <2> HIDE DEF content
  <2>2. Got(e) = <<>> /\ e.content.size = 0
    BY <1>4, <1>5, <2>1 DEF Got
  <2>3. Resp(e) = Cut(NoBody, r.truncated)
    BY <1>1, <2>1, <2>2 DEF Resp, Got, Cut
  <2>4. QED
    BY <1>7, <2>2, <2>3 DEF StoredRef, e
<1>8. QED
  BY <1>6, <1>7

\* A text that an export with opts leaves room for.
Fits(s, opts) == Len(s) \in Nat /\ (s # <<>> => Len(s) <= opts.cap)
\* ref refers to s as it is, with no encoding.
Bare(y, ref, s) == ref.hash = Hash(s) /\ (s # <<>> => encodingOf(<<y>>, ref.hash) = Empty)
\* Exported with opts, ref is the text s.
Writes(y, ref, s, opts) == Text(y, ref, opts) = s /\ DecodedSize(y, ref, opts) = IF s = <<>> THEN -1 ELSE Len(s)

\* What was imported is exported as its bytes.
LEMMA TextStays ==
  NothingIsNil => \A y, ref, s, opts : opts.cap \in Int /\ Fits(s, opts) /\ Bare(y, ref, s) => Writes(y, ref, s, opts)
<1> SUFFICES ASSUME NothingIsNil, NEW y, NEW ref, NEW s, NEW opts, opts.cap \in Int, Fits(s, opts), Bare(y, ref, s)
             PROVE  Writes(y, ref, s, opts)
  OBVIOUS
<1>1. CASE s = <<>>
  BY <1>1 DEF Fits, Bare, Writes, Text, DecodedSize, Hash
<1>2. CASE s # <<>>
  <2> DEFINE b == [layer |-> "", content |-> s]
  <2>1. Nothing # b /\ ref.hash = b
    BY <1>2 DEF NothingIsNil, Hash, Bare
  <2>2. Bytes(Decoded(Empty, b)) = s
    BY DEF Bytes, Decoded, Empty
  <2> HIDE DEF b
  <2>3. ~(opts.cap < 0 \/ ref.hash = Nothing) /\ ~(Len(s) > opts.cap)
    <3>1. Len(s) \in Nat /\ Len(s) <= opts.cap
      BY <1>2, Zenon DEF Fits
    <3>2. ~(opts.cap < 0) /\ ~(Len(s) > opts.cap)
      BY <3>1, Within, Zenon
    <3>3. QED
      BY <2>1, <3>2, Zenon
  <2>4. encodingOf(<<y>>, b) = Empty
    BY <1>2, <2>1 DEF Bare
  <2>5. QED
    BY <1>2, <2>1, <2>2, <2>3, <2>4 DEF Text, DecodedSize, Writes
<1>3. QED
  BY <1>1, <1>2

\* The fields of a body that was imported.
LEMMA BodyFields ==
  \A n, b, m, t : /\ Body(n, b, m, t).size = n /\ Body(n, b, m, t).mime = m
                  /\ Body(n, b, m, t).encoding = Empty /\ Body(n, b, m, t).truncated = t
                  /\ Body(n, b, m, t).hash = Hash(b)
  BY DEF Body, Ref, Empty

\* The fields of a body that there was none of.
LEMMA CutFields ==
  ASSUME NEW cut
  PROVE  /\ Cut(NoBody, cut).size = 0 /\ Cut(NoBody, cut).captured = 0 /\ Cut(NoBody, cut).hash = Nothing
         /\ Cut(NoBody, cut).encoding = Empty /\ Cut(NoBody, cut).truncated = cut
  BY DEF Cut, NoBody, Empty

\* firstNonEmpty: a media type that was chosen once is chosen again.
LEMMA FirstTwice ==
  ASSUME NEW c, NEW m
  PROVE  LET once == firstNonEmpty(firstNonEmpty(c, m), c) IN firstNonEmpty(firstNonEmpty(c, once), c) = once
  BY DEF firstNonEmpty

\* Daemon.HAR: a flow with an address that could be read is, once it was exported, imported
\* and stored, exported and imported as itself, whatever it and the options were: a file
\* that is passed on again and again stays what it is.
THEOREM ExportIsStable ==
  ASSUME NEW f \in Flow, NEW opts \in HarOptions, NothingIsNil, ShortGiven,
         \A s \in DOMAIN DefaultPort : DefaultPort[s] \in Nat
  PROVE  StableTrue(f, opts)
<1> SUFFICES ASSUME ~Unread(URL(f))
             PROVE  LET again(fl) == Stored(importEntry(Entry(<<fl>>, fl, opts)), "here")
                        plain(ref) == IF opts.redact = {} THEN ref ELSE NoBody
                        mark(fl) == [fl EXCEPT !.tags = <<>>, !.reqBody = plain(@), !.respBody = plain(@),
                                               !.t = <<@.start, timings(@)>>]
                    IN mark(again(again(f))) = mark(again(f))
  BY Zenon DEF StableTrue
<1> DEFINE d == EntryOf(f, opts)
           y == Stored(importEntry(d), "here")
           e == EntryOf(y, opts)
           z == Stored(importEntry(e), "here")
           plain(ref) == IF opts.redact = {} THEN ref ELSE NoBody
<1>0. opts.cap \in Int
  BY DEF HarOptions
<1>1. /\ f.kind # "" /\ f.t \in HarTimes /\ f.reqBody \in BodyRef /\ f.respBody \in BodyRef /\ opts.cap \in Int
  BY DEF Flow, HarOptions
<1>2. /\ d.method = firstNonEmpty(f.method, Inferred(f.kind)) /\ d.url = URL(f) /\ d.proto = f.proto
      /\ d.respProto = firstNonEmpty(f.upProto, f.proto) /\ d.client = f.client /\ d.status = f.status
      /\ d.reqH = RedactHeaders(f.reqH, opts) /\ d.respH = RedactHeaders(f.respH, opts)
      /\ d.start = f.t.start - (f.t.start % Milli) /\ d.timings = timings(f.t)
      /\ Note(d).kind = f.kind /\ Note(d).error = f.error /\ Note(d).replay = f.replay
  BY EntryIs
<1>3. /\ e.method = firstNonEmpty(y.method, Inferred(y.kind)) /\ e.url = URL(y) /\ e.proto = y.proto
      /\ e.respProto = firstNonEmpty(y.upProto, y.proto) /\ e.client = y.client /\ e.status = y.status
      /\ e.reqH = RedactHeaders(y.reqH, opts) /\ e.respH = RedactHeaders(y.respH, opts)
      /\ e.start = y.t.start - (y.t.start % Milli) /\ e.timings = timings(y.t)
      /\ Note(e).kind = y.kind /\ Note(e).error = y.error /\ Note(e).replay = y.replay
  BY EntryIs
<1> DEFINE Again(x) ==
      [method |-> x.method, proto |-> x.proto, client |-> x.client, status |-> x.status,
       upProto |-> IF x.respProto = x.proto THEN "" ELSE x.respProto,
       scheme |-> ReadURL(x.url).scheme, host |-> ReadURL(x.url).host,
       port |-> ReadURL(x.url).port, path |-> ReadURL(x.url).path, query |-> ReadURL(x.url).query,
       reqH |-> headerMap(x.reqH), respH |-> headerMap(x.respH), t |-> importTiming(x.start, x.timings),
       kind |-> IF Note(x).kind # "" THEN Note(x).kind ELSE ReadURL(x.url).kind,
       state |-> "done", session |-> "here", error |-> Note(x).error,
       tags |-> Append(Note(x).tags, "imported"), replay |-> Note(x).replay,
       reqBody |-> StoredRef(Req(x), Sent(x)), respBody |-> StoredRef(Resp(x), Got(x))]
<1>4. y = Again(d) /\ z = Again(e)
  BY StoredIs, ZenonT(60)
<1> HIDE DEF d, y, e, z
<1>5. /\ y.method = d.method /\ y.proto = d.proto /\ y.client = d.client /\ y.status = d.status
      /\ y.upProto = (IF d.respProto = d.proto THEN "" ELSE d.respProto)
      /\ y.scheme = ReadURL(d.url).scheme /\ y.host = ReadURL(d.url).host
      /\ y.port = ReadURL(d.url).port /\ y.path = ReadURL(d.url).path /\ y.query = ReadURL(d.url).query
      /\ y.reqH = headerMap(d.reqH) /\ y.respH = headerMap(d.respH) /\ y.t = importTiming(d.start, d.timings)
      /\ y.kind = f.kind /\ y.error = f.error /\ y.replay = f.replay
      /\ y.reqBody = StoredRef(Req(d), Sent(d)) /\ y.respBody = StoredRef(Resp(d), Got(d))
  BY <1>1, <1>2, <1>4
<1>6. /\ z.method = e.method /\ z.proto = e.proto /\ z.client = e.client /\ z.status = e.status
      /\ z.upProto = (IF e.respProto = e.proto THEN "" ELSE e.respProto)
      /\ z.scheme = ReadURL(e.url).scheme /\ z.host = ReadURL(e.url).host
      /\ z.port = ReadURL(e.url).port /\ z.path = ReadURL(e.url).path /\ z.query = ReadURL(e.url).query
      /\ z.reqH = headerMap(e.reqH) /\ z.respH = headerMap(e.respH) /\ z.t = importTiming(e.start, e.timings)
      /\ z.kind = f.kind /\ z.error = f.error /\ z.replay = f.replay
      /\ z.reqBody = StoredRef(Req(e), Sent(e)) /\ z.respBody = StoredRef(Resp(e), Got(e))
  BY <1>1, <1>3, <1>4, <1>5, ZenonT(60)
<1>7. z.method = y.method /\ z.proto = y.proto /\ z.client = y.client /\ z.status = y.status
  BY <1>2, <1>3, <1>5, <1>6, ZenonT(60) DEF firstNonEmpty
<1>8. z.upProto = y.upProto
  <2>1. z.upProto = (IF firstNonEmpty(y.upProto, y.proto) = y.proto THEN "" ELSE firstNonEmpty(y.upProto, y.proto))
    BY <1>3, <1>6, Zenon
  <2>2. y.upProto = (IF d.respProto = y.proto THEN "" ELSE d.respProto)
    BY <1>5, Zenon
  <2>3. CASE y.upProto = ""
    <3>1. firstNonEmpty(y.upProto, y.proto) = y.proto
      BY <2>3, Zenon DEF firstNonEmpty
    <3>2. QED
      BY <2>1, <2>3, <3>1, Zenon
  <2>4. CASE y.upProto # ""
    <3>1. firstNonEmpty(y.upProto, y.proto) = y.upProto
      BY <2>4, Zenon DEF firstNonEmpty
    <3>2. y.upProto # y.proto
      BY <2>2, <2>4, Zenon
    <3>3. QED
      BY <2>1, <3>1, <3>2, Zenon
  <2>5. QED
    BY <2>3, <2>4, Zenon
<1>9. z.scheme = y.scheme /\ z.host = y.host /\ z.port = y.port /\ z.path = y.path /\ z.query = y.query
  <2> DEFINE u == ReadURL(URL(f))
  <2>1. y.scheme = u.scheme /\ y.host = u.host /\ y.port = u.port /\ y.path = u.path /\ y.query = u.query
    BY <1>2, <1>5
  <2>2. LET v == ReadURL(URL(y)) IN
        z.scheme = v.scheme /\ z.host = v.host /\ z.port = v.port /\ z.path = v.path /\ z.query = v.query
    BY <1>3, <1>6
  <2>3. LET v == ReadURL(URL(y)) IN
        v.scheme = u.scheme /\ v.host = u.host /\ v.port = u.port /\ v.path = u.path /\ v.query = u.query
    BY <2>1, AddressStays
  <2>4. QED
    BY <2>1, <2>2, <2>3, Zenon
<1>10. /\ RedactHeaders(y.reqH, opts) = y.reqH /\ RedactHeaders(y.respH, opts) = y.respH
       /\ headerMap(y.reqH) = y.reqH /\ headerMap(y.respH) = y.respH
       /\ Header(y.reqH, "Content-Type") = ReqType(f, opts)
       /\ Header(y.respH, "Content-Type") = RespType(f, opts)
  <2>1. /\ y.reqH = headerMap(RedactHeaders(f.reqH, opts))
        /\ y.respH = headerMap(RedactHeaders(f.respH, opts))
    BY <1>2, <1>5
  <2>2. QED
    BY <2>1, HeadersStay, Zenon DEF ReqType, RespType
<1>11. z.reqH = y.reqH /\ z.respH = y.respH
  BY <1>3, <1>6, <1>10, ZenonT(60)
<1>12. z.t.start = y.t.start /\ timings(z.t) = timings(y.t)
  <2>1. y.t = importTiming(f.t.start - (f.t.start % Milli), timings(f.t))
    BY <1>2, <1>5
  <2>2. z.t = importTiming(y.t.start - (y.t.start % Milli), timings(y.t))
    BY <1>3, <1>6
  <2>3. QED
    BY <1>1, <2>1, <2>2, TimesStay, Zenon
<1>13. ASSUME opts.redact = {}
       PROVE  z.reqBody = y.reqBody /\ z.respBody = y.respBody
  <2> DEFINE c == ReqType(f, opts)
             k == RespType(f, opts)
             s == Text(f, f.reqBody, opts)
             g == Text(f, f.respBody, opts)
             n == DecodedSize(f, f.respBody, opts)
             size == IF n > 0 THEN n ELSE f.respBody.size
             type == firstNonEmpty(firstNonEmpty(c, f.reqBody.mime), c)
             kind == firstNonEmpty(firstNonEmpty(k, f.respBody.mime), k)
  <2>1. /\ f.reqBody.size \in Nat /\ f.respBody.size \in Nat
        /\ hasBody(f.reqBody) <=> f.reqBody.size > 0
        /\ hasBody(f.respBody) <=> f.respBody.size > 0
    BY <1>1 DEF BodyRef, hasBody
  <2>2. /\ Len(s) \in Nat /\ Len(g) \in Nat /\ (g = <<>> <=> Len(g) = 0)
        /\ s # <<>> => Len(s) <= opts.cap
        /\ g # <<>> => n = Len(g) /\ Len(g) <= opts.cap
        /\ n \in Int
    <3>1. /\ Len(s) \in Nat
          /\ s # <<>> => Len(s) <= opts.cap
      BY <1>1, TextTyped, Zenon
    <3>2. /\ Len(g) \in Nat /\ (g = <<>> <=> Len(g) = 0)
          /\ n \in Int
          /\ g # <<>> => n = Len(g) /\ Len(g) <= opts.cap
      BY <1>1, TextTyped, Zenon
    <3> HIDE DEF s, g, n
    <3>3. QED
      BY <3>1, <3>2, Zenon
  <2>3. /\ Header(headerMap(d.reqH), "Content-Type") = c /\ Header(headerMap(d.respH), "Content-Type") = k
        /\ ReqType(y, opts) = c /\ RespType(y, opts) = k
        /\ Header(headerMap(e.reqH), "Content-Type") = c /\ Header(headerMap(e.respH), "Content-Type") = k
    <3>1. headerMap(d.reqH) = y.reqH /\ headerMap(d.respH) = y.respH
      BY <1>5
    <3>2. headerMap(e.reqH) = y.reqH /\ headerMap(e.respH) = y.respH
      BY <1>3, <1>10
    <3>3. QED
      BY <1>10, <3>1, <3>2, Zenon DEF ReqType, RespType
  <2> HIDE DEF c, k, s, g, n
  <2>4. y.reqBody = IF f.reqBody.size > 0 THEN Body(f.reqBody.size, s, type, f.reqBody.truncated)
                    ELSE Cut(NoBody, f.reqBody.truncated)
    BY <1>5, <1>13, <2>1, <2>3, RequestIs DEF d, c, s
  <2>5. y.respBody = IF f.respBody.size > 0 THEN Body(size, g, kind, f.respBody.truncated)
                     ELSE Cut(NoBody, f.respBody.truncated)
    BY <1>5, <1>13, <2>1, <2>2, <2>3, ResponseIs DEF d, k, g, n
  <2> HIDE DEF type, kind, size
  <2>6. /\ y.reqBody.encoding = Empty /\ y.respBody.encoding = Empty
        /\ y.reqBody.truncated = f.reqBody.truncated /\ y.respBody.truncated = f.respBody.truncated
    <3>1. \A n_, b, m, cut : Body(n_, b, m, cut).encoding = Empty /\ Body(n_, b, m, cut).truncated = cut
      BY BodyFields
    <3>2. \A cut : Cut(NoBody, cut).encoding = Empty /\ Cut(NoBody, cut).truncated = cut
      BY CutFields
    <3>3. y.reqBody.encoding = Empty /\ y.reqBody.truncated = f.reqBody.truncated
      BY <2>4, <3>1, <3>2
    <3>4. y.respBody.encoding = Empty /\ y.respBody.truncated = f.respBody.truncated
      BY <2>5, <3>1, <3>2
    <3>5. QED
      BY <3>3, <3>4
  <2>7. \A b : b \in {y.reqBody.hash, y.respBody.hash} => encodingOf(<<y>>, b) = Empty
    BY <2>6, EncodingFound
  <2>8. z.reqBody = y.reqBody
    <3>1. CASE f.reqBody.size > 0
      <4>1. y.reqBody = Body(f.reqBody.size, s, type, f.reqBody.truncated)
        BY <2>4, <3>1
      <4>2. /\ y.reqBody.size = f.reqBody.size /\ y.reqBody.mime = type
            /\ y.reqBody.hash = Hash(s)
        BY <4>1, BodyFields
      <4>3. Text(y, y.reqBody, opts) = s
        <5>1. s # <<>> => encodingOf(<<y>>, y.reqBody.hash) = Empty
          BY <2>7, Zenon
        <5>2. Len(s) \in Nat /\ (s # <<>> => Len(s) <= opts.cap)
          BY <2>2, Zenon
        <5>3. y.reqBody.hash = Hash(s)
          BY <4>2, Zenon
        <5>4. Fits(s, opts) /\ Bare(y, y.reqBody, s)
          BY <5>1, <5>2, <5>3, Zenon DEF Fits, Bare
        <5>5. Writes(y, y.reqBody, s, opts)
          BY <1>0, <5>4, TextStays, Zenon
        <5>6. QED
          BY <5>5, Zenon DEF Writes
      <4>4. y.reqBody.size \in Nat /\ y.reqBody.size > 0 /\ hasBody(y.reqBody)
        BY <2>1, <3>1, <4>2 DEF hasBody
      <4>5. z.reqBody = Body(y.reqBody.size, s, firstNonEmpty(firstNonEmpty(c, type), c), y.reqBody.truncated)
        BY <1>6, <1>13, <2>3, <4>2, <4>3, <4>4, RequestIs DEF e
      <4>6. firstNonEmpty(firstNonEmpty(c, type), c) = type
        BY FirstTwice DEF type
      <4>7. QED
        BY <2>6, <4>1, <4>2, <4>5, <4>6, Zenon
    <3>2. CASE ~(f.reqBody.size > 0)
      <4>1. y.reqBody = Cut(NoBody, f.reqBody.truncated)
        BY <2>4, <3>2
      <4>2. y.reqBody.size = 0 /\ ~hasBody(y.reqBody)
        <5>1. y.reqBody.size = 0 /\ y.reqBody.captured = 0 /\ y.reqBody.hash = Nothing
          BY <4>1, CutFields, Zenon
        <5>2. QED
          BY <5>1 DEF hasBody
      <4>5. y.reqBody.size \in Nat /\ (hasBody(y.reqBody) <=> y.reqBody.size > 0) /\ ~(y.reqBody.size > 0)
        BY <4>2
      <4>3. z.reqBody = Cut(NoBody, y.reqBody.truncated)
        BY <1>6, <1>13, <4>5, RequestIs, Zenon DEF e
      <4>6. QED
        BY <2>6, <4>1, <4>3, Zenon
    <3>3. QED
      BY <3>1, <3>2
  <2>9. z.respBody = y.respBody
    <3>1. CASE f.respBody.size > 0
      <4>1. y.respBody = Body(size, g, kind, f.respBody.truncated)
        BY <2>5, <3>1
      <4>2. /\ y.respBody.size = size /\ y.respBody.mime = kind
            /\ y.respBody.hash = Hash(g)
        BY <4>1, BodyFields
      <4>3. /\ Text(y, y.respBody, opts) = g
            /\ DecodedSize(y, y.respBody, opts) = IF g = <<>> THEN -1 ELSE Len(g)
        <5>1. g # <<>> => encodingOf(<<y>>, y.respBody.hash) = Empty
          BY <2>7, Zenon
        <5>2. Len(g) \in Nat /\ (g # <<>> => Len(g) <= opts.cap)
          BY <2>2, Zenon
        <5>3. y.respBody.hash = Hash(g)
          BY <4>2, Zenon
        <5>4. Fits(g, opts) /\ Bare(y, y.respBody, g)
          BY <5>1, <5>2, <5>3, Zenon DEF Fits, Bare
        <5>5. Writes(y, y.respBody, g, opts)
          BY <1>0, <5>4, TextStays, Zenon
        <5>6. QED
          BY <5>5, Zenon DEF Writes
      <4>4. size \in Nat /\ size > 0 /\ hasBody(y.respBody)
        <5>1. size \in Int /\ size > 0
          BY <2>1, <2>2, <3>1 DEF size
        <5>2. size \in Nat
          BY <5>1
        <5> HIDE DEF size
        <5>3. QED
          BY <4>2, <5>1, <5>2, Zenon DEF hasBody
      <4> DEFINE m == DecodedSize(y, y.respBody, opts)
                 again == IF m > 0 THEN m ELSE y.respBody.size
      <4>5. m \in Int /\ again = size
        <5>1. CASE g = <<>>
          BY <4>2, <4>3, <5>1
        <5>2. CASE g # <<>>
          <6>1. m = Len(g) /\ n = Len(g) /\ Len(g) \in Nat /\ Len(g) # 0
            BY <2>2, <4>3, <5>2, Zenon
          <6>2. n > 0 /\ m > 0 /\ m \in Int
            BY <6>1
          <6>3. QED
            BY <6>1, <6>2 DEF size
        <5>3. QED
          BY <5>1, <5>2
      <4> HIDE DEF m
      <4>6. z.respBody = Body(again, g, firstNonEmpty(firstNonEmpty(k, kind), k), y.respBody.truncated)
        <5>1. /\ y.respBody.size \in Nat /\ y.respBody.size > 0 /\ hasBody(y.respBody)
              /\ DecodedSize(y, y.respBody, opts) \in Int
          BY <4>2, <4>4, <4>5 DEF m
        <5>2. StoredRef(Resp(e), Got(e)) =
                Body(IF m > 0 THEN m ELSE y.respBody.size, Text(y, y.respBody, opts),
                     firstNonEmpty(firstNonEmpty(RespType(y, opts), y.respBody.mime),
                                   Header(headerMap(e.respH), "Content-Type")), y.respBody.truncated)
          BY <1>13, <5>1, ResponseIs DEF e, m
        <5>3. QED
          BY <1>6, <2>3, <4>2, <4>3, <5>2, Zenon
      <4>7. firstNonEmpty(firstNonEmpty(k, kind), k) = kind
        BY FirstTwice DEF kind
      <4> HIDE DEF again
      <4>8. QED
        BY <2>6, <4>1, <4>5, <4>6, <4>7, Zenon
    <3>2. CASE ~(f.respBody.size > 0)
      <4>1. y.respBody = Cut(NoBody, f.respBody.truncated)
        BY <2>5, <3>2
      <4>2. y.respBody.size = 0 /\ ~hasBody(y.respBody) /\ y.respBody.hash = Nothing
        <5>1. y.respBody.size = 0 /\ y.respBody.captured = 0 /\ y.respBody.hash = Nothing
          BY <4>1, CutFields, Zenon
        <5>2. QED
          BY <5>1 DEF hasBody
      <4>3. DecodedSize(y, y.respBody, opts) = -1
        BY <4>2 DEF DecodedSize
      <4>4. z.respBody = Cut(NoBody, y.respBody.truncated)
        <5>1. /\ y.respBody.size \in Nat /\ (hasBody(y.respBody) <=> y.respBody.size > 0) /\ ~(y.respBody.size > 0)
              /\ DecodedSize(y, y.respBody, opts) \in Int
          BY <4>2, <4>3
        <5>2. QED
          BY <1>6, <1>13, <5>1, ResponseIs, Zenon DEF e
      <4>5. QED
        BY <2>6, <4>1, <4>4, Zenon
    <3>3. QED
      BY <3>1, <3>2
  <2>10. QED
    BY <2>8, <2>9
<1>14. plain(z.reqBody) = plain(y.reqBody) /\ plain(z.respBody) = plain(y.respBody)
  BY <1>13
<1> DEFINE Mark(x) == [x EXCEPT !.tags = <<>>, !.reqBody = plain(@), !.respBody = plain(@),
                                !.t = <<@.start, timings(@)>>]
<1>15. Mark(z) = Mark(y)
  <2> DEFINE Same(x) == DOMAIN x \ {"tags", "reqBody", "respBody", "t"}
  <2>1. DOMAIN z = DOMAIN y
    BY <1>4
  <2>2. \A k \in Same(y) : z[k] = y[k]
    <3>1. DOMAIN y = {"method", "proto", "client", "status", "upProto", "scheme", "host", "port", "path", "query", "reqH", "respH",
                      "t", "kind", "state", "session", "error", "tags", "replay", "reqBody", "respBody"}
      BY <1>4
    <3>2. z.state = y.state /\ z.session = y.session
      BY <1>4
    <3> HIDE DEF Again, Mark
    <3>3. QED
      BY <1>5, <1>6, <1>7, <1>8, <1>9, <1>11, <3>1, <3>2, ZenonT(60)
  <2>3. ASSUME NEW x
        PROVE  Mark(x) = [k \in DOMAIN x |-> IF k = "t" THEN <<x.t.start, timings(x.t)>>
                                             ELSE IF k = "respBody" THEN plain(x.respBody)
                                             ELSE IF k = "reqBody" THEN plain(x.reqBody)
                                             ELSE IF k = "tags" THEN <<>> ELSE x[k]]
    OBVIOUS
  <2> HIDE DEF Again, Mark, plain
  <2>4. QED
    BY <1>12, <1>14, <2>1, <2>2, <2>3
<1>16. QED
  BY <1>15, Zenon DEF z, e, y, d, EntryOf
====
