------------------------------- MODULE Tables -------------------------------
(***************************************************************************)
(* The tables that forget: the hosts whose clients refused the certificate *)
(* (internal/proxy decrypt.go rejectedRing), the devices seen by the proxy *)
(* (devices.go deviceTable), and the bodies kept (internal/store blob.go   *)
(* MemBlobs).  A call has its table's mutex from its first step to its     *)
(* last, so it is one step here; the calls of each table are recorded, and *)
(* what it holds is compared with what they alone say should be left.      *)
(*                                                                         *)
(* Calls have distinct times, in the order they take the mutex: none of    *)
(* two entries is as old as the other.  (touch reads the clock before it   *)
(* has the mutex; calls that overlap may swap their times.)  A host is the *)
(* sequence of its labels; a host pattern is a bare domain.  What a device *)
(* is called is left out, and so are clients that are the Mac itself,      *)
(* which touch turns away.                                                 *)
(***************************************************************************)
EXTENDS Naturals, FiniteSets, Sequences, SequencesExt, Functions

CONSTANTS
  Host, Pattern,                  \* hosts that refuse; entries of the never list
  rejectedWindow, rejectedLimit,
  Client, maxDevices,             \* of devices; the Mac itself is none
  Blob, bodySize, budget,         \* of MemBlobs: contents, by hash, and their sizes
  Gaps,                           \* how much time may pass between two calls
  MaxCalls                        \* bound on the calls of a table

ASSUME TablesAssumption ==
  /\ rejectedWindow \in Nat /\ rejectedLimit \in Nat \ {0} /\ maxDevices \in Nat \ {0}
  /\ IsFiniteSet(Blob) /\ bodySize \in [Blob -> Nat] /\ budget \in Nat
  /\ Gaps \subseteq Nat \ {0} /\ MaxCalls \in Nat

VARIABLES
  rejected, refusals,   \* rejectedRing.hosts; its calls
  devices, touches,     \* deviceTable.m; its calls
  blobs, used, uses     \* MemBlobs.lru, the front first, and used; its calls

hostTable   == <<rejected, refusals>>
deviceTable == <<devices, touches>>
MemBlobs    == <<blobs, used, uses>>
tables == <<hostTable, deviceTable, MemBlobs>>

\* When a table was last called.
Clock(calls) == IF calls = <<>> THEN 0 ELSE calls[Len(calls)].at

Without(t, S) == Restrict(t, DOMAIN t \ S)
With(t, k, v) == [x \in {k} \cup DOMAIN t |-> IF x = k THEN v ELSE t[x]]

\* The entry that makes room.
Stalest(t) == CHOOSE k \in DOMAIN t : \A j \in DOMAIN t : t[k].last <= t[j].last

-----------------------------------------------------------------------------
(* rejectedRing. *)

HostMatch(pattern, host) == IsSuffix(pattern, host)

pruneLocked(t, now) == Without(t, {h \in DOMAIN t : now - t[h].last > rejectedWindow})

add(t, host, now) ==
  LET p == pruneLocked(t, now) IN
  IF host \in DOMAIN p THEN [p EXCEPT ![host].count = @ + 1, ![host].last = now]
  ELSE With(IF Cardinality(DOMAIN p) >= rejectedLimit THEN Without(p, {Stalest(p)}) ELSE p,
            host, [count |-> 1, first |-> now, last |-> now])

forget(t, pattern) == Without(t, {h \in DOMAIN t : HostMatch(pattern, h)})

Reject(host, now) ==
  /\ rejected' = add(rejected, host, now)
  /\ refusals' = Append(refusals, [op |-> "add", host |-> host, at |-> now])

Forget(pattern, now) ==
  /\ rejected' = forget(rejected, pattern)
  /\ refusals' = Append(refusals, [op |-> "forget", host |-> pattern, at |-> now])

\* list, which prunes what it does not show.
ListRejected(now) ==
  /\ rejected' = pruneLocked(rejected, now)
  /\ refusals' = Append(refusals, [op |-> "list", host |-> <<>>, at |-> now])

RejectedNext ==
  /\ Len(refusals) < MaxCalls
  /\ \E gap \in Gaps : LET now == Clock(refusals) + gap IN
       \/ \E host \in Host : Reject(host, now)
       \/ \E pattern \in Pattern : Forget(pattern, now)
       \/ ListRejected(now)

-----------------------------------------------------------------------------
(* deviceTable. *)

What == {"request", "inner", "accepted", "refused"}

\* Mutant: room is made for a device that is there already.
EvictAlways(t, ip) == IF Cardinality(DOMAIN t) >= maxDevices THEN Without(t, {Stalest(t)}) ELSE t

evictLocked(t, ip) ==
  IF ip \notin DOMAIN t /\ Cardinality(DOMAIN t) >= maxDevices THEN Without(t, {Stalest(t)}) ELSE t

NewDevice(now) == [first |-> now, last |-> now, requests |-> 0, decrypted |-> 0, rejected |-> 0]

Noted(d, what, now) ==
  [d EXCEPT !.last = now,
            !.requests = IF what = "request" THEN @ + 1 ELSE @,      \* noteRequest
            !.decrypted = IF what = "accepted" THEN @ + 1 ELSE @,    \* noteHandshake
            !.rejected = IF what = "refused" THEN @ + 1 ELSE @]

touch(t, ip, what, now) ==
  LET room == evictLocked(t, ip) IN
  With(room, ip, Noted(IF ip \in DOMAIN room THEN room[ip] ELSE NewDevice(now), what, now))

DevicesNext ==
  /\ Len(touches) < MaxCalls
  /\ \E gap \in Gaps, ip \in Client, what \in What :
       LET now == Clock(touches) + gap IN
       /\ devices' = touch(devices, ip, what, now)
       /\ touches' = Append(touches, [ip |-> ip, what |-> what, at |-> now])

-----------------------------------------------------------------------------
(* MemBlobs. *)

Total(S) == SumFunctionOnSet(bodySize, S)

MoveToFront(l, b) == <<b>> \o RemoveAt(l, CHOOSE n \in DOMAIN l : l[n] = b)

\* How many of a list's blobs are kept: the loop drops the last as long as what
\* is counted is above the budget, and never the first.
Behind(l, n) == {l[m] : m \in (n + 1)..Len(l)}
Fits(l, count) == {n \in 1..Len(l) : n = 1 \/ count - Total(Behind(l, n)) <= budget}
Kept(l, count) == CHOOSE n \in Fits(l, count) : \A m \in Fits(l, count) : m <= n

PutBlob(b) ==
  /\ IF Contains(blobs, b) THEN blobs' = MoveToFront(blobs, b) /\ UNCHANGED used
     ELSE LET l == <<b>> \o blobs
              count == used + bodySize[b]
              n == Kept(l, count)
          IN blobs' = SubSeq(l, 1, n) /\ used' = count - Total(Behind(l, n))
  /\ uses' = Append(uses, [op |-> "put", blob |-> b, hit |-> TRUE])

GetBlob(b) ==
  /\ blobs' = IF Contains(blobs, b) THEN MoveToFront(blobs, b) ELSE blobs
  /\ uses' = Append(uses, [op |-> "get", blob |-> b, hit |-> Contains(blobs, b)])
  /\ UNCHANGED used

ClearBlobs ==
  /\ blobs' = <<>> /\ used' = 0
  /\ uses' = Append(uses, [op |-> "clear", hit |-> FALSE])

BlobsNext ==
  /\ Len(uses) < MaxCalls
  /\ (\E b \in Blob : PutBlob(b) \/ GetBlob(b)) \/ ClearBlobs

-----------------------------------------------------------------------------
TablesInit ==
  /\ rejected = <<>> /\ refusals = <<>>
  /\ devices = <<>> /\ touches = <<>>
  /\ blobs = <<>> /\ used = 0 /\ uses = <<>>

-----------------------------------------------------------------------------
(* Properties. *)

Earliest(S) == CHOOSE i \in S : \A j \in S : i <= j
Latest(S) == CHOOSE i \in S : \A j \in S : j <= i

Forgotten(calls, h, i, k) == \E j \in i..k : calls[j].op = "forget" /\ HostMatch(calls[j].host, h)
Crowd(calls, h, i, k) == {calls[j].host : j \in {l \in i..k : calls[l].op = "add"}} \ {h}

\* What takes a host away that refused in call i, by call k: it is too old, has
\* been forgotten, or as many others as there is room for have refused since.
Lost(calls, h, i, k) ==
  \/ calls[k].at - calls[i].at > rejectedWindow
  \/ Forgotten(calls, h, i, k)
  \/ Cardinality(Crowd(calls, h, i, k)) >= rejectedLimit

Refused(h) == {i \in DOMAIN refusals : refusals[i].op = "add" /\ refusals[i].host = h}

\* The refusals of a listed host that are counted, and those that were before.
Streak(h) == {i \in Refused(h) : refusals[i].at >= rejected[h].first}
Earlier(h) == Refused(h) \ Streak(h)

HostIsTrue(h) ==
  /\ Streak(h) # {} /\ rejected[h].count = Cardinality(Streak(h))
  /\ rejected[h].last = refusals[Latest(Streak(h))].at
  /\ ~Forgotten(refusals, h, Earliest(Streak(h)), Len(refusals))
  /\ \A i \in Streak(h) : i # Latest(Streak(h)) =>
       \E j \in Streak(h) : j > i /\ refusals[j].at - refusals[i].at <= rejectedWindow
  /\ Earlier(h) # {} => Lost(refusals, h, Latest(Earlier(h)), Earliest(Streak(h)))

\* A host is listed with as many refusals as it had, each soon after the one
\* before it, since it was last lost; a host that refused and is not listed has
\* been lost since; and what is shown is not too old (decrypt.go rejectedRing).
RejectedTrue ==
  /\ Cardinality(DOMAIN rejected) <= rejectedLimit
  /\ \A h \in DOMAIN rejected : HostIsTrue(h)
  /\ \A h \in Host \ DOMAIN rejected :
       Refused(h) # {} => Lost(refusals, h, Latest(Refused(h)), Len(refusals))
  /\ refusals # <<>> /\ refusals[Len(refusals)].op # "forget" =>
       \A h \in DOMAIN rejected : Clock(refusals) - rejected[h].last <= rejectedWindow

Seen(ip) == {i \in DOMAIN touches : touches[i].ip = ip}

\* What a device did since it was let in, and before.
Visit(ip) == {i \in Seen(ip) : touches[i].at >= devices[ip].first}
Former(ip) == Seen(ip) \ Visit(ip)

DeviceIsTrue(ip) ==
  LET Did(what) == Cardinality({i \in Visit(ip) : touches[i].what = what}) IN
  /\ Visit(ip) # {} /\ devices[ip].last = touches[Latest(Visit(ip))].at
  /\ devices[ip].requests = Did("request")
  /\ devices[ip].decrypted = Did("accepted") /\ devices[ip].rejected = Did("refused")
  /\ Former(ip) # {} =>
       Cardinality({touches[i].ip : i \in Latest(Former(ip))..Earliest(Visit(ip))} \ {ip}) >= maxDevices

\* The table holds the devices seen last, as many as there is room for, and of
\* each what it did since it was let in; one that had been there before was out
\* because as many others were seen since (devices.go deviceTable).
DevicesTrue ==
  /\ Cardinality(DOMAIN devices) <= maxDevices
  /\ \A ip \in Client \ DOMAIN devices : Seen(ip) # {} =>
       /\ Cardinality(DOMAIN devices) = maxDevices
       /\ \A q \in DOMAIN devices : Latest(Seen(ip)) < Latest(Seen(q))
  /\ \A ip \in DOMAIN devices : DeviceIsTrue(ip)

\* When a body was put, or found, since the last clear; and which were after it.
Used(calls, b) ==
  {i \in DOMAIN calls : /\ calls[i].hit /\ calls[i].blob = b
                        /\ \A j \in i..Len(calls) : calls[j].op # "clear"}
LastUse(calls, b) == Latest(Used(calls, b))
Since(calls, b) == {c \in Blob : Used(calls, c) # {} /\ LastUse(calls, c) > LastUse(calls, b)}

\* The bodies kept are those used last, newest first, within the budget or one
\* alone; one that is not kept did not fit with those used since, and what was
\* cleared is not kept; the counter is their size (blob.go MemBlobs).
BlobsTrue ==
  /\ used = Total(ToSet(blobs)) /\ (Len(blobs) > 1 => used <= budget)
  /\ \A n \in DOMAIN blobs : Used(uses, blobs[n]) # {}
  /\ \A m, n \in DOMAIN blobs : m < n => LastUse(uses, blobs[m]) > LastUse(uses, blobs[n])
  /\ \A b \in Blob : Used(uses, b) # {} /\ ~Contains(blobs, b) =>
       Since(uses, b) # {} /\ Total(Since(uses, b) \cup {b}) > budget
=============================================================================
