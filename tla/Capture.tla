------------------------------ MODULE Capture ------------------------------
(***************************************************************************)
(* What exchanges through the proxy (internal/proxy/handler.go) keep of    *)
(* their bodies (capture.go): a capture for the request and one for the    *)
(* response, within one budget for all exchanges, whichever way they end.  *)
(*                                                                         *)
(* The request is read, and captured, by whoever sends it: a goroutine of  *)
(* the transport, which may go on when the exchange has its response and   *)
(* stores what was captured.  Nothing guards a capture but that this is    *)
(* rare.                                                                   *)
(***************************************************************************)
EXTENDS Integers, FiniteSets, Functions

CONSTANTS
  Exchange,  \* exchanges, each with one request
  MaxBody,   \* bytes kept of a body
  Budget,    \* bytes kept by all captures at a time
  Chunk,     \* how much one read may give
  MaxRead    \* bound: bytes of a body

ASSUME ConstantsAssumption ==
  /\ IsFiniteSet(Exchange)
  /\ MaxBody \in Nat \ {0} /\ Budget \in Nat \ {0}
  /\ Chunk \subseteq Nat \ {0} /\ MaxRead \in Nat

VARIABLES
  at,        \* each exchange's goroutine
  body,      \* its request's body: whether there is more to read
  off,       \* exchanges that began while capturing was paused
  size, kept, truncated, reserved,  \* captures
  write,     \* the Write a capture is in the middle of
  used,      \* the budget's counter
  ref,       \* what a stored body is recorded as
  late       \* history: requests written to when, or after, they were stored

captures == <<size, kept, truncated, reserved, write, used>>
vars == <<at, body, off, captures, ref, late>>

Capt   == Exchange \X {"req", "resp"}
Before == {"none", "trip", "copy", "store", "panic"}
After  == {"bytes", "zero", "store resp", "done", "over", "aborted"}
\* A Write: what it has asked of the budget, and what was reserved when it began.
NoWrite == [pc |-> "idle", n |-> 0, had |-> 0]
Writes  == [pc : {"idle", "granted", "denied"}, n : 0..MaxBody, had : Nat]

Req(x)  == <<x, "req">>
Resp(x) == <<x, "resp">>

TypeOK ==
  /\ at \in [Exchange -> Before \cup After] /\ body \in [Exchange -> {"open", "closed"}]
  /\ off \subseteq Exchange /\ late \subseteq Exchange
  /\ size \in [Capt -> 0..MaxRead] /\ kept \in [Capt -> 0..MaxBody]
  /\ truncated \subseteq Capt /\ reserved \in [Capt -> Nat]
  /\ write \in [Capt -> Writes] /\ used \in Int
  /\ ref \in [Capt -> [captured : 0..MaxBody, size : 0..MaxRead, truncated : BOOLEAN]]

Init ==
  /\ at = [x \in Exchange |-> "none"]
  /\ body = [x \in Exchange |-> "closed"]
  /\ off = {}
  /\ size = [c \in Capt |-> 0] /\ kept = [c \in Capt |-> 0]
  /\ truncated = {} /\ reserved = [c \in Capt |-> 0]
  /\ write = [c \in Capt |-> NoWrite] /\ used = 0
  /\ ref = [c \in Capt |-> [captured |-> 0, size |-> 0, truncated |-> FALSE]]
  /\ late = {}

-----------------------------------------------------------------------------
(* A capture: one call of Write, which may be interrupted.                 *)

\* Mutant: the limit is of one read.
RoomOfRead(c) == MaxBody
Room(c) == MaxBody - kept[c]
\* Mutant: what does not fit is cut, and nobody told.
CutSilently(c, n) == kept[c] = MaxBody
Cut(c, n) == n > Room(c)

\* Mutant: a body that has been cut goes on to be kept.
AsksWhenCut(c) == c[1] \notin off /\ Room(c) > 0
Asks(c) == c[1] \notin off /\ c \notin truncated /\ Room(c) > 0

Least(m, n) == IF m < n THEN m ELSE n

\* Bytes are counted; unless the capture is off or has been cut, those that fit
\* are asked of the budget.
Write(c, n) ==
  LET take == Least(n, Room(c)) IN
  /\ write[c].pc = "idle" /\ size[c] + n <= MaxRead
  /\ size' = [size EXCEPT ![c] = @ + n]
  /\ truncated' = IF c[1] \notin off /\ Cut(c, n) THEN truncated \cup {c} ELSE truncated
  /\ IF Asks(c)
     THEN /\ used' = used + take
          /\ write' = [write EXCEPT ![c] =
                         [pc |-> IF used + take > Budget THEN "denied" ELSE "granted",
                          n |-> take, had |-> reserved[c]]]
     ELSE UNCHANGED <<used, write>>
  /\ UNCHANGED <<kept, reserved>>

Denied(c) ==
  /\ write[c].pc = "denied"
  /\ used' = used - write[c].n
  /\ truncated' = truncated \cup {c}
  /\ write' = [write EXCEPT ![c] = NoWrite]
  /\ UNCHANGED <<size, kept, reserved>>

\* `reserved += n` is not atomic: what it adds to may be what was there before.
Keeps(c) ==
  /\ write[c].pc = "granted"
  /\ \E r \in {write[c].had, reserved[c]} :
       reserved' = [reserved EXCEPT ![c] = r + write[c].n]
  /\ kept' = [kept EXCEPT ![c] = @ + write[c].n]
  /\ write' = [write EXCEPT ![c] = NoWrite]
  /\ UNCHANGED <<size, truncated, used>>

GoesOn(c) == Denied(c) \/ Keeps(c)

\* The request's body is stored from here on.
Stored(x) == at[x] \in After

\* The request's body: read by the hooks, then by the transport, until there is
\* no more of it, the transport has had enough or the server closes it.
ReadsRequest(x, n) ==
  /\ body[x] = "open" /\ Write(Req(x), n)
  /\ late' = IF Stored(x) THEN late \cup {x} ELSE late
  /\ UNCHANGED <<at, body, off, ref>>

RequestGoesOn(x) == GoesOn(Req(x)) /\ UNCHANGED <<at, body, off, ref, late>>

RequestEnds(x) ==
  /\ body[x] = "open" /\ body' = [body EXCEPT ![x] = "closed"]
  /\ UNCHANGED <<at, off, captures, ref, late>>

-----------------------------------------------------------------------------
(* An exchange.                                                            *)

Go(x, from, to) == at[x] \in from /\ at' = [at EXCEPT ![x] = to]

\* Capturing may be paused: a switch of the user, read once.
Begin(x) ==
  /\ Go(x, {"none"}, "trip")
  /\ \E b \in {"open", "closed"} : body' = [body EXCEPT ![x] = b]
  /\ off' \in {off, off \cup {x}}
  /\ UNCHANGED <<captures, ref, late>>

\* The response of the origin, or a mock from either phase.
Responds(x) == Go(x, {"trip"}, "copy") /\ UNCHANGED <<body, off, captures, ref, late>>

\* WriteHeader panics if the status is below 100.
BadStatus(x) == Go(x, {"trip"}, "panic") /\ UNCHANGED <<body, off, captures, ref, late>>

\* The response's body, read and captured by the exchange itself.
Copies(x, n) ==
  /\ at[x] = "copy" /\ Write(Resp(x), n)
  /\ UNCHANGED <<at, body, off, ref, late>>

CopyGoesOn(x) == GoesOn(Resp(x)) /\ UNCHANGED <<at, body, off, ref, late>>

\* The end, good or bad: a response copied, a round trip that failed, a block by
\* reset or timeout, a refusal to proxy to pano itself, a client that has left.
Finishes(x) ==
  /\ write[Resp(x)] = NoWrite
  /\ Go(x, {"trip", "copy"}, "store")
  /\ UNCHANGED <<body, off, captures, ref, late>>

-----------------------------------------------------------------------------
(* Storing the bodies, and what is deferred.                               *)

Record(c) == [captured |-> kept[c], size |-> size[c], truncated |-> c \in truncated]

Overlaps(x) == late' = IF write[Req(x)] = NoWrite THEN late ELSE late \cup {x}

\* What went through is noted before what was kept.
SizesRequest(x) ==
  /\ Go(x, {"store"}, "bytes")
  /\ ref' = [ref EXCEPT ![Req(x)] = [Record(Req(x)) EXCEPT !.captured = 0]]
  /\ Overlaps(x)
  /\ UNCHANGED <<body, off, captures>>

\* The bytes go to the sink, what the capture had of the budget goes back; then it
\* has nothing.
StoresRequest(x) ==
  /\ Go(x, {"bytes"}, "zero")
  /\ ref' = [ref EXCEPT ![Req(x)].captured = kept[Req(x)]]
  /\ used' = used - reserved[Req(x)]
  /\ Overlaps(x)
  /\ UNCHANGED <<body, off, size, kept, truncated, reserved, write>>

\* Mutant: what has been released is released again.
ZeroesNothing(x) ==
  /\ Go(x, {"zero"}, "store resp")
  /\ UNCHANGED <<body, off, captures, ref, late>>
Zeroes(x) ==
  /\ Go(x, {"zero"}, "store resp")
  /\ reserved' = [reserved EXCEPT ![Req(x)] = 0]
  /\ UNCHANGED <<body, off, size, kept, truncated, write, used, ref, late>>

\* The response's is the exchange's own; then the flow is done.
StoresResponse(x) ==
  /\ Go(x, {"store resp"}, "done")
  /\ ref' = [ref EXCEPT ![Resp(x)] = Record(Resp(x))]
  /\ used' = used - reserved[Resp(x)]
  /\ reserved' = [reserved EXCEPT ![Resp(x)] = 0]
  /\ UNCHANGED <<body, off, size, kept, truncated, write, late>>

\* What is deferred: what both captures have is released, whichever way the
\* exchange has gone, and not set to zero.
Deferred(x, from, to) ==
  /\ Go(x, {from}, to)
  /\ used' = used - (reserved[Req(x)] + reserved[Resp(x)])
  /\ Overlaps(x)
  /\ UNCHANGED <<body, off, size, kept, truncated, reserved, write, ref>>

Ends(x) ==
  \/ SizesRequest(x) \/ StoresRequest(x) \/ Zeroes(x) \/ StoresResponse(x)
  \/ Deferred(x, "done", "over") \/ Deferred(x, "panic", "aborted")

Next ==
  \E x \in Exchange :
    \/ Begin(x) \/ Responds(x) \/ BadStatus(x)
    \/ \E n \in Chunk : ReadsRequest(x, n) \/ Copies(x, n)
    \/ RequestGoesOn(x) \/ RequestEnds(x) \/ CopyGoesOn(x)
    \/ Finishes(x) \/ Ends(x)

Spec == Init /\ [][Next]_vars

-----------------------------------------------------------------------------
(* Properties.                                                             *)

\* What a capture has of the budget: what it has reserved and not yet released, and
\* what it is asking for.
Releasing(c) == at[c[1]] \in {"over", "aborted"} \/ (at[c[1]] = "zero" /\ c[2] = "req")
Holds(c) == (IF Releasing(c) THEN 0 ELSE reserved[c]) + write[c].n
\* Bytes in memory for bodies that have not gone to the sink.
Pending(c) ==
  IF at[c[1]] \in {"done", "over", "aborted"} \cup (IF c[2] = "req" THEN After \ {"bytes"} ELSE {})
  THEN 0 ELSE kept[c]

\* capture.go: "budget bounds total in-flight capture bytes across all flows".  As
\* long as no request was written to while or after it was stored, the counter is
\* what the captures have of it, and they keep no more than there is; exchanges
\* that are over have nothing of it, also those that panicked.
BudgetHolds ==
  late = {} =>
    /\ used = SumFunction([c \in Capt |-> Holds(c)])
    /\ SumFunction([c \in Capt |-> Pending(c)]) <= Budget

\* What a flow says of its bodies is true: it says that one is cut just when less
\* was kept than went through, and nothing is kept while capturing is paused.
RecordTruthful ==
  \A c \in Capt : at[c[1]] \in {"done", "over"} /\ c[1] \notin late =>
    /\ ref[c].captured <= ref[c].size
    /\ IF c[1] \in off THEN ref[c].captured = 0 /\ ~ref[c].truncated
       ELSE ref[c].truncated <=> ref[c].captured < ref[c].size

\* What is kept of a body is its beginning.  Once it is cut nothing is added to it,
\* but by the read that was too long, and that fills the capture.
NoHole ==
  [][\A c \in Capt : c \in truncated /\ kept'[c] # kept[c] => kept'[c] = MaxBody]_vars
=============================================================================
