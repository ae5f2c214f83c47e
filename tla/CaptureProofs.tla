--------------------------- MODULE CaptureProofs ---------------------------
(* Proofs about Capture: what a flow says of its bodies, and what all keep *)
(* of the budget.                                                          *)
EXTENDS Capture, Sums

\* What a Write is about to keep.
Coming(c) == IF write[c].pc = "granted" THEN write[c].n ELSE 0

\* A Write keeps what fits, and fills the capture if it was too long.
Fits ==
  \A c \in Capt :
    /\ write[c].pc = "idle" => write[c] = NoWrite
    /\ kept[c] + write[c].n <= MaxBody
    /\ write[c].pc = "granted" /\ c \in truncated => kept[c] + write[c].n = MaxBody

\* A capture that is on says that it has been cut just when it keeps less than went
\* through; one that is off keeps nothing.
Cuts ==
  \A c \in Capt :
    IF c[1] \in off THEN kept[c] = 0 /\ c \notin truncated /\ write[c].pc = "idle"
    ELSE /\ kept[c] + Coming(c) <= size[c]
         /\ write[c].pc = "denied" => kept[c] < size[c]
         /\ write[c].pc # "denied" => (c \in truncated <=> kept[c] + Coming(c) < size[c])

\* Nobody writes before the exchange begins, and only its copy to the response.
Quiet ==
  \A x \in Exchange :
    /\ write[Resp(x)].pc # "idle" => at[x] = "copy"
    /\ at[x] = "none" =>
         /\ body[x] = "closed"
         /\ \A c \in {Req(x), Resp(x)} :
              size[c] = 0 /\ kept[c] = 0 /\ c \notin truncated /\ write[c].pc = "idle"

\* What is recorded is what there is, unless it was written to since.
RecordedOf(x) ==
  /\ Stored(x) => write[Req(x)].pc = "idle"
  /\ at[x] \in After \ {"aborted"} =>
       ref[Req(x)].size = size[Req(x)] /\ (ref[Req(x)].truncated <=> Req(x) \in truncated)
  /\ at[x] \in After \ {"bytes", "aborted"} => ref[Req(x)].captured = kept[Req(x)]
  /\ at[x] \in {"done", "over"} =>
       /\ ref[Resp(x)].captured = kept[Resp(x)] /\ ref[Resp(x)].size = size[Resp(x)]
       /\ (ref[Resp(x)].truncated <=> Resp(x) \in truncated)
Recorded == \A x \in Exchange \ late : RecordedOf(x)

\* What the exchange has set to zero, having released it.
Zeroed(c) == at[c[1]] \in {"done", "over"} \/ (at[c[1]] = "store resp" /\ c[2] = "req")

\* What is in memory, and what a Write has been granted.
Claim(c) == Pending(c) + Coming(c)

AllHolds == [c \in Capt |-> Holds(c)]
AllClaims == [c \in Capt |-> Claim(c)]

\* As long as nobody is late: the counter is what the captures have, a Write still
\* adds to what was there, and what is kept and granted is within the budget.
Accounts ==
  late = {} =>
    /\ used = SumFunctionOnSet(AllHolds, Capt)
    /\ SumFunctionOnSet(AllClaims, Capt) <= Budget
    /\ \A c \in Capt :
         /\ reserved[c] = IF Zeroed(c) THEN 0 ELSE kept[c]
         /\ write[c].pc # "idle" => write[c].had = reserved[c]

Inv == TypeOK /\ Fits /\ Cuts /\ Quiet /\ Recorded

\* With the accounts, which need Inv of both states.
FullInv == Inv /\ Accounts

-----------------------------------------------------------------------------
\* A capture belongs to one exchange, and is its request's or its response's.
LEMMA Captures ==
  /\ \A x \in Exchange : Req(x) \in Capt /\ Resp(x) \in Capt
  /\ \A x, y \in Exchange : Req(x) # Resp(y) /\ (x # y => Req(x) # Req(y) /\ Resp(x) # Resp(y))
  /\ \A x \in Exchange : Req(x)[1] = x /\ Resp(x)[1] = x
  /\ \A c \in Capt : c[1] \in Exchange /\ (c = Req(c[1]) \/ c = Resp(c[1]))
BY DEF Capt, Req, Resp

\* Only a capture's own Write, and what the exchange zeroes, changes a capture.
Same(c) == /\ size'[c] = size[c] /\ kept'[c] = kept[c] /\ write'[c] = write[c]
           /\ (c \in truncated' <=> c \in truncated)

\* One step of a Write.
Steps(c) == (\E n \in Chunk : Write(c, n)) \/ GoesOn(c)

TypeOfData ==
  /\ size \in [Capt -> 0..MaxRead] /\ kept \in [Capt -> 0..MaxBody]
  /\ truncated \subseteq Capt /\ reserved \in [Capt -> Nat]
  /\ write \in [Capt -> Writes] /\ used \in Int

LEMMA NoWriteIsOne == NoWrite \in Writes /\ NoWrite.n = 0 /\ NoWrite.pc = "idle"
BY ConstantsAssumption DEF ConstantsAssumption, NoWrite, Writes

\* What a Write asks for fits, and is all there is to ask for if it was too long.
LEMMA Takes ==
  ASSUME NEW c \in Capt, NEW n \in Nat \ {0}, TypeOfData
  PROVE  /\ Least(n, Room(c)) \in 0..MaxBody
         /\ kept[c] + Least(n, Room(c)) <= MaxBody /\ Least(n, Room(c)) <= n
         /\ Room(c) > 0 => Least(n, Room(c)) > 0
         /\ Cut(c, n) => kept[c] + Least(n, Room(c)) = MaxBody /\ Least(n, Room(c)) < n
         /\ ~Cut(c, n) => Least(n, Room(c)) = n
         /\ ~(Room(c) > 0) => Cut(c, n)
BY ConstantsAssumption DEF ConstantsAssumption, TypeOfData, Least, Room, Cut

LEMMA WriteTypes ==
  ASSUME NEW c \in Capt, Steps(c), TypeOfData, Fits
  PROVE  TypeOfData'
<1>1. ASSUME NEW n \in Chunk, Write(c, n)
      PROVE  TypeOfData'
  <2>1. n \in Nat \ {0}
    BY ConstantsAssumption DEF ConstantsAssumption
  <2>2. size' \in [Capt -> 0..MaxRead]
    <3>1. size[c] + n \in 0..MaxRead
      BY <1>1, <2>1, ConstantsAssumption DEF ConstantsAssumption, Write, TypeOfData
    <3> QED
      BY <1>1, <3>1 DEF Write, TypeOfData
  <2>3. truncated' \subseteq Capt
    BY <1>1 DEF Write, TypeOfData
  <2>4. Least(n, Room(c)) \in 0..MaxBody
    BY <2>1, Takes
  <2>5. used' \in Int /\ write' \in [Capt -> Writes]
    <3>1. CASE Asks(c)
      <4>1. used' = used + Least(n, Room(c))
        BY <1>1, <3>1 DEF Write
      <4>2. \E p \in {"denied", "granted"} :
              write' = [write EXCEPT ![c] =
                          [pc |-> p, n |-> Least(n, Room(c)), had |-> reserved[c]]]
        BY <1>1, <3>1 DEF Write
      <4> QED
        BY <2>4, <4>1, <4>2, ConstantsAssumption
        DEF ConstantsAssumption, TypeOfData, Writes
    <3>2. CASE ~Asks(c)
      BY <1>1, <3>2 DEF Write, TypeOfData
    <3> QED
      BY <3>1, <3>2
  <2> QED
    BY <1>1, <2>2, <2>3, <2>5 DEF Write, TypeOfData
<1>2. CASE Denied(c)
  BY <1>2, NoWriteIsOne, ConstantsAssumption
  DEF ConstantsAssumption, Denied, TypeOfData, Writes
<1>3. CASE Keeps(c)
  <2>1. kept[c] + write[c].n \in 0..MaxBody
    BY ConstantsAssumption DEF ConstantsAssumption, TypeOfData, Fits, Writes
  <2>2. PICK r \in {write[c].had, reserved[c]} :
          reserved' = [reserved EXCEPT ![c] = r + write[c].n]
    BY <1>3 DEF Keeps
  <2>3. r + write[c].n \in Nat
    BY <2>2, ConstantsAssumption DEF ConstantsAssumption, TypeOfData, Writes
  <2>4. reserved' \in [Capt -> Nat]
    BY <2>2, <2>3 DEF TypeOfData
  <2>5. kept' \in [Capt -> 0..MaxBody] /\ write' \in [Capt -> Writes]
    BY <1>3, <2>1, NoWriteIsOne DEF Keeps, TypeOfData
  <2> QED
    BY <1>3, <2>4, <2>5 DEF Keeps, TypeOfData
<1> QED
  BY <1>1, <1>2, <1>3 DEF Steps, GoesOn

\* The other captures are left alone.
LEMMA OthersSame ==
  ASSUME NEW c \in Capt, Steps(c), TypeOfData
  PROVE  \A d \in Capt \ {c} : Same(d)
<1>1. ASSUME NEW n \in Chunk, Write(c, n)
      PROVE  \A d \in Capt \ {c} : Same(d)
  <2>1. CASE Asks(c)
    BY <1>1, <2>1 DEF Write, Same, TypeOfData
  <2>2. CASE ~Asks(c)
    BY <1>1, <2>2 DEF Write, Same, TypeOfData
  <2> QED
    BY <2>1, <2>2
<1>2. CASE Denied(c)
  BY <1>2 DEF Denied, Same, TypeOfData
<1>3. CASE Keeps(c)
  BY <1>3 DEF Keeps, Same, TypeOfData
<1> QED
  BY <1>1, <1>2, <1>3 DEF Steps, GoesOn

\* A Write by what it does to its capture: nothing asked, asked, or settled.
LEMMA WriteByCase ==
  ASSUME NEW c \in Capt, Steps(c), TypeOfData, Fits
  PROVE  \/ \E n \in Nat \ {0} :
              /\ write[c] = NoWrite /\ size'[c] = size[c] + n /\ kept'[c] = kept[c]
              /\ (c \in truncated' <=> c \in truncated \/ (c[1] \notin off /\ Cut(c, n)))
              /\ \/ ~Asks(c) /\ write'[c] = NoWrite
                 \/ /\ Asks(c) /\ write'[c].pc \in {"denied", "granted"}
                    /\ write'[c].n = Least(n, Room(c))
         \/ /\ write[c].pc = "denied" /\ size'[c] = size[c] /\ kept'[c] = kept[c]
            /\ c \in truncated' /\ write'[c] = NoWrite
         \/ /\ write[c].pc = "granted" /\ size'[c] = size[c]
            /\ kept'[c] = kept[c] + write[c].n
            /\ (c \in truncated' <=> c \in truncated) /\ write'[c] = NoWrite
<1>1. ASSUME NEW n \in Chunk, Write(c, n)
      PROVE  /\ write[c] = NoWrite /\ size'[c] = size[c] + n /\ kept'[c] = kept[c]
             /\ (c \in truncated' <=> c \in truncated \/ (c[1] \notin off /\ Cut(c, n)))
             /\ \/ ~Asks(c) /\ write'[c] = NoWrite
                \/ /\ Asks(c) /\ write'[c].pc \in {"denied", "granted"}
                   /\ write'[c].n = Least(n, Room(c))
  <2>1. write[c] = NoWrite /\ size'[c] = size[c] + n /\ kept'[c] = kept[c]
    BY <1>1 DEF Write, TypeOfData, Fits
  <2>2. c \in truncated' <=> c \in truncated \/ (c[1] \notin off /\ Cut(c, n))
    BY <1>1 DEF Write
  <2>3. CASE Asks(c)
    BY <1>1, <2>1, <2>2, <2>3 DEF Write, TypeOfData
  <2>4. CASE ~Asks(c)
    BY <1>1, <2>1, <2>2, <2>4 DEF Write
  <2> QED
    BY <2>3, <2>4
<1>2. Chunk \subseteq Nat \ {0}
  BY ConstantsAssumption DEF ConstantsAssumption
<1>3. CASE Denied(c)
  BY <1>3 DEF Denied, TypeOfData
<1>4. CASE Keeps(c)
  BY <1>4 DEF Keeps, TypeOfData
<1> QED
  BY <1>1, <1>2, <1>3, <1>4 DEF Steps, GoesOn

LEMMA WriteFits ==
  ASSUME NEW c \in Capt, Steps(c), TypeOfData, Fits
  PROVE  Fits'
<1> SUFFICES ASSUME NEW d \in Capt
             PROVE  /\ write'[d].pc = "idle" => write'[d] = NoWrite
                    /\ kept'[d] + write'[d].n <= MaxBody
                    /\ write'[d].pc = "granted" /\ d \in truncated' =>
                         kept'[d] + write'[d].n = MaxBody
  BY DEF Fits
<1>1. CASE d # c
  BY <1>1, OthersSame DEF Same, Fits
<1>2. CASE d = c
  BY <1>2, WriteByCase, Takes, NoWriteIsOne, ConstantsAssumption
  DEF ConstantsAssumption, Fits, TypeOfData, Asks, Writes
<1> QED
  BY <1>1, <1>2

\* A capture that is off is never asked for.
LEMMA WriteCuts ==
  ASSUME NEW c \in Capt, Steps(c), TypeOfData, Fits, Cuts, off' = off
  PROVE  Cuts'
<1> SUFFICES ASSUME NEW d \in Capt
             PROVE  (IF d[1] \in off THEN kept[d] = 0 /\ d \notin truncated /\ write[d].pc = "idle"
                     ELSE /\ kept[d] + Coming(d) <= size[d]
                          /\ write[d].pc = "denied" => kept[d] < size[d]
                          /\ write[d].pc # "denied" =>
                               (d \in truncated <=> kept[d] + Coming(d) < size[d]))'
  BY DEF Cuts
<1>1. CASE d # c
  BY <1>1, OthersSame DEF Same, Cuts, Coming
<1>2. CASE d = c /\ c[1] \in off
  BY <1>2, WriteByCase, NoWriteIsOne DEF Cuts, Asks
<1>3. CASE d = c /\ c[1] \notin off
  <2>1. ASSUME NEW n \in Nat \ {0},
               write[c] = NoWrite, size'[c] = size[c] + n, kept'[c] = kept[c],
               c \in truncated' <=> c \in truncated \/ (c[1] \notin off /\ Cut(c, n)),
               \/ ~Asks(c) /\ write'[c] = NoWrite
               \/ /\ Asks(c) /\ write'[c].pc \in {"denied", "granted"}
                  /\ write'[c].n = Least(n, Room(c))
        PROVE  /\ kept'[c] + Coming(c)' <= size'[c]
               /\ write'[c].pc = "denied" => kept'[c] < size'[c]
               /\ write'[c].pc # "denied" =>
                    (c \in truncated' <=> kept'[c] + Coming(c)' < size'[c])
    <3>1. /\ kept[c] \in Nat /\ size[c] \in Nat /\ kept[c] <= size[c]
          /\ (c \in truncated <=> kept[c] < size[c])
      BY <1>3, <2>1, NoWriteIsOne, ConstantsAssumption
      DEF ConstantsAssumption, Cuts, Coming, TypeOfData
    <3>2. CASE ~Asks(c) /\ write'[c] = NoWrite
      <4>1. Coming(c)' = 0
        BY <3>2, NoWriteIsOne DEF Coming
      <4>2. c \in truncated'
        BY <1>3, <2>1, <3>2, NoWriteIsOne, Takes DEF Asks
      <4> QED
        BY <2>1, <3>1, <3>2, <4>1, <4>2, NoWriteIsOne
    <3>3. CASE Asks(c) /\ write'[c].pc \in {"denied", "granted"}
      <4>1. write'[c].n = Least(n, Room(c)) /\ c \notin truncated
        BY <2>1, <3>3, NoWriteIsOne DEF Asks
      <4>2. Least(n, Room(c)) \in Nat /\ Least(n, Room(c)) <= n
        BY Takes
      <4>3. Coming(c)' = IF write'[c].pc = "granted" THEN Least(n, Room(c)) ELSE 0
        BY <4>1 DEF Coming
      <4>4. c \in truncated' <=> Least(n, Room(c)) < n
        BY <1>3, <2>1, <4>1, Takes
      <4> QED
        BY <2>1, <3>1, <3>3, <4>1, <4>2, <4>3, <4>4
    <3> QED
      BY <2>1, <3>2, <3>3
  <2>2. ASSUME write[c].pc = "denied", size'[c] = size[c], kept'[c] = kept[c],
               c \in truncated', write'[c] = NoWrite
        PROVE  /\ kept'[c] + Coming(c)' <= size'[c]
               /\ write'[c].pc = "denied" => kept'[c] < size'[c]
               /\ write'[c].pc # "denied" =>
                    (c \in truncated' <=> kept'[c] + Coming(c)' < size'[c])
    BY <1>3, <2>2, NoWriteIsOne DEF Cuts, Coming, TypeOfData
  <2>3. ASSUME write[c].pc = "granted", size'[c] = size[c], kept'[c] = kept[c] + write[c].n,
               c \in truncated' <=> c \in truncated, write'[c] = NoWrite
        PROVE  /\ kept'[c] + Coming(c)' <= size'[c]
               /\ write'[c].pc = "denied" => kept'[c] < size'[c]
               /\ write'[c].pc # "denied" =>
                    (c \in truncated' <=> kept'[c] + Coming(c)' < size'[c])
    BY <1>3, <2>3, NoWriteIsOne DEF Cuts, Coming, TypeOfData, Writes
  <2>4. /\ kept'[c] + Coming(c)' <= size'[c]
        /\ write'[c].pc = "denied" => kept'[c] < size'[c]
        /\ write'[c].pc # "denied" =>
             (c \in truncated' <=> kept'[c] + Coming(c)' < size'[c])
    BY <2>1, <2>2, <2>3, WriteByCase
  <2> QED
    BY <1>3, <2>4
<1> QED
  BY <1>1, <1>2, <1>3

-----------------------------------------------------------------------------
(* The exchange.                                                           *)

Data == <<size, kept, truncated, write, off>>

\* What changes no data changes nothing of what is said about it.
LEMMA DataStays ==
  ASSUME Fits, Cuts, UNCHANGED Data
  PROVE  Fits' /\ Cuts'
BY DEF Fits, Cuts, Coming, Data

\* The steps that begin no exchange and write to no capture.
Moves(x) ==
  \/ Responds(x) \/ BadStatus(x) \/ RequestEnds(x) \/ Finishes(x) \/ SizesRequest(x)
  \/ StoresRequest(x) \/ Zeroes(x) \/ StoresResponse(x)
  \/ Deferred(x, "done", "over") \/ Deferred(x, "panic", "aborted")

\* A step writes to a capture, moves an exchange, or begins one.
LEMMA NextByCase ==
  ASSUME Next
  PROVE  \E x \in Exchange :
           \/ Begin(x) \/ Moves(x)
           \/ \E n \in Chunk : ReadsRequest(x, n) \/ Copies(x, n)
           \/ RequestGoesOn(x) \/ CopyGoesOn(x)
BY DEF Next, Ends, Moves

LEMMA MovesLeaveData ==
  ASSUME NEW x \in Exchange, Moves(x)
  PROVE  UNCHANGED Data
BY DEF Moves, Responds, BadStatus, RequestEnds, Finishes, SizesRequest, StoresRequest, Zeroes,
       StoresResponse, Deferred, Data, captures

LEMMA BeginCuts ==
  ASSUME NEW x \in Exchange, TypeOK, Cuts, Quiet, Begin(x)
  PROVE  Cuts'
<1> SUFFICES ASSUME NEW d \in Capt
             PROVE  (IF d[1] \in off THEN kept[d] = 0 /\ d \notin truncated /\ write[d].pc = "idle"
                     ELSE /\ kept[d] + Coming(d) <= size[d]
                          /\ write[d].pc = "denied" => kept[d] < size[d]
                          /\ write[d].pc # "denied" =>
                               (d \in truncated <=> kept[d] + Coming(d) < size[d]))'
  BY DEF Cuts
<1>1. size' = size /\ kept' = kept /\ truncated' = truncated /\ write' = write
  BY DEF Begin, captures
<1>2. CASE d[1] # x
  <2>1. d[1] \in off' <=> d[1] \in off
    BY <1>2 DEF Begin
  <2> QED
    BY <1>1, <2>1 DEF Cuts, Coming
<1>3. CASE d[1] = x
  <2>1. size[d] = 0 /\ kept[d] = 0 /\ d \notin truncated /\ write[d].pc = "idle"
    BY <1>3, Captures DEF Quiet, Begin, Go
  <2> QED
    BY <1>1, <2>1 DEF Coming
<1> QED
  BY <1>2, <1>3

\* Who begins has nothing of what it is quiet about; nobody else begins.
LEMMA BeginQuiet ==
  ASSUME NEW x \in Exchange, TypeOK, Quiet, Begin(x)
  PROVE  Quiet'
<1>1. /\ size' = size /\ kept' = kept /\ truncated' = truncated /\ write' = write
      /\ at' = [at EXCEPT ![x] = "trip"] /\ at[x] = "none"
  BY DEF Begin, captures, Go
<1>2. ASSUME NEW y \in Exchange
      PROVE  (/\ write[Resp(y)].pc # "idle" => at[y] = "copy"
              /\ at[y] = "none" =>
                   /\ body[y] = "closed"
                   /\ \A c \in {Req(y), Resp(y)} :
                        size[c] = 0 /\ kept[c] = 0 /\ c \notin truncated /\ write[c].pc = "idle")'
  <2>1. CASE y = x
    BY <1>1, <2>1 DEF Quiet, TypeOK
  <2>2. CASE y # x
    <3>1. at'[y] = at[y] /\ body'[y] = body[y]
      BY <1>1, <2>2 DEF Begin, TypeOK
    <3> QED
      BY <1>1, <1>2, <3>1 DEF Quiet, Resp, Req
  <2> QED
    BY <2>1, <2>2
<1> QED
  BY <1>2 DEF Quiet

LEMMA MovesQuiet ==
  ASSUME NEW x \in Exchange, TypeOK, Quiet, Moves(x)
  PROVE  Quiet'
<1>1. size' = size /\ kept' = kept /\ truncated' = truncated /\ write' = write
  BY MovesLeaveData DEF Data
<1>2. \/ at' = at
      \/ \E to \in {"copy", "panic", "store"} \cup After :
           /\ at' = [at EXCEPT ![x] = to] /\ at[x] # "none"
           /\ at[x] = "copy" => write[Resp(x)].pc = "idle"
  BY NoWriteIsOne
  DEF Moves, Responds, BadStatus, RequestEnds, Finishes, SizesRequest, StoresRequest, Zeroes,
      StoresResponse, Deferred, Go, After
<1>3. body' = body \/ body' = [body EXCEPT ![x] = "closed"]
  BY DEF Moves, Responds, BadStatus, RequestEnds, Finishes, SizesRequest, StoresRequest, Zeroes,
         StoresResponse, Deferred
<1>4. ASSUME NEW y \in Exchange
      PROVE  (/\ write[Resp(y)].pc # "idle" => at[y] = "copy"
              /\ at[y] = "none" =>
                   /\ body[y] = "closed"
                   /\ \A c \in {Req(y), Resp(y)} :
                        size[c] = 0 /\ kept[c] = 0 /\ c \notin truncated /\ write[c].pc = "idle")'
  <2>1. at[y] = "none" <=> at'[y] = "none"
    BY <1>2 DEF TypeOK, After
  <2>2. at'[y] = "none" => body'[y] = "closed"
    BY <1>3, <2>1 DEF TypeOK, Quiet
  <2>3. write[Resp(y)].pc # "idle" => at'[y] = "copy"
    BY <1>2 DEF TypeOK, Quiet
  <2> QED
    BY <1>1, <2>1, <2>2, <2>3 DEF Quiet, Resp, Req
<1> QED
  BY <1>4 DEF Quiet

\* A Write is of an exchange that has begun, and if of a response, by its copy.
LEMMA WriteQuiet ==
  ASSUME NEW x \in Exchange, NEW c \in {Req(x), Resp(x)}, TypeOK, Quiet, Steps(c),
         at' = at, body' = body, at[x] # "none", c = Resp(x) => at[x] = "copy"
  PROVE  Quiet'
<1>1. c \in Capt
  BY Captures
<1>2. \A d \in Capt \ {c} : Same(d)
  BY <1>1, OthersSame DEF TypeOK, TypeOfData
<1>3. ASSUME NEW y \in Exchange
      PROVE  (/\ write[Resp(y)].pc # "idle" => at[y] = "copy"
              /\ at[y] = "none" =>
                   /\ body[y] = "closed"
                   /\ \A d \in {Req(y), Resp(y)} :
                        size[d] = 0 /\ kept[d] = 0 /\ d \notin truncated /\ write[d].pc = "idle")'
  <2>1. Req(y) \in Capt /\ Resp(y) \in Capt
    BY Captures
  <2>2. CASE y = x
    <3>1. at[x] = "copy" \/ c # Resp(x)
      OBVIOUS
    <3>2. c # Resp(x) => write'[Resp(x)] = write[Resp(x)]
      BY <1>2, <2>1, <2>2 DEF Same
    <3> QED
      BY <2>2, <3>1, <3>2 DEF Quiet
  <2>3. CASE y # x
    <3>1. c # Req(y) /\ c # Resp(y)
      BY <2>3, Captures
    <3>2. Same(Req(y)) /\ Same(Resp(y))
      BY <1>2, <2>1, <3>1
    <3> QED
      BY <3>2 DEF Quiet, Same
  <2> QED
    BY <2>2, <2>3
<1> QED
  BY <1>3 DEF Quiet

-----------------------------------------------------------------------------
(* What is recorded.                                                       *)

LEMMA RecordFields ==
  ASSUME NEW c
  PROVE  /\ Record(c).captured = kept[c] /\ Record(c).size = size[c]
         /\ (Record(c).truncated <=> c \in truncated)
<1>1. Record(c).captured = kept[c] /\ Record(c).size = size[c]
  BY DEF Record
<1>2. Record(c).truncated = (c \in truncated)
  BY Zenon DEF Record
<1> QED
  BY <1>1, <1>2

\* A record stays true as long as neither it nor its captures change.
LEMMA RecordStays ==
  ASSUME NEW x \in Exchange, RecordedOf(x), at'[x] = at[x],
         ref'[Req(x)] = ref[Req(x)], ref'[Resp(x)] = ref[Resp(x)],
         Same(Req(x)), Same(Resp(x))
  PROVE  RecordedOf(x)'
BY DEF RecordedOf, Same, Stored, Req, Resp

\* Whoever writes to a request that has been stored is late.
LEMMA WriteRecorded ==
  ASSUME NEW x \in Exchange, NEW c \in {Req(x), Resp(x)}, TypeOK, Recorded, Steps(c),
         at' = at, ref' = ref, late \subseteq late', Stored(x) => x \in late'
  PROVE  Recorded'
<1>1. c \in Capt
  BY Captures
<1>2. \A d \in Capt \ {c} : Same(d)
  BY <1>1, OthersSame DEF TypeOK, TypeOfData
<1>3. ASSUME NEW y \in Exchange \ late'
      PROVE  RecordedOf(y)'
  <2>1. CASE y = x
    BY <1>3, <2>1 DEF RecordedOf, Stored, After
  <2>2. CASE y # x
    <3>1. Same(Req(y)) /\ Same(Resp(y))
      BY <1>2, <2>2, Captures
    <3>2. RecordedOf(y)
      BY <1>3 DEF Recorded
    <3> QED
      BY <3>1, <3>2, RecordStays
  <2> QED
    BY <2>1, <2>2
<1> QED
  BY <1>3 DEF Recorded

\* A move is a change of place alone, before anything is recorded; or it records, or
\* goes on, and is late if a Write is under way.
LEMMA MovesRecorded ==
  ASSUME NEW x \in Exchange, TypeOK, Recorded, Moves(x)
  PROVE  Recorded'
<1>1. size' = size /\ kept' = kept /\ truncated' = truncated /\ write' = write
  BY MovesLeaveData DEF Data
<1>2. \A y \in Exchange \ {x} :
        /\ at'[y] = at[y] /\ (y \in late' <=> y \in late)
        /\ ref'[Req(y)] = ref[Req(y)] /\ ref'[Resp(y)] = ref[Resp(y)]
  <2>1. at' = at \/ \E to : at' = [at EXCEPT ![x] = to]
    BY DEF Moves, Responds, BadStatus, RequestEnds, Finishes, SizesRequest, StoresRequest, Zeroes,
           StoresResponse, Deferred, Go
  <2>2. late' = late \/ late' = late \cup {x}
    BY DEF Moves, Responds, BadStatus, RequestEnds, Finishes, SizesRequest, StoresRequest, Zeroes,
           StoresResponse, Deferred, Overlaps
  <2>3. ref' = ref \/ \E r : \/ ref' = [ref EXCEPT ![Req(x)] = r]
                            \/ ref' = [ref EXCEPT ![Resp(x)] = r]
    BY DEF Moves, Responds, BadStatus, RequestEnds, Finishes, SizesRequest, StoresRequest, Zeroes,
           StoresResponse, Deferred
  <2>4. ASSUME NEW y \in Exchange \ {x}
        PROVE  ref'[Req(y)] = ref[Req(y)] /\ ref'[Resp(y)] = ref[Resp(y)]
    BY <2>3, Captures DEF TypeOK
  <2> QED
    BY <2>1, <2>2, <2>4 DEF TypeOK
<1>3. \A d \in Capt : Same(d)
  BY <1>1 DEF Same
<1>4. ASSUME NEW y \in Exchange \ late', y # x
      PROVE  RecordedOf(y)'
  <2>1. RecordedOf(y)
    BY <1>2, <1>4 DEF Recorded
  <2> QED
    BY <1>2, <1>3, <1>4, <2>1, Captures, RecordStays
<1>5. ASSUME x \notin late'
      PROVE  RecordedOf(x)'
  <2>1. CASE Responds(x) \/ BadStatus(x) \/ Finishes(x)
    <3>1. at'[x] \in {"copy", "panic", "store"}
      BY <2>1 DEF Responds, BadStatus, Finishes, Go, TypeOK
    <3> QED
      BY <3>1 DEF RecordedOf, Stored, After
  <2>2. CASE RequestEnds(x)
    <3>1. RecordedOf(x) /\ at' = at /\ ref' = ref
      BY <1>5, <2>2 DEF RequestEnds, Recorded
    <3> QED
      BY <1>3, <3>1, Captures, RecordStays
  <2>3. CASE SizesRequest(x)
    <3>1. at'[x] = "bytes" /\ write[Req(x)].pc = "idle"
      BY <1>5, <2>3, NoWriteIsOne DEF SizesRequest, Go, Overlaps, TypeOK
    <3>2. ref'[Req(x)] = [Record(Req(x)) EXCEPT !.captured = 0]
      BY <2>3, Captures DEF SizesRequest, TypeOK
    <3>3. ref'[Req(x)].size = size[Req(x)] /\ (ref'[Req(x)].truncated <=> Req(x) \in truncated)
      BY <3>2 DEF Record
    <3> QED
      BY <1>1, <3>1, <3>3 DEF RecordedOf, After, Req
  <2>4. CASE StoresRequest(x)
    <3>1. /\ at[x] = "bytes" /\ at'[x] = "zero" /\ x \notin late
          /\ write[Req(x)].pc = "idle"
      BY <1>5, <2>4, NoWriteIsOne DEF StoresRequest, Go, Overlaps, TypeOK
    <3>2. ref[Req(x)].size = size[Req(x)] /\ (ref[Req(x)].truncated <=> Req(x) \in truncated)
      BY <3>1 DEF Recorded, RecordedOf, After
    <3>3. /\ ref'[Req(x)].captured = kept[Req(x)] /\ ref'[Req(x)].size = ref[Req(x)].size
          /\ ref'[Req(x)].truncated = ref[Req(x)].truncated
      BY <2>4, Captures DEF StoresRequest, TypeOK
    <3> QED
      BY <1>1, <3>1, <3>2, <3>3 DEF RecordedOf, After, Req
  <2>5. CASE Zeroes(x)
    <3>1. at[x] = "zero" /\ at'[x] = "store resp" /\ x \notin late /\ ref' = ref
      BY <1>5, <2>5 DEF Zeroes, Go, TypeOK
    <3>2. RecordedOf(x)
      BY <3>1 DEF Recorded
    <3> QED
      BY <1>1, <3>1, <3>2 DEF RecordedOf, Stored, After, Req
  <2>6. CASE StoresResponse(x)
    <3>1. /\ at[x] = "store resp" /\ at'[x] = "done" /\ x \notin late
          /\ ref' = [ref EXCEPT ![Resp(x)] = Record(Resp(x))]
      BY <1>5, <2>6 DEF StoresResponse, Go, TypeOK
    <3>2. RecordedOf(x)
      BY <3>1 DEF Recorded
    <3>3. ref'[Resp(x)] = Record(Resp(x)) /\ ref'[Req(x)] = ref[Req(x)]
      BY <3>1, Captures DEF TypeOK
    <3>4. /\ ref'[Resp(x)].captured = kept[Resp(x)] /\ ref'[Resp(x)].size = size[Resp(x)]
          /\ (ref'[Resp(x)].truncated <=> Resp(x) \in truncated)
      BY <3>3, RecordFields
    <3> QED
      BY <1>1, <3>1, <3>2, <3>3, <3>4 DEF RecordedOf, Stored, After, Req, Resp
  <2>7. CASE Deferred(x, "done", "over") \/ Deferred(x, "panic", "aborted")
    <3>1. /\ x \notin late /\ write[Req(x)].pc = "idle" /\ ref' = ref
          /\ \/ at[x] = "done" /\ at'[x] = "over"
             \/ at'[x] = "aborted"
      BY <1>5, <2>7, NoWriteIsOne DEF Deferred, Go, Overlaps, TypeOK
    <3>2. RecordedOf(x)
      BY <3>1 DEF Recorded
    <3> QED
      BY <1>1, <3>1, <3>2 DEF RecordedOf, Stored, After, Req, Resp
  <2> QED
    BY <2>1, <2>2, <2>3, <2>4, <2>5, <2>6, <2>7 DEF Moves
<1> QED
  BY <1>4, <1>5 DEF Recorded

LEMMA BeginRecorded ==
  ASSUME NEW x \in Exchange, TypeOK, Recorded, Begin(x)
  PROVE  Recorded'
<1>1. /\ size' = size /\ kept' = kept /\ truncated' = truncated /\ write' = write
      /\ ref' = ref /\ late' = late /\ at' = [at EXCEPT ![x] = "trip"]
  BY DEF Begin, captures, Go
<1>2. ASSUME NEW y \in Exchange \ late'
      PROVE  RecordedOf(y)'
  <2>1. CASE y = x
    <3>1. at'[y] = "trip"
      BY <1>1, <2>1 DEF TypeOK
    <3> QED
      BY <3>1 DEF RecordedOf, Stored, After
  <2>2. CASE y # x
    <3>1. RecordedOf(y) /\ at'[y] = at[y]
      BY <1>1, <1>2, <2>2 DEF Recorded, TypeOK
    <3> QED
      BY <1>1, <3>1, RecordStays DEF Same
  <2> QED
    BY <2>1, <2>2
<1> QED
  BY <1>2 DEF Recorded

-----------------------------------------------------------------------------
(* The invariant, step by step.                                            *)

Refs == [captured : 0..MaxBody, size : 0..MaxRead, truncated : BOOLEAN]

LEMMA RecordTypes ==
  ASSUME NEW c \in Capt, TypeOK
  PROVE  Record(c) \in Refs /\ [Record(c) EXCEPT !.captured = 0] \in Refs
<1>1. kept[c] \in 0..MaxBody /\ size[c] \in 0..MaxRead /\ 0 \in 0..MaxBody
  BY ConstantsAssumption DEF ConstantsAssumption, TypeOK
<1>2. (c \in truncated) \in BOOLEAN
  OBVIOUS
<1>3. Record(c) \in Refs
  BY <1>1, <1>2, Zenon DEF Record, Refs
<1> QED
  BY <1>1, <1>3 DEF Refs

LEMMA MovesTypes ==
  ASSUME NEW x \in Exchange, TypeOK, Moves(x)
  PROVE  TypeOK'
<1>1. size' = size /\ kept' = kept /\ truncated' = truncated /\ write' = write /\ off' = off
  BY MovesLeaveData DEF Data
<1>2. at' \in [Exchange -> Before \cup After]
  BY ZenonT(60) DEF Moves, Responds, BadStatus, RequestEnds, Finishes, SizesRequest, StoresRequest, Zeroes,
         StoresResponse, Deferred, Go, TypeOK, Before, After
<1>3. body' \in [Exchange -> {"open", "closed"}] /\ late' \subseteq Exchange
  BY DEF Moves, Responds, BadStatus, RequestEnds, Finishes, SizesRequest, StoresRequest, Zeroes,
         StoresResponse, Deferred, Overlaps, TypeOK
<1>4. reserved' \in [Capt -> Nat]
  <2>1. \/ reserved' = reserved \/ reserved' = [reserved EXCEPT ![Req(x)] = 0]
        \/ reserved' = [reserved EXCEPT ![Resp(x)] = 0]
    BY DEF Moves, Responds, BadStatus, RequestEnds, Finishes, SizesRequest, StoresRequest, Zeroes,
           StoresResponse, Deferred, captures
  <2> QED
    BY <2>1 DEF TypeOK
<1>5. used' \in Int
  <2>1. reserved[Req(x)] \in Nat /\ reserved[Resp(x)] \in Nat
    BY Captures DEF TypeOK
  <2>2. \/ used' = used \/ used' = used - reserved[Req(x)] \/ used' = used - reserved[Resp(x)]
        \/ used' = used - (reserved[Req(x)] + reserved[Resp(x)])
    BY DEF Moves, Responds, BadStatus, RequestEnds, Finishes, SizesRequest, StoresRequest, Zeroes,
           StoresResponse, Deferred, captures
  <2> QED
    BY <2>1, <2>2 DEF TypeOK
<1>6. ref' \in [Capt -> Refs]
  <2>1. ref \in [Capt -> Refs]
    BY DEF TypeOK, Refs
  <2>2. CASE ref' = ref
    BY <2>1, <2>2
  <2>3. CASE SizesRequest(x)
    <3>1. ref' = [ref EXCEPT ![Req(x)] = [Record(Req(x)) EXCEPT !.captured = 0]]
      BY <2>3 DEF SizesRequest
    <3>2. [Record(Req(x)) EXCEPT !.captured = 0] \in Refs
      BY Captures, RecordTypes
    <3> QED
      BY <2>1, <3>1, <3>2
  <2>4. CASE StoresRequest(x)
    <3>1. ref' = [ref EXCEPT ![Req(x)].captured = kept[Req(x)]]
      BY <2>4 DEF StoresRequest
    <3>2. kept[Req(x)] \in 0..MaxBody
      BY Captures DEF TypeOK
    <3>3. ref[Req(x)] \in Refs
      BY <2>1, Captures
    <3>4. [ref[Req(x)] EXCEPT !.captured = kept[Req(x)]] \in Refs
      BY <3>2, <3>3 DEF Refs
    <3> QED
      BY <2>1, <3>1, <3>4
  <2>5. CASE StoresResponse(x)
    <3>1. ref' = [ref EXCEPT ![Resp(x)] = Record(Resp(x))]
      BY <2>5 DEF StoresResponse
    <3>2. Record(Resp(x)) \in Refs
      BY Captures, RecordTypes
    <3> QED
      BY <2>1, <3>1, <3>2
  <2> QED
    BY <2>2, <2>3, <2>4, <2>5
    DEF Moves, Responds, BadStatus, RequestEnds, Finishes, Zeroes, Deferred
<1> QED
  BY <1>1, <1>2, <1>3, <1>4, <1>5, <1>6 DEF TypeOK, Refs

LEMMA InvStep ==
  ASSUME Inv, [Next]_vars
  PROVE  Inv'
<1>1. CASE UNCHANGED vars
  <2>1. TypeOK' /\ Quiet'
    BY <1>1 DEF Inv, TypeOK, Quiet, vars, captures, Req, Resp
  <2>2. Fits' /\ Cuts'
    BY <1>1, DataStays DEF Inv, Data, vars, captures
  <2>3. Recorded'
    BY <1>1 DEF Inv, Recorded, RecordedOf, Stored, vars, captures, Req, Resp
  <2> QED
    BY <2>1, <2>2, <2>3 DEF Inv
<1>2. ASSUME NEW x \in Exchange, Begin(x)
      PROVE  Inv'
  <2>1. TypeOK'
    BY <1>2 DEF Inv, TypeOK, Begin, Go, Before, captures
  <2>2. Fits'
    BY <1>2 DEF Inv, Begin, captures, Fits
  <2> QED
    BY <1>2, <2>1, <2>2, BeginCuts, BeginQuiet, BeginRecorded DEF Inv
<1>3. ASSUME NEW x \in Exchange, Moves(x)
      PROVE  Inv'
  BY <1>3, MovesTypes, MovesLeaveData, DataStays, MovesQuiet, MovesRecorded DEF Inv
<1>4. ASSUME NEW x \in Exchange, NEW c \in {Req(x), Resp(x)}, Steps(c),
             at' = at, body' = body, off' = off, ref' = ref,
             late \subseteq late', late' \subseteq late \cup {x},
             at[x] # "none", c = Resp(x) => at[x] = "copy", Stored(x) => x \in late'
      PROVE  Inv'
  <2>1. c \in Capt
    BY Captures
  <2>2. TypeOfData' /\ Fits' /\ Cuts'
    BY <1>4, <2>1, WriteTypes, WriteFits, WriteCuts DEF Inv, TypeOK, TypeOfData
  <2>3. TypeOK'
    BY <1>4, <2>2 DEF Inv, TypeOK, TypeOfData
  <2>4. Quiet' /\ Recorded'
    BY <1>4, WriteQuiet, WriteRecorded DEF Inv
  <2> QED
    BY <2>2, <2>3, <2>4 DEF Inv
<1>5. ASSUME NEW x \in Exchange, NEW n \in Chunk, ReadsRequest(x, n)
      PROVE  Inv'
  <2>1. Steps(Req(x)) /\ Req(x) # Resp(x) /\ at[x] # "none"
    BY <1>5, Captures DEF ReadsRequest, Steps, Inv, Quiet
  <2> QED
    BY <1>4, <1>5, <2>1 DEF ReadsRequest
<1>6. ASSUME NEW x \in Exchange, NEW n \in Chunk, Copies(x, n)
      PROVE  Inv'
  <2>1. Steps(Resp(x)) /\ at[x] = "copy" /\ ~Stored(x)
    BY <1>6 DEF Copies, Steps, Stored, After
  <2> QED
    BY <1>4, <1>6, <2>1 DEF Copies
<1>7. ASSUME NEW x \in Exchange, RequestGoesOn(x)
      PROVE  Inv'
  <2>1. Steps(Req(x)) /\ Req(x) # Resp(x) /\ write[Req(x)].pc # "idle"
    BY <1>7, Captures DEF RequestGoesOn, Steps, GoesOn, Denied, Keeps
  <2>2. at[x] # "none" /\ (Stored(x) => x \in late)
    BY <2>1 DEF Inv, Quiet, Recorded, RecordedOf
  <2> QED
    BY <1>4, <1>7, <2>1, <2>2 DEF RequestGoesOn
<1>8. ASSUME NEW x \in Exchange, CopyGoesOn(x)
      PROVE  Inv'
  <2>1. Steps(Resp(x)) /\ write[Resp(x)].pc # "idle"
    BY <1>8 DEF CopyGoesOn, Steps, GoesOn, Denied, Keeps
  <2>2. at[x] = "copy" /\ ~Stored(x)
    BY <2>1 DEF Inv, Quiet, Stored, After
  <2> QED
    BY <1>4, <1>8, <2>1, <2>2 DEF CopyGoesOn
<1> QED
  BY <1>1, <1>2, <1>3, <1>5, <1>6, <1>7, <1>8, NextByCase

LEMMA InvInit == Init => Inv
<1> SUFFICES ASSUME Init PROVE Inv
  OBVIOUS
<1>1. TypeOK
  BY NoWriteIsOne, ConstantsAssumption DEF ConstantsAssumption, Init, TypeOK, Before
<1>2. Fits /\ Cuts
  BY NoWriteIsOne, ConstantsAssumption DEF ConstantsAssumption, Init, Fits, Cuts, Coming
<1>3. Quiet
  BY NoWriteIsOne, Captures DEF Init, Quiet
<1>4. Recorded
  BY DEF Init, Recorded, RecordedOf, Stored, After
<1> QED
  BY <1>1, <1>2, <1>3, <1>4 DEF Inv

LEMMA InvHolds == Spec => []Inv
BY InvInit, InvStep, PTL DEF Spec

-----------------------------------------------------------------------------
(* The budget.                                                             *)

LEMMA FinitelyMany == IsFiniteSet(Capt)
<1>1. IsFiniteSet({"req", "resp"})
  <2>1. {"req", "resp"} = {} \cup {"req"} \cup {"resp"}
    OBVIOUS
  <2> QED
    <3>1. IsFiniteSet({} \cup {"req"})
      BY FS_EmptySet, FS_AddElement, Zenon
    <3>2. IsFiniteSet({} \cup {"req"} \cup {"resp"})
      BY <3>1, FS_AddElement, Zenon
    <3> QED
      BY <2>1, <3>2, Zenon
<1> QED
  BY <1>1, FS_Product, ConstantsAssumption DEF ConstantsAssumption, Capt

\* What a capture has and claims are numbers, and it claims no more than it has.
LEMMA ClaimsAreHeld ==
  ASSUME TypeOK
  PROVE  /\ \A c \in Capt : /\ Holds(c) \in Nat /\ Claim(c) \in Nat
                            /\ Pending(c) \in Nat /\ Pending(c) <= Claim(c)
                            /\ write[c].n \in Nat /\ reserved[c] \in Nat /\ kept[c] \in Nat
         /\ (\A c \in Capt : reserved[c] = IF Zeroed(c) THEN 0 ELSE kept[c]) =>
              \A c \in Capt : Claim(c) <= Holds(c)
<1>1. ASSUME NEW c \in Capt
      PROVE  /\ write[c].n \in Nat /\ reserved[c] \in Nat /\ kept[c] \in Nat
             /\ Holds(c) \in Nat
             /\ Coming(c) \in Nat /\ Coming(c) <= write[c].n
             /\ Pending(c) \in {0, kept[c]}
  <2>1. write[c].n \in Nat /\ reserved[c] \in Nat /\ kept[c] \in Nat
    BY ConstantsAssumption DEF ConstantsAssumption, TypeOK, Writes
  <2>2. Pending(c) \in {0, kept[c]}
    BY DEF Pending
  <2> QED
    BY <2>1, <2>2 DEF Holds, Coming
<1>2. ASSUME NEW c \in Capt
      PROVE  Claim(c) \in Nat /\ Pending(c) \in Nat /\ Pending(c) <= Claim(c)
  BY <1>1 DEF Claim
<1>3. ASSUME NEW c \in Capt, reserved[c] = IF Zeroed(c) THEN 0 ELSE kept[c]
      PROVE  Claim(c) <= Holds(c)
  <2>1. CASE Zeroed(c) \/ Releasing(c)
    <3>1. Pending(c) = 0
      BY <2>1, Captures DEF Zeroed, Releasing, Pending, After
    <3> QED
      BY <1>1, <3>1 DEF Claim, Holds
  <2>2. CASE ~(Zeroed(c) \/ Releasing(c))
    <3>1. Holds(c) = kept[c] + write[c].n
      BY <1>3, <2>2 DEF Holds
    <3> QED
      BY <1>1, <3>1 DEF Claim
  <2> QED
    BY <2>1, <2>2
<1> QED
  BY <1>1, <1>2, <1>3

Numbers == \A c \in Capt : Holds(c) \in Nat /\ Claim(c) \in Nat

LEMMA HeldAreNumbers == TypeOK => Numbers
BY ClaimsAreHeld DEF Numbers

\* If one capture's holding changes as the counter does, and its claim by what is
\* left of the budget or less, the accounts are in order.
LEMMA AccountsOfOne ==
  ASSUME TypeOK, TypeOK', NEW c \in Capt,
         \A d \in Capt \ {c} : Holds(d)' = Holds(d) /\ Claim(d)' = Claim(d),
         used = SumFunctionOnSet(AllHolds, Capt),
         SumFunctionOnSet(AllClaims, Capt) <= Budget,
         \A d \in Capt : reserved[d] = IF Zeroed(d) THEN 0 ELSE kept[d],
         used' + Holds(c) = used + Holds(c)',
         \/ Claim(c)' <= Claim(c)
         \/ used' <= Budget /\ Claim(c)' - Claim(c) <= Holds(c)' - Holds(c)
  PROVE  used' = SumFunctionOnSet(AllHolds', Capt) /\ SumFunctionOnSet(AllClaims', Capt) <= Budget
<1> DEFINE h == AllHolds
           hh == AllHolds'
           k == AllClaims
           kk == AllClaims'
<1>1. \A d \in Capt : /\ h[d] = Holds(d) /\ hh[d] = Holds(d)'
                      /\ k[d] = Claim(d) /\ kk[d] = Claim(d)'
  BY DEF AllHolds, AllClaims
<1>2. \A d \in Capt : Holds(d) \in Nat /\ Claim(d) \in Nat /\ Claim(d) <= Holds(d)
  BY ClaimsAreHeld
<1>3. \A d \in Capt : Holds(d)' \in Nat /\ Claim(d)' \in Nat
  <2>1. Numbers'
    BY HeldAreNumbers, PTL
  <2> QED
    BY <2>1 DEF Numbers
<1>4. /\ \A d \in Capt : h[d] \in Nat /\ hh[d] \in Nat /\ k[d] \in Nat /\ kk[d] \in Nat /\ k[d] <= h[d]
      /\ \A d \in Capt \ {c} : h[d] = hh[d] /\ k[d] = kk[d]
  BY <1>1, <1>2, <1>3
<1> HIDE DEF h, hh, k, kk
<1>5. SumFunctionOnSet(hh, Capt) + h[c] = SumFunctionOnSet(h, Capt) + hh[c]
  BY <1>4, FinitelyMany, SumChanges
<1>6. SumFunctionOnSet(kk, Capt) + k[c] = SumFunctionOnSet(k, Capt) + kk[c]
  BY <1>4, FinitelyMany, SumChanges
<1>7. SumFunctionOnSet(k, Capt) <= SumFunctionOnSet(h, Capt)
  BY <1>4, FinitelyMany, SumBelow
<1>8. /\ SumFunctionOnSet(h, Capt) \in Nat /\ SumFunctionOnSet(hh, Capt) \in Nat
      /\ SumFunctionOnSet(k, Capt) \in Nat /\ SumFunctionOnSet(kk, Capt) \in Nat
  BY <1>4, FinitelyMany, SumSteps
<1>9. used \in Int /\ used' \in Int /\ Budget \in Nat
  BY ConstantsAssumption DEF ConstantsAssumption, TypeOK
<1>10. /\ h[c] \in Nat /\ hh[c] \in Nat /\ k[c] \in Nat /\ kk[c] \in Nat
       /\ used' + h[c] = used + hh[c]
       /\ kk[c] <= k[c] \/ (used' <= Budget /\ kk[c] - k[c] <= hh[c] - h[c])
  BY <1>1, <1>4
<1>11. used = SumFunctionOnSet(h, Capt) /\ SumFunctionOnSet(k, Capt) <= Budget
  BY DEF h, k
<1>12. used' = SumFunctionOnSet(hh, Capt)
  BY <1>5, <1>8, <1>9, <1>10, <1>11
<1>13. SumFunctionOnSet(kk, Capt) <= Budget
  BY <1>6, <1>7, <1>8, <1>9, <1>10, <1>11
<1> QED
  BY <1>12, <1>13 DEF hh, kk

\* Before anything is stored a capture has what it keeps and asks for.
LEMMA BeforeStored ==
  ASSUME NEW c \in Capt, at[c[1]] \in Before
  PROVE  /\ Holds(c) = reserved[c] + write[c].n /\ Claim(c) = kept[c] + Coming(c)
         /\ ~Zeroed(c)
BY DEF Before, Holds, Releasing, Claim, Pending, Zeroed, After

\* The counter follows the capture, what it claims stays within the budget, and
\* what it has is what it keeps.
Settles(c) ==
  /\ used' + Holds(c) = used + Holds(c)'
  /\ \/ Claim(c)' <= Claim(c)
     \/ used' <= Budget /\ Claim(c)' - Claim(c) <= Holds(c)' - Holds(c)
  /\ reserved'[c] = kept'[c]
  /\ write'[c].pc # "idle" => write'[c].had = reserved'[c]

\* A Write takes of the budget what it asks, and gives back what is denied.
LEMMA WriteAccounts ==
  ASSUME NEW c \in Capt, Inv, TypeOK', Accounts, Steps(c), at' = at, late = {},
         at[c[1]] \in Before
  PROVE  Accounts'
<1> USE ConstantsAssumption DEF ConstantsAssumption
<1>1. TypeOfData /\ TypeOK /\ Fits
  BY DEF Inv, TypeOK, TypeOfData
<1>2. ASSUME NEW d \in Capt \ {c}
      PROVE  Same(d) /\ reserved'[d] = reserved[d]
  <2>1. Same(d)
    BY <1>1, OthersSame
  <2>2. reserved' = reserved \/ \E r : reserved' = [reserved EXCEPT ![c] = r]
    BY DEF Steps, Write, GoesOn, Denied, Keeps
  <2> QED
    BY <1>1, <2>1, <2>2 DEF TypeOfData
<1>3. \A d \in Capt \ {c} :
        /\ Holds(d)' = Holds(d) /\ Claim(d)' = Claim(d) /\ Zeroed(d)' = Zeroed(d)
        /\ reserved'[d] = reserved[d] /\ kept'[d] = kept[d] /\ write'[d] = write[d]
  BY <1>2 DEF Same, Holds, Releasing, Claim, Pending, Coming, Zeroed
<1>4. /\ used = SumFunctionOnSet(AllHolds, Capt)
      /\ SumFunctionOnSet(AllClaims, Capt) <= Budget
      /\ \A d \in Capt :
           /\ reserved[d] = IF Zeroed(d) THEN 0 ELSE kept[d]
           /\ write[d].pc # "idle" => write[d].had = reserved[d]
  BY DEF Accounts
<1>5. /\ Holds(c) = reserved[c] + write[c].n /\ Claim(c) = kept[c] + Coming(c)
      /\ ~Zeroed(c) /\ reserved[c] = kept[c]
  BY <1>4, BeforeStored
<1>6. /\ Holds(c)' = reserved'[c] + write'[c].n /\ Claim(c)' = kept'[c] + Coming(c)'
      /\ ~Zeroed(c)'
  BY DEF Before, Holds, Releasing, Claim, Pending, Zeroed, After
<1>7. /\ reserved[c] \in Nat /\ kept[c] \in Nat /\ write[c].n \in Nat /\ used \in Int
      /\ Coming(c) = IF write[c].pc = "granted" THEN write[c].n ELSE 0
      /\ Coming(c)' = IF write'[c].pc = "granted" THEN write'[c].n ELSE 0
      /\ write[c].pc = "idle" => write[c].n = 0
  BY <1>1, NoWriteIsOne DEF TypeOfData, Writes, Coming, Fits
<1>8. SUFFICES Settles(c)
  <2>1. used' = SumFunctionOnSet(AllHolds', Capt) /\ SumFunctionOnSet(AllClaims', Capt) <= Budget
    BY <1>1, <1>3, <1>4, <1>8, AccountsOfOne DEF Settles
  <2>2. \A d \in Capt :
          /\ reserved'[d] = IF Zeroed(d)' THEN 0 ELSE kept'[d]
          /\ write'[d].pc # "idle" => write'[d].had = reserved'[d]
    BY <1>3, <1>4, <1>6, <1>8 DEF Settles
  <2> QED
    BY <2>1, <2>2 DEF Accounts
<1>9. ASSUME NEW n \in Chunk, Write(c, n), Asks(c)
      PROVE  Settles(c)
  <2> DEFINE take == Least(n, Room(c))
  <2>1. /\ write[c].pc = "idle" /\ used' = used + take
        /\ kept' = kept /\ reserved' = reserved
        /\ write'[c] = [pc |-> IF used + take > Budget THEN "denied" ELSE "granted",
                        n |-> take, had |-> reserved[c]]
    BY <1>1, <1>9 DEF Write, TypeOfData
  <2>2. take \in Nat
    BY <1>1, Takes
  <2> HIDE DEF take
  <2> QED
    BY <1>5, <1>6, <1>7, <2>1, <2>2 DEF Settles
<1>10. ASSUME NEW n \in Chunk, Write(c, n), ~Asks(c)
       PROVE  Settles(c)
  BY <1>4, <1>5, <1>6, <1>7, <1>10 DEF Write, Settles
<1>11. ASSUME Denied(c)
       PROVE  Settles(c)
  <2>1. /\ write[c].pc = "denied" /\ used' = used - write[c].n
        /\ kept' = kept /\ reserved' = reserved /\ write'[c] = NoWrite
    BY <1>1, <1>11 DEF Denied, TypeOfData
  <2> QED
    BY <1>5, <1>6, <1>7, <2>1, NoWriteIsOne DEF Settles
<1>12. ASSUME Keeps(c)
       PROVE  Settles(c)
  <2>1. /\ write[c].pc = "granted" /\ write[c].had = reserved[c] /\ used' = used
        /\ kept'[c] = kept[c] + write[c].n /\ write'[c] = NoWrite
    BY <1>1, <1>4, <1>12 DEF Keeps, TypeOfData
  <2>2. reserved'[c] = reserved[c] + write[c].n
    BY <1>1, <1>12, <2>1 DEF Keeps, TypeOfData
  <2> QED
    BY <1>5, <1>6, <1>7, <2>1, <2>2, NoWriteIsOne DEF Settles
<1> QED
  BY <1>9, <1>10, <1>11, <1>12 DEF Steps, GoesOn

\* If two captures' holdings change as the counter does, and no claim grows, the
\* accounts are in order.
LEMMA AccountsOfTwo ==
  ASSUME TypeOK, TypeOK', NEW a \in Capt, NEW b \in Capt, a # b,
         \A d \in Capt \ {a, b} : Holds(d)' = Holds(d),
         \A d \in Capt : Claim(d)' <= Claim(d),
         used = SumFunctionOnSet(AllHolds, Capt),
         SumFunctionOnSet(AllClaims, Capt) <= Budget,
         used' + (Holds(a) + Holds(b)) = used + (Holds(a)' + Holds(b)')
  PROVE  used' = SumFunctionOnSet(AllHolds', Capt) /\ SumFunctionOnSet(AllClaims', Capt) <= Budget
<1> DEFINE h == AllHolds
           hh == AllHolds'
           k == AllClaims
           kk == AllClaims'
<1>1. \A d \in Capt : /\ h[d] = Holds(d) /\ hh[d] = Holds(d)'
                      /\ k[d] = Claim(d) /\ kk[d] = Claim(d)'
  BY DEF AllHolds, AllClaims
<1>2. Numbers
  BY HeldAreNumbers
<1>3. Numbers'
  BY HeldAreNumbers, PTL
<1>4. /\ \A d \in Capt : h[d] \in Nat /\ hh[d] \in Nat /\ k[d] \in Nat /\ kk[d] \in Nat /\ kk[d] <= k[d]
      /\ \A d \in Capt \ {a, b} : h[d] = hh[d]
      /\ used' + (h[a] + h[b]) = used + (hh[a] + hh[b])
  BY <1>1, <1>2, <1>3 DEF Numbers
<1> HIDE DEF h, hh, k, kk
<1>5. SumFunctionOnSet(hh, Capt) + (h[a] + h[b]) = SumFunctionOnSet(h, Capt) + (hh[a] + hh[b])
  BY <1>4, FinitelyMany, SumChangesTwice
<1>6. SumFunctionOnSet(kk, Capt) <= SumFunctionOnSet(k, Capt)
  BY <1>4, FinitelyMany, SumBelow
<1>7. /\ SumFunctionOnSet(h, Capt) \in Nat /\ SumFunctionOnSet(hh, Capt) \in Nat
      /\ SumFunctionOnSet(k, Capt) \in Nat /\ SumFunctionOnSet(kk, Capt) \in Nat
      /\ h[a] \in Nat /\ h[b] \in Nat /\ hh[a] \in Nat /\ hh[b] \in Nat
  BY <1>4, FinitelyMany, SumSteps
<1>8. used \in Int /\ used' \in Int /\ Budget \in Nat
  BY ConstantsAssumption DEF ConstantsAssumption, TypeOK
<1>9. used = SumFunctionOnSet(h, Capt) /\ SumFunctionOnSet(k, Capt) <= Budget
  BY DEF h, k
<1>10. used' = SumFunctionOnSet(hh, Capt)
  BY <1>4, <1>5, <1>7, <1>8, <1>9
<1>11. SumFunctionOnSet(kk, Capt) <= Budget
  BY <1>6, <1>7, <1>8, <1>9
<1> QED
  BY <1>10, <1>11 DEF hh, kk

\* A move goes from one place to a later one, and with what it releases.
MovesBy(x) ==
  \/ /\ at[x] \in Before \ {"panic"} /\ at'[x] \in Before \cup {"bytes"}
     /\ used' = used /\ reserved' = reserved
  \/ at'[x] = at[x] /\ used' = used /\ reserved' = reserved
  \/ /\ at[x] = "bytes" /\ at'[x] = "zero" /\ used' = used - reserved[Req(x)]
     /\ reserved' = reserved
  \/ /\ at[x] = "zero" /\ at'[x] = "store resp" /\ used' = used
     /\ reserved' = [reserved EXCEPT ![Req(x)] = 0]
  \/ /\ at[x] = "store resp" /\ at'[x] = "done" /\ used' = used - reserved[Resp(x)]
     /\ reserved' = [reserved EXCEPT ![Resp(x)] = 0]
  \/ /\ \/ at[x] = "done" /\ at'[x] = "over"
        \/ at[x] = "panic" /\ at'[x] = "aborted"
     /\ used' = used - (reserved[Req(x)] + reserved[Resp(x)])
     /\ reserved' = reserved

LEMMA MovesByPlace ==
  ASSUME NEW x \in Exchange, TypeOK, Moves(x)
  PROVE  /\ MovesBy(x)
         /\ \A y \in Exchange \ {x} : at'[y] = at[y]
         /\ late \subseteq late'
<1>1. CASE Responds(x) \/ BadStatus(x) \/ Finishes(x) \/ SizesRequest(x)
  BY <1>1 DEF Responds, BadStatus, Finishes, SizesRequest, Go, captures, TypeOK, MovesBy, Before,
              Overlaps
<1>2. CASE RequestEnds(x)
  BY <1>2 DEF RequestEnds, captures, MovesBy
<1>3. CASE StoresRequest(x)
  BY <1>3 DEF StoresRequest, Go, TypeOK, MovesBy, Overlaps
<1>4. CASE Zeroes(x)
  BY <1>4 DEF Zeroes, Go, TypeOK, MovesBy
<1>5. CASE StoresResponse(x)
  BY <1>5 DEF StoresResponse, Go, TypeOK, MovesBy
<1>6. CASE Deferred(x, "done", "over") \/ Deferred(x, "panic", "aborted")
  <2>1. /\ \/ at[x] = "done" /\ at' = [at EXCEPT ![x] = "over"]
           \/ at[x] = "panic" /\ at' = [at EXCEPT ![x] = "aborted"]
        /\ used' = used - (reserved[Req(x)] + reserved[Resp(x)])
        /\ reserved' = reserved /\ late \subseteq late'
    BY <1>6 DEF Deferred, Go, Overlaps
  <2>2. \/ at[x] = "done" /\ at'[x] = "over"
        \/ at[x] = "panic" /\ at'[x] = "aborted"
    BY <2>1 DEF TypeOK
  <2>3. \A y \in Exchange \ {x} : at'[y] = at[y]
    BY <2>1 DEF TypeOK
  <2> QED
    BY <2>1, <2>2, <2>3 DEF MovesBy
<1> QED
  BY <1>1, <1>2, <1>3, <1>4, <1>5, <1>6 DEF Moves

\* What is stored is released when, and as, the exchange lets go of it: once.
LEMMA MovesAccounts ==
  ASSUME NEW x \in Exchange, Inv, TypeOK', Accounts, Moves(x), late' = {}
  PROVE  Accounts'
<1> DEFINE R == Req(x)
           S == Resp(x)
<1>1. kept' = kept /\ write' = write
  BY MovesLeaveData DEF Data
<1>2. MovesBy(x) /\ late = {} /\ \A y \in Exchange \ {x} : at'[y] = at[y]
  BY MovesByPlace DEF Inv
<1>3. TypeOK /\ R \in Capt /\ S \in Capt /\ R # S
  BY Captures DEF Inv
<1>4. /\ used = SumFunctionOnSet(AllHolds, Capt)
      /\ SumFunctionOnSet(AllClaims, Capt) <= Budget
      /\ \A d \in Capt :
           /\ reserved[d] = IF Zeroed(d) THEN 0 ELSE kept[d]
           /\ write[d].pc # "idle" => write[d].had = reserved[d]
  BY <1>2 DEF Accounts
<1>5. \A d \in Capt \ {R, S} : d[1] \in Exchange /\ d[1] # x
  BY Captures
<1>6. reserved' = reserved \/ \E r : \/ reserved' = [reserved EXCEPT ![R] = r]
                                    \/ reserved' = [reserved EXCEPT ![S] = r]
  BY <1>2 DEF MovesBy
<1>7. \A d \in Capt \ {R, S} : reserved'[d] = reserved[d]
  BY <1>3, <1>6 DEF TypeOK
<1>8. \A d \in Capt \ {R, S} :
        Holds(d)' = Holds(d) /\ Pending(d)' = Pending(d) /\ (Zeroed(d)' <=> Zeroed(d))
  BY <1>1, <1>2, <1>5, <1>7 DEF Holds, Releasing, Pending, Zeroed
<1>9. /\ Holds(R) = (IF at[x] \in {"zero", "over", "aborted"} THEN 0 ELSE reserved[R]) + write[R].n
      /\ Holds(S) = (IF at[x] \in {"over", "aborted"} THEN 0 ELSE reserved[S]) + write[S].n
      /\ Pending(R) = (IF at[x] \in After \ {"bytes"} THEN 0 ELSE kept[R])
      /\ Pending(S) = (IF at[x] \in {"done", "over", "aborted"} THEN 0 ELSE kept[S])
      /\ Zeroed(R) <=> at[x] \in {"store resp", "done", "over"}
      /\ Zeroed(S) <=> at[x] \in {"done", "over"}
  BY DEF Holds, Releasing, Pending, Zeroed, Req, Resp, After
<1>10. /\ Holds(R)' = (IF at'[x] \in {"zero", "over", "aborted"} THEN 0 ELSE reserved'[R]) + write[R].n
       /\ Holds(S)' = (IF at'[x] \in {"over", "aborted"} THEN 0 ELSE reserved'[S]) + write[S].n
       /\ Pending(R)' = (IF at'[x] \in After \ {"bytes"} THEN 0 ELSE kept[R])
       /\ Pending(S)' = (IF at'[x] \in {"done", "over", "aborted"} THEN 0 ELSE kept[S])
       /\ Zeroed(R)' <=> at'[x] \in {"store resp", "done", "over"}
       /\ Zeroed(S)' <=> at'[x] \in {"done", "over"}
  BY <1>1 DEF Holds, Releasing, Pending, Zeroed, Req, Resp, After
<1>11. /\ reserved[R] \in Nat /\ reserved[S] \in Nat /\ kept[R] \in Nat /\ kept[S] \in Nat
       /\ write[R].n \in Nat /\ write[S].n \in Nat /\ used \in Int
       /\ reserved'[R] \in Nat /\ reserved'[S] \in Nat
  <2>1. used \in Int /\ reserved'[R] \in Nat /\ reserved'[S] \in Nat
    BY <1>3 DEF TypeOK
  <2> QED
    BY <1>3, <2>1, ClaimsAreHeld
<1> DEFINE Goes ==
      /\ used' + (Holds(R) + Holds(S)) = used + (Holds(R)' + Holds(S)')
      /\ Pending(R)' <= Pending(R) /\ Pending(S)' <= Pending(S)
      /\ reserved'[R] = IF Zeroed(R)' THEN 0 ELSE kept[R]
      /\ reserved'[S] = IF Zeroed(S)' THEN 0 ELSE kept[S]
      /\ reserved'[R] # reserved[R] => write[R].pc = "idle"
      /\ reserved'[S] # reserved[S] => write[S].pc = "idle"
<1>12. Goes
  <2>1. /\ reserved[R] = IF at[x] \in {"store resp", "done", "over"} THEN 0 ELSE kept[R]
        /\ reserved[S] = IF at[x] \in {"done", "over"} THEN 0 ELSE kept[S]
    BY <1>3, <1>4, <1>9
  <2>2. at[x] \in {"zero", "store resp"} => write[R].pc = "idle" /\ write[S].pc = "idle"
    BY <1>2 DEF Inv, Recorded, RecordedOf, Stored, After, Quiet
  <2> HIDE DEF R, S, Goes
  <2>3. CASE at[x] \in Before \ {"panic"} /\ at'[x] \in Before \cup {"bytes"}
               /\ used' = used /\ reserved' = reserved
    <3>1. /\ Holds(R)' = Holds(R) /\ Holds(S)' = Holds(S)
          /\ Pending(R)' = kept[R] /\ Pending(R) = kept[R]
          /\ Pending(S)' = kept[S] /\ Pending(S) = kept[S]
          /\ ~Zeroed(R)' /\ ~Zeroed(S)' /\ reserved[R] = kept[R] /\ reserved[S] = kept[S]
      BY <1>9, <1>10, <2>1, <2>3 DEF Before, After
    <3> QED
      BY <1>11, <2>3, <3>1 DEF Goes
  <2>4. CASE at'[x] = at[x] /\ used' = used /\ reserved' = reserved
    <3>1. /\ Holds(R)' = Holds(R) /\ Holds(S)' = Holds(S)
          /\ Pending(R)' = Pending(R) /\ Pending(R) \in {0, kept[R]}
          /\ Pending(S)' = Pending(S) /\ Pending(S) \in {0, kept[S]}
          /\ (Zeroed(R)' <=> Zeroed(R)) /\ (Zeroed(S)' <=> Zeroed(S))
      BY <1>9, <1>10, <2>4
    <3> QED
      BY <1>3, <1>4, <1>11, <2>4, <3>1 DEF Goes
  <2>5. CASE at[x] = "bytes" /\ at'[x] = "zero" /\ used' = used - reserved[R] /\ reserved' = reserved
    <3>1. /\ Holds(R) = reserved[R] + write[R].n /\ Holds(R)' = 0 + write[R].n
          /\ Holds(S) = reserved[S] + write[S].n /\ Holds(S)' = reserved[S] + write[S].n
          /\ Pending(R)' = 0 /\ Pending(R) = kept[R]
          /\ Pending(S)' = kept[S] /\ Pending(S) = kept[S]
          /\ ~Zeroed(R)' /\ ~Zeroed(S)' /\ reserved[R] = kept[R] /\ reserved[S] = kept[S]
      BY <1>9, <1>10, <2>1, <2>5 DEF After
    <3> QED
      BY <1>11, <2>5, <3>1 DEF Goes
  <2>6. CASE at[x] = "zero" /\ at'[x] = "store resp" /\ used' = used
               /\ reserved' = [reserved EXCEPT ![R] = 0]
    <3>1. reserved'[R] = 0 /\ reserved'[S] = reserved[S] /\ used' = used
      BY <1>3, <2>6 DEF TypeOK
    <3>2. /\ Holds(R) = 0 + write[R].n /\ Holds(R)' = 0 + write[R].n
          /\ Holds(S) = reserved[S] + write[S].n /\ Holds(S)' = reserved[S] + write[S].n
          /\ Pending(R)' = 0 /\ Pending(R) = 0
          /\ Pending(S)' = kept[S] /\ Pending(S) = kept[S]
          /\ Zeroed(R)' /\ ~Zeroed(S)' /\ reserved[S] = kept[S]
          /\ write[R].pc = "idle"
      BY <1>9, <1>10, <2>1, <2>2, <2>6, <3>1 DEF After
    <3> QED
      BY <1>11, <3>1, <3>2 DEF Goes
  <2>7. CASE at[x] = "store resp" /\ at'[x] = "done" /\ used' = used - reserved[S]
               /\ reserved' = [reserved EXCEPT ![S] = 0]
    <3>1. reserved'[S] = 0 /\ reserved'[R] = reserved[R] /\ used' = used - reserved[S]
      BY <1>3, <2>7 DEF TypeOK
    <3>2. /\ Holds(R) = reserved[R] + write[R].n /\ Holds(R)' = reserved[R] + write[R].n
          /\ Holds(S) = reserved[S] + write[S].n /\ Holds(S)' = 0 + write[S].n
          /\ Pending(R)' = 0 /\ Pending(R) = 0
          /\ Pending(S)' = 0 /\ Pending(S) = kept[S]
          /\ Zeroed(R)' /\ Zeroed(S)' /\ reserved[R] = 0
          /\ write[S].pc = "idle"
      BY <1>9, <1>10, <2>1, <2>2, <2>7, <3>1 DEF After
    <3> QED
      BY <1>11, <3>1, <3>2 DEF Goes
  <2>8. CASE /\ \/ at[x] = "done" /\ at'[x] = "over"
                \/ at[x] = "panic" /\ at'[x] = "aborted"
             /\ used' = used - (reserved[R] + reserved[S]) /\ reserved' = reserved
    <3>1. /\ Holds(R) = reserved[R] + write[R].n /\ Holds(R)' = 0 + write[R].n
          /\ Holds(S) = reserved[S] + write[S].n /\ Holds(S)' = 0 + write[S].n
          /\ Pending(R)' = 0 /\ Pending(S)' = 0
          /\ Pending(R) \in {0, kept[R]} /\ Pending(S) \in {0, kept[S]}
          /\ reserved[R] = IF Zeroed(R)' THEN 0 ELSE kept[R]
          /\ reserved[S] = IF Zeroed(S)' THEN 0 ELSE kept[S]
      BY <1>9, <1>10, <2>1, <2>8 DEF After
    <3> QED
      BY <1>11, <2>8, <3>1 DEF Goes
  <2> QED
    BY <1>2, <2>3, <2>4, <2>5, <2>6, <2>7, <2>8 DEF MovesBy, R, S
<1>13. \A d \in Capt : Claim(d)' <= Claim(d)
  <2>1. \A d \in Capt : /\ Pending(d) \in Nat /\ Coming(d) \in Nat /\ Coming(d)' = Coming(d)
                        /\ Pending(d)' \in Nat
    <3>1. \A d \in Capt : kept[d] \in Nat /\ write[d].n \in Nat /\ Pending(d) \in Nat
      BY <1>3, ClaimsAreHeld
    <3>2. \A d \in Capt : Pending(d)' \in {0, kept[d]}
      BY <1>1 DEF Pending
    <3> QED
      BY <1>1, <3>1, <3>2 DEF Coming
  <2>2. \A d \in Capt : Pending(d)' <= Pending(d)
    BY <1>8, <1>12, <2>1
  <2>3. \A d \in Capt : Claim(d) = Pending(d) + Coming(d) /\ Claim(d)' = Pending(d)' + Coming(d)'
    BY DEF Claim
  <2> QED
    BY <2>1, <2>2, <2>3
<1>14. used' = SumFunctionOnSet(AllHolds', Capt) /\ SumFunctionOnSet(AllClaims', Capt) <= Budget
  BY <1>3, <1>4, <1>8, <1>12, <1>13, AccountsOfTwo
<1>15. \A d \in Capt :
         /\ reserved'[d] = IF Zeroed(d)' THEN 0 ELSE kept'[d]
         /\ write'[d].pc # "idle" => write'[d].had = reserved'[d]
  BY <1>1, <1>4, <1>7, <1>8, <1>12
<1> QED
  BY <1>14, <1>15 DEF Accounts

\* Who begins has nothing yet, and nothing to account for.
LEMMA BeginAccounts ==
  ASSUME NEW x \in Exchange, Inv, Accounts, Begin(x), late' = {}
  PROVE  Accounts'
<1>1. /\ at' = [at EXCEPT ![x] = "trip"] /\ at[x] = "none" /\ late = {}
      /\ kept' = kept /\ write' = write /\ reserved' = reserved /\ used' = used
  BY DEF Begin, Go, captures
<1>2. \A d \in Capt : \/ at'[d[1]] = at[d[1]]
                      \/ at[d[1]] = "none" /\ at'[d[1]] = "trip"
  <2>1. \A d \in Capt : d[1] \in Exchange
    BY Captures
  <2>2. at \in [Exchange -> Before \cup After]
    BY DEF Inv, TypeOK
  <2> QED
    BY <1>1, <2>1, <2>2
<1>3. \A d \in Capt : Holds(d)' = Holds(d) /\ Claim(d)' = Claim(d) /\ (Zeroed(d)' <=> Zeroed(d))
  <2> SUFFICES ASSUME NEW d \in Capt
               PROVE  Holds(d)' = Holds(d) /\ Claim(d)' = Claim(d) /\ (Zeroed(d)' <=> Zeroed(d))
    OBVIOUS
  <2>1. CASE at'[d[1]] = at[d[1]]
    BY <1>1, <2>1 DEF Holds, Releasing, Claim, Pending, Coming, Zeroed
  <2>2. CASE at[d[1]] = "none" /\ at'[d[1]] = "trip"
    <3>1. at[d[1]] \in Before
      BY <2>2 DEF Before
    <3>2. Holds(d) = reserved[d] + write[d].n /\ Claim(d) = kept[d] + Coming(d) /\ ~Zeroed(d)
      BY <3>1, BeforeStored
    <3>3. /\ Holds(d)' = reserved'[d] + write'[d].n /\ Claim(d)' = kept'[d] + Coming(d)'
          /\ ~Zeroed(d)'
      BY <2>2 DEF Holds, Releasing, Claim, Pending, Zeroed, After
    <3> QED
      BY <1>1, <3>2, <3>3 DEF Coming
  <2> QED
    BY <1>2, <2>1, <2>2
<1>4. AllHolds' = AllHolds /\ AllClaims' = AllClaims
  BY <1>3 DEF AllHolds, AllClaims
<1> QED
  BY <1>1, <1>3, <1>4 DEF Accounts

LEMMA AccountsInit == Init => Accounts
<1> SUFFICES ASSUME Init PROVE Accounts
  OBVIOUS
<1>1. TypeOK
  BY InvInit DEF Inv
<1>2. ASSUME NEW c \in Capt
      PROVE  /\ write[c] = NoWrite /\ reserved[c] = 0 /\ kept[c] = 0
             /\ at[c[1]] \in Before /\ Holds(c) = 0 /\ Claim(c) = 0 /\ ~Zeroed(c)
  <2>1. write[c] = NoWrite /\ reserved[c] = 0 /\ kept[c] = 0 /\ at[c[1]] \in Before
    BY Captures DEF Init, Before
  <2> QED
    BY <2>1, BeforeStored, NoWriteIsOne DEF Coming
<1>3. \A c \in Capt : AllHolds[c] = 0 /\ AllClaims[c] = 0
  BY <1>2 DEF AllHolds, AllClaims
<1>4. SumFunctionOnSet(AllHolds, Capt) = 0 /\ SumFunctionOnSet(AllClaims, Capt) = 0
  BY <1>3, FinitelyMany, SumOfZeroes
<1>5. used = 0 /\ 0 <= Budget
  BY ConstantsAssumption DEF ConstantsAssumption, Init
<1> QED
  BY <1>2, <1>4, <1>5, NoWriteIsOne DEF Accounts

\* Every step that leaves nobody late leaves the accounts in order.
LEMMA AccountsStep ==
  ASSUME Inv, Accounts, [Next]_vars
  PROVE  Accounts'
<1>1. TypeOK'
  BY InvStep DEF Inv
<1>2. SUFFICES ASSUME late' = {} PROVE Accounts'
  BY DEF Accounts
<1>3. CASE UNCHANGED vars
  <2>1. AllHolds' = AllHolds /\ AllClaims' = AllClaims
    BY <1>3 DEF AllHolds, AllClaims, Holds, Releasing, Claim, Pending, Coming, vars, captures
  <2> QED
    BY <1>3, <2>1 DEF Accounts, Zeroed, vars, captures
<1>4. ASSUME NEW x \in Exchange, Begin(x)
      PROVE  Accounts'
  BY <1>2, <1>4, BeginAccounts
<1>5. ASSUME NEW x \in Exchange, Moves(x)
      PROVE  Accounts'
  BY <1>1, <1>2, <1>5, MovesAccounts
<1>6. ASSUME NEW x \in Exchange, NEW c \in {Req(x), Resp(x)}, Steps(c), at' = at, late = {},
             ~Stored(x)
      PROVE  Accounts'
  <2>1. c \in Capt /\ c[1] = x /\ at[x] \in Before
    BY <1>6, Captures DEF Inv, TypeOK, Stored
  <2> QED
    BY <1>1, <1>6, <2>1, WriteAccounts
<1>7. ASSUME NEW x \in Exchange, NEW n \in Chunk, ReadsRequest(x, n)
      PROVE  Accounts'
  <2>1. Steps(Req(x)) /\ at' = at /\ late = {} /\ ~Stored(x)
    BY <1>2, <1>7 DEF ReadsRequest, Steps
  <2> QED
    BY <1>6, <2>1
<1>8. ASSUME NEW x \in Exchange, NEW n \in Chunk, Copies(x, n)
      PROVE  Accounts'
  <2>1. Steps(Resp(x)) /\ at' = at /\ late = {} /\ ~Stored(x)
    BY <1>2, <1>8 DEF Copies, Steps, Stored, After
  <2> QED
    BY <1>6, <2>1
<1>9. ASSUME NEW x \in Exchange, RequestGoesOn(x)
      PROVE  Accounts'
  <2>1. Steps(Req(x)) /\ at' = at /\ late = {} /\ write[Req(x)].pc # "idle"
    BY <1>2, <1>9 DEF RequestGoesOn, Steps, GoesOn, Denied, Keeps
  <2>2. ~Stored(x)
    BY <2>1 DEF Inv, Recorded, RecordedOf
  <2> QED
    BY <1>6, <2>1, <2>2
<1>10. ASSUME NEW x \in Exchange, CopyGoesOn(x)
       PROVE  Accounts'
  <2>1. Steps(Resp(x)) /\ at' = at /\ late = {} /\ write[Resp(x)].pc # "idle"
    BY <1>2, <1>10 DEF CopyGoesOn, Steps, GoesOn, Denied, Keeps
  <2>2. ~Stored(x)
    BY <2>1 DEF Inv, Quiet, Stored, After
  <2> QED
    BY <1>6, <2>1, <2>2
<1> QED
  BY <1>3, <1>4, <1>5, <1>7, <1>8, <1>9, <1>10, NextByCase

LEMMA FullInvHolds == Spec => []FullInv
<1>1. Init => FullInv
  BY InvInit, AccountsInit DEF FullInv
<1>2. FullInv /\ [Next]_vars => FullInv'
  BY InvStep, AccountsStep DEF FullInv
<1> QED
  BY <1>1, <1>2, PTL DEF Spec

-----------------------------------------------------------------------------
\* Every reachable state is well typed: no capture keeps more than max_body.
THEOREM TypeCorrect == Spec => []TypeOK
<1>1. Inv => TypeOK
  BY DEF Inv
<1> QED
  BY <1>1, InvHolds, PTL

\* A flow says that a body is cut just when less was kept than went through, for any
\* exchanges, limits and budget, however the writes of others take from it.
THEOREM RecordTruthfulHolds == Spec => []RecordTruthful
<1>1. Inv => RecordTruthful
  <2> SUFFICES ASSUME Inv, NEW c \in Capt, at[c[1]] \in {"done", "over"}, c[1] \notin late
               PROVE  /\ ref[c].captured <= ref[c].size
                      /\ IF c[1] \in off THEN ref[c].captured = 0 /\ ~ref[c].truncated
                         ELSE ref[c].truncated <=> ref[c].captured < ref[c].size
    BY DEF RecordTruthful
  <2>1. RecordedOf(c[1])
    BY Captures DEF Inv, Recorded
  <2>2. /\ ref[c].captured = kept[c] /\ ref[c].size = size[c]
        /\ (ref[c].truncated <=> c \in truncated)
    BY <2>1, Captures DEF RecordedOf, After
  <2>3. write[c].pc = "idle"
    <3>1. c[1] \in Exchange /\ (c = Req(c[1]) \/ c = Resp(c[1]))
      BY Captures
    <3>2. CASE c = Req(c[1])
      <4>1. Stored(c[1])
        BY DEF Stored, After
      <4> QED
        BY <2>1, <3>2, <4>1 DEF RecordedOf
    <3>3. CASE c = Resp(c[1])
      <4>1. write[Resp(c[1])].pc # "idle" => at[c[1]] = "copy"
        BY <3>1 DEF Inv, Quiet
      <4> QED
        BY <3>3, <4>1
    <3> QED
      BY <3>1, <3>2, <3>3
  <2>4. kept[c] \in Nat /\ size[c] \in Nat
    BY ConstantsAssumption DEF ConstantsAssumption, Inv, TypeOK
  <2> QED
    BY <2>2, <2>3, <2>4 DEF Inv, Cuts, Coming
<1> QED
  BY <1>1, InvHolds, PTL

\* Nothing is kept of a body behind a part that was not kept.
THEOREM NoHoleHolds == Spec => NoHole
<1>1. ASSUME Inv, [Next]_vars, NEW c \in Capt, c \in truncated, kept'[c] # kept[c]
      PROVE  kept'[c] = MaxBody
  <2>1. PICK d \in Capt : Steps(d)
    <3>1. ~UNCHANGED kept
      BY <1>1
    <3>2. Next
      BY <1>1, <3>1 DEF vars, captures
    <3>3. PICK x \in Exchange :
             \/ \E n \in Chunk : ReadsRequest(x, n) \/ Copies(x, n)
             \/ RequestGoesOn(x) \/ CopyGoesOn(x)
      BY <3>1, <3>2, NextByCase, MovesLeaveData DEF Begin, captures, Data
    <3> QED
      BY <3>3, Captures DEF ReadsRequest, Copies, RequestGoesOn, CopyGoesOn, Steps
  <2>2. TypeOfData
    BY <1>1 DEF Inv, TypeOK, TypeOfData
  <2>3. d = c
    BY <1>1, <2>1, <2>2, OthersSame DEF Same
  <2>4. write[c].pc = "granted" /\ kept'[c] = kept[c] + write[c].n
    BY <1>1, <2>1, <2>2, <2>3, WriteByCase DEF Inv
  <2> QED
    BY <1>1, <2>4 DEF Inv, Fits
<1>2. Inv /\ [Next]_vars =>
        [\A c \in Capt : c \in truncated /\ kept'[c] # kept[c] => kept'[c] = MaxBody]_vars
  BY <1>1
<1> QED
  BY <1>2, InvHolds, PTL DEF Spec, NoHole

\* All bodies in memory are within the budget and none of it is lost, for any
\* budget and any exchanges, as long as no request is written to while stored.
THEOREM BudgetHoldsAlways == Spec => []BudgetHolds
<1>1. FullInv => BudgetHolds
  <2> SUFFICES ASSUME FullInv, late = {}
               PROVE  /\ used = SumFunction([c \in Capt |-> Holds(c)])
                      /\ SumFunction([c \in Capt |-> Pending(c)]) <= Budget
    BY DEF BudgetHolds
  <2> DEFINE pending == [c \in Capt |-> Pending(c)]
  <2>1. used = SumFunctionOnSet(AllHolds, Capt) /\ SumFunctionOnSet(AllClaims, Capt) <= Budget
    BY DEF FullInv, Accounts
  <2>2. \A c \in Capt : /\ pending[c] \in Nat /\ AllClaims[c] \in Nat
                        /\ pending[c] <= AllClaims[c]
    BY ClaimsAreHeld DEF FullInv, Inv, AllClaims
  <2>3. DOMAIN pending = Capt
    OBVIOUS
  <2>4. SumFunction(pending) = SumFunctionOnSet(pending, Capt)
    BY <2>3 DEF SumFunction
  <2>5. SumFunction([c \in Capt |-> Holds(c)]) = SumFunctionOnSet(AllHolds, Capt)
    BY DEF SumFunction, AllHolds
  <2> HIDE DEF pending
  <2>6. SumFunctionOnSet(pending, Capt) <= SumFunctionOnSet(AllClaims, Capt)
    BY <2>2, FinitelyMany, SumBelow
  <2>7. SumFunctionOnSet(pending, Capt) \in Nat /\ SumFunctionOnSet(AllClaims, Capt) \in Nat
    BY <2>2, FinitelyMany, SumSteps
  <2>8. SumFunctionOnSet(pending, Capt) <= Budget
    BY <2>1, <2>6, <2>7, ConstantsAssumption DEF ConstantsAssumption
  <2> QED
    BY <2>1, <2>4, <2>5, <2>8 DEF pending
<1> QED
  BY <1>1, FullInvHolds, PTL
=============================================================================
