----------------------------- MODULE BusPromise -----------------------------
(***************************************************************************)
(* What a subscriber of the event bus is promised: events of one exchange  *)
(* come in order, and nothing is lost behind its back.  A loss is on       *)
(* record until a notice of it is queued, and a notice that is itself lost *)
(* puts it back on record.                                                 *)
(***************************************************************************)
EXTENDS Naturals, Sequences

CONSTANTS Exchange, Reader, Size

VARIABLES
  pending,  \* what a reader has yet to read
  missed,   \* a loss is on record
  last,     \* the last event of each exchange a reader has read
  told      \* how many notices it has read

Event  == [seq : Nat, by : Exchange]
Notice == [dropped : Nat]

Init ==
  /\ pending = [r \in Reader |-> <<>>]
  /\ missed = [r \in Reader |-> FALSE]
  /\ last = [r \in Reader |-> [x \in Exchange |-> 0]]
  /\ told = [r \in Reader |-> 0]

\* What has joined the end of the queue in this step.
Newcomer(r) == pending'[r][Len(pending'[r])]

Joins(r) ==
  /\ Len(pending[r]) < Size[r] /\ pending'[r] # <<>>
  /\ pending' = [pending EXCEPT ![r] = Append(@, Newcomer(r))]
  /\ UNCHANGED <<last, told>>

\* Newer than every event of its exchange that is waiting or has been read.
Newest(r, e) ==
  /\ last[r][e.by] < e.seq
  /\ \A i \in 1..Len(pending[r]) :
       pending[r][i] \in Event /\ pending[r][i].by = e.by => pending[r][i].seq < e.seq

Deliver(r) ==
  /\ Joins(r) /\ UNCHANGED missed
  /\ Newcomer(r) \in Event /\ Newest(r, Newcomer(r))

Announce(r) ==
  /\ missed[r] /\ Joins(r) /\ Newcomer(r) \in Notice
  /\ missed' = [missed EXCEPT ![r] = FALSE]

\* The oldest item is given up, or the one that was coming.
Lose(r) ==
  /\ missed' = [missed EXCEPT ![r] = TRUE]
  /\ \/ UNCHANGED pending
     \/ pending[r] # <<>> /\ pending' = [pending EXCEPT ![r] = Tail(@)]
  /\ UNCHANGED <<last, told>>

Read(r) ==
  /\ pending[r] # <<>>
  /\ LET item == Head(pending[r]) IN
       IF item \in Event
       THEN last' = [last EXCEPT ![r][item.by] = item.seq] /\ UNCHANGED told
       ELSE told' = [told EXCEPT ![r] = @ + 1] /\ UNCHANGED last
  /\ pending' = [pending EXCEPT ![r] = Tail(@)]
  /\ UNCHANGED missed

Next == \E r \in Reader : Deliver(r) \/ Announce(r) \/ Lose(r) \/ Read(r)

Spec == Init /\ [][Next]_<<pending, missed, last, told>>

-----------------------------------------------------------------------------
\* A reader never sees an exchange go back: what waits for it is newer than
\* what it has read, and waits in order.
InOrder ==
  \A r \in Reader :
    LET q == pending[r] IN
    \A j \in 1..Len(q) : q[j] \in Event =>
      /\ last[r][q[j].by] < q[j].seq
      /\ \A i \in 1..(j - 1) :
           q[i] \in Event /\ q[i].by = q[j].by => q[i].seq < q[j].seq
=============================================================================
