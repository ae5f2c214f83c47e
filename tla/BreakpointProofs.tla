-------------------------- MODULE BreakpointProofs --------------------------
(***************************************************************************)
(* Proofs about Breakpoint, for every set of exchanges and callers and any *)
(* number of breakpoints.  The invariant follows one answer: it is owed to *)
(* its exchange from the claim on, and it is in exactly one place, with a  *)
(* caller, with releaseAll or in the channel, until the exchange hears it. *)
(***************************************************************************)
EXTENDS Breakpoint, TLAPS

-----------------------------------------------------------------------------
\* Equal numbers are not ordered.
LEMMA NotBelowItself == \A i, j \in Nat : i = j => ~(i < j)
OBVIOUS

\* What an entry, one hold of one exchange, is made of.
LEMMA EntryFacts ==
  /\ \A x \in Exchange : Hits[x] \in Nat /\ 0 <= Hits[x]
  /\ \A e \in Entry : /\ e[1] \in Exchange /\ e[2] \in 1..Hits[e[1]] /\ e = <<e[1], e[2]>>
                      /\ e[2] \in Nat /\ e[2] # 0
  /\ \A x \in Exchange : \A n \in Nat : n # 0 /\ n <= Hits[x] => <<x, n>> \in Entry
<1>1. \A x \in Exchange : Hits[x] \in Nat /\ 0 <= Hits[x]
  BY ConstantsAssumption
<1>2. \A e \in Entry : e[1] \in Exchange /\ e[2] \in 1..Hits[e[1]] /\ e = <<e[1], e[2]>>
  BY DEF Entry
<1>3. \A e \in Entry : e[2] \in Nat /\ e[2] # 0
  BY <1>1, <1>2
<1>4. \A x \in Exchange : \A n \in Nat : n # 0 /\ n <= Hits[x] => <<x, n>> \in Entry
  BY <1>1 DEF Entry
<1>. QED BY <1>1, <1>2, <1>3, <1>4

\* The stages of the shutdown, one by one.
LEMMA StageFacts ==
  Stages = {"up", "drain", "tunnels", "front", "releasing", "released", "exit"}
<1>1. DOMAIN Stage = 1..7
  BY DEF Stage
<1>2. /\ Stage[1] = "up" /\ Stage[2] = "drain" /\ Stage[3] = "tunnels" /\ Stage[4] = "front"
      /\ Stage[5] = "releasing" /\ Stage[6] = "released" /\ Stage[7] = "exit"
  BY DEF Stage
<1>3. \A i \in 1..7 : i = 1 \/ i = 2 \/ i = 3 \/ i = 4 \/ i = 5 \/ i = 6 \/ i = 7
  OBVIOUS
<1>. QED BY <1>1, <1>2, <1>3 DEF Stages

\* A claimed exchange waits, off the registry.
Waiting(e) ==
  /\ holds[e[1]] = e[2] /\ held[e[1]] = 0
  /\ at[e[1]] \in {"parked", "owed"}

Owed(e) == Waiting(e) /\ claimed[e] # "none" /\ ending[e] = "none"

\* The registry and the goroutine of x agree.
Agree(x) ==
  /\ held[x] # 0 => at[x] = "parked" /\ held[x] = holds[x]
  /\ at[x] \in {"parked", "owed"} => holds[x] # 0

\* What is recorded of entry e.
Recorded(e) ==
  /\ holds[e[1]] < e[2] => claimed[e] = "none" /\ ending[e] = "none"
  /\ held[e[1]] = e[2] => claimed[e] = "none" /\ ending[e] = "none"
  /\ claimed[e] # "none" => ending[e] \in {"none", claimed[e]}
  /\ box[e] # <<>> => box[e] = <<claimed[e]>> /\ Owed(e)
  /\ e \in todo => box[e] = <<>> /\ claimed[e] = "release" /\ Owed(e)

\* Caller c has claimed its entry, alone.
Alone(c) ==
  call[c] # Nobody =>
    /\ box[call[c].to] = <<>> /\ call[c].to \notin todo
    /\ claimed[call[c].to] = call[c].act /\ Owed(call[c].to)
    /\ \A d \in Caller \ {c} : call[d] # Nobody => call[d].to # call[c].to

Inv ==
  /\ TypeOK
  /\ \A x \in Exchange : Agree(x)
  /\ \A e \in Entry : Recorded(e)
  /\ \A c \in Caller : Alone(c)

-----------------------------------------------------------------------------
\* Before any request nothing is held and nobody has claimed anything.
LEMMA InitInv == Init => Inv
<1>. SUFFICES ASSUME Init PROVE Inv
  OBVIOUS
<1>1. TypeOK
  <2>1. box \in [Entry -> Seq(Answer)]
    BY DEF Init
  <2>2. \A x \in Exchange : holds[x] <= Hits[x] /\ held[x] <= Hits[x]
    BY ConstantsAssumption DEF Init
  <2>3. call \in [Caller -> [to : Entry, act : Answer] \cup {Nobody}]
    BY DEF Init
  <2>4. stage \in Stages
    BY StageFacts DEF Init
  <2>. QED BY <2>1, <2>2, <2>3, <2>4 DEF Init, TypeOK, Where
<1>2. ASSUME NEW x \in Exchange PROVE Agree(x)
  BY DEF Init, Agree
<1>3. ASSUME NEW e \in Entry PROVE Recorded(e)
  BY EntryFacts DEF Init, Recorded
<1>4. ASSUME NEW c \in Caller PROVE Alone(c)
  BY DEF Init, Alone
<1>. QED BY <1>1, <1>2, <1>3, <1>4 DEF Inv

\* Every step keeps the types.
LEMMA NextType == TypeOK /\ [Next]_vars => TypeOK'
<1>. SUFFICES ASSUME TypeOK, [Next]_vars PROVE TypeOK'
  OBVIOUS
<1>. USE StageFacts DEF TypeOK, Where
<1>c. ASSUME NEW x \in Exchange, at[x] = "running", holds[x] < Hits[x]
      PROVE  holds[x] + 1 \in Nat /\ holds[x] + 1 <= Hits[x]
  BY <1>c, ConstantsAssumption
<1>1. ASSUME NEW x \in Exchange, Arrive(x) \/ Finish(x) \/ Leaves(x) \/ Cut(x)
      PROVE  TypeOK'
  BY <1>1 DEF Arrive, Finish, Leaves, Cut, Over, exchange, stop
<1>2. ASSUME NEW x \in Exchange, Park(x) PROVE TypeOK'
  BY <1>2, <1>c DEF Park, stop
<1>3. ASSUME NEW x \in Exchange, Hear(x) PROVE TypeOK'
  <2>. DEFINE e == Current(x)
  <2>1. CASE e \in Entry
    <3>1. box[e] \in Seq(Answer) /\ box[e] # <<>>
      BY <1>3, <2>1 DEF Hear
    <3>2. Head(box[e]) \in Answer /\ Tail(box[e]) \in Seq(Answer)
      BY <3>1
    <3>. QED BY <1>3, <3>2 DEF Hear, Ends, stop, Ending
  <2>2. CASE e \notin Entry
    <3>. HIDE DEF e
    <3>1. box \in [Entry -> Seq(Answer)] /\ ending \in [Entry -> Ending \cup {"none"}]
      OBVIOUS
    <3>2. \A r : [box EXCEPT ![e] = r] = box /\ [ending EXCEPT ![e] = r] = ending
      BY <2>2, <3>1
    <3>3. box' = box /\ ending' = ending
      BY <1>3, <3>2 DEF Hear, Ends, e
    <3>4. at' \in [Exchange -> Where] /\ UNCHANGED <<wire, holds, over, held, call, claimed, stop>>
      BY <1>3 DEF Hear, Ends
    <3>. QED BY <3>3, <3>4 DEF stop
  <2>. QED BY <2>1, <2>2
<1>4. ASSUME NEW x \in Exchange, NEW how \in {"timeout", "client gone"},
             GiveUp(x, how)
      PROVE  TypeOK'
  <2>1. ending' \in [Entry -> Ending \cup {"none"}]
    BY <1>4 DEF GiveUp, Ends, Ending
  <2>2. at' \in [Exchange -> Where]
    BY <1>4, ZenonT(60) DEF GiveUp, Ends
  <2>3. held' \in [Exchange -> Nat] /\ \A y \in Exchange : held'[y] <= Hits[y]
    <3>2. held' = [held EXCEPT ![x] = 0] \/ held' = held
      BY <1>4 DEF GiveUp
    <3>3. CASE held' = held BY <3>3
    <3>4. CASE held' = [held EXCEPT ![x] = 0]
      <4>1. held' \in [Exchange -> Nat]
        BY <3>4
      <4>2. \A y \in Exchange : held'[y] = IF y = x THEN 0 ELSE held[y]
        BY <3>4
      <4>. QED BY <4>1, <4>2, EntryFacts
    <3>. QED BY <3>2, <3>3, <3>4
  <2>. QED BY <1>4, <2>1, <2>2, <2>3 DEF GiveUp, stop
<1>5. ASSUME NEW c \in Caller, NEW x \in Exchange, NEW a \in {"resume", "drop"},
             Claim(c, x, a)
      PROVE  TypeOK'
  <2>1. <<x, held[x]>> \in Entry /\ a \in Answer
    BY <1>5, EntryFacts DEF Claim, Answer
  <2>2. held' \in [Exchange -> Nat] /\ \A y \in Exchange : held'[y] <= Hits[y]
    <3>1. held' = [held EXCEPT ![x] = 0]
      BY <1>5 DEF Claim
    <3>. QED BY <3>1, EntryFacts
  <2>3. call' \in [Caller -> [to : Entry, act : Answer] \cup {Nobody}]
    BY <1>5, <2>1 DEF Claim
  <2>4. claimed' \in [Entry -> Answer \cup {"none"}]
    BY <1>5, <2>1 DEF Claim
  <2>. QED BY <1>5, <2>2, <2>3, <2>4 DEF Claim, exchange, stop
<1>6. ASSUME NEW c \in Caller, Send(c) PROVE TypeOK'
  BY <1>6 DEF Send, Put, exchange, stop
<1>7. CASE Stop
  BY <1>7 DEF Stop, exchange
<1>8. CASE Drain
  BY <1>8 DEF Drain, exchange
<1>9. CASE Close \/ Released \/ Exit
  BY <1>9 DEF Close, Released, Exit, exchange
<1>10. CASE ReleaseAll
  BY <1>10, ConstantsAssumption DEF ReleaseAll, exchange, Listed, Answer
<1>11. ASSUME NEW e \in Entry, Release(e) PROVE TypeOK'
  BY <1>11 DEF Release, Put, exchange, Answer
<1>12. CASE UNCHANGED vars
  BY <1>12 DEF vars, exchange, stop
<1>. QED
  BY <1>1, <1>2, <1>3, <1>4, <1>5, <1>6, <1>7, <1>8, <1>9, <1>10, <1>11, <1>12
  DEF Next, Goroutine, TimedOut, ClientGone, Shutdown

-----------------------------------------------------------------------------
(* A step that leaves the answers alone and does not park, hear or give up *)
(* keeps what is recorded.                                                 *)
LEMMA Untouched ==
  ASSUME Inv, NEW x \in Exchange,
         UNCHANGED <<holds, held, box, call, claimed, ending, todo>>,
         at[x] \in {"new", "running"}, \E p \in Where : at' = [at EXCEPT ![x] = p],
         at'[x] \in {"running", "done"}
  PROVE  /\ \A y \in Exchange : Agree(y)'
         /\ \A e \in Entry : Recorded(e)'
         /\ \A c \in Caller : Alone(c)'
<1>. USE DEF Inv, TypeOK
<1>1. \A y \in Exchange : at'[y] = IF y = x THEN at'[x] ELSE at[y]
  OBVIOUS
<1>2. ASSUME NEW e \in Entry, Owed(e) PROVE Owed(e)'
  BY <1>1, <1>2, EntryFacts DEF Owed, Waiting
<1>3. ASSUME NEW y \in Exchange PROVE Agree(y)'
  BY <1>1 DEF Agree
<1>4. ASSUME NEW e \in Entry PROVE Recorded(e)'
  <2>1. Recorded(e) OBVIOUS
  <2>. QED BY <1>2, <2>1 DEF Recorded
<1>5. ASSUME NEW c \in Caller PROVE Alone(c)'
  <2>1. CASE call[c] = Nobody BY <2>1 DEF Alone
  <2>2. CASE call[c] # Nobody
    <3>1. Alone(c) /\ call[c].to \in Entry BY <2>2
    <3>. QED BY <1>2, <2>2, <3>1 DEF Alone
  <2>. QED BY <2>1, <2>2
<1>. QED BY <1>3, <1>4, <1>5

\* Every step keeps the invariant.
LEMMA NextInv == Inv /\ [Next]_vars => Inv'
<1>. SUFFICES ASSUME Inv, [Next]_vars
     PROVE  /\ \A y \in Exchange : Agree(y)'
            /\ \A e \in Entry : Recorded(e)'
            /\ \A c \in Caller : Alone(c)'
  BY NextType DEF Inv
<1>t. TypeOK BY DEF Inv
<1>i. /\ \A y \in Exchange : Agree(y)
      /\ \A e \in Entry : Recorded(e)
      /\ \A c \in Caller : Alone(c)
  BY DEF Inv
<1>1. ASSUME NEW x \in Exchange, Arrive(x) \/ Finish(x)
      PROVE  /\ \A y \in Exchange : Agree(y)'
             /\ \A e \in Entry : Recorded(e)'
             /\ \A c \in Caller : Alone(c)'
  <2>1. /\ UNCHANGED <<holds, held, box, call, claimed, ending, todo>>
        /\ at[x] \in {"new", "running"} /\ at'[x] \in {"running", "done"}
        /\ \E p \in Where : at' = [at EXCEPT ![x] = p]
    BY <1>1, <1>t DEF Arrive, Finish, stop, TypeOK, Where
  <2>. QED BY <2>1, Untouched
<1>2. ASSUME NEW x \in Exchange, Park(x)
      PROVE  /\ \A y \in Exchange : Agree(y)'
             /\ \A e \in Entry : Recorded(e)'
             /\ \A c \in Caller : Alone(c)'
  <2>. DEFINE n == holds[x] + 1
              new == <<x, n>>
  <2>1. /\ at' = [at EXCEPT ![x] = "parked"] /\ at[x] = "running"
        /\ holds' = [holds EXCEPT ![x] = n] /\ held' = [held EXCEPT ![x] = n]
        /\ UNCHANGED <<box, call, claimed, ending, todo>>
    BY <1>2, <1>t DEF Park, stop, TypeOK
  <2>2. n \in Nat /\ n # 0
    BY <1>t DEF TypeOK
  <2>3. ASSUME NEW e \in Entry, Owed(e) PROVE Owed(e)' /\ e[1] # x
    BY <2>1, <2>3, <1>t, EntryFacts DEF Owed, Waiting, TypeOK
  <2>4. ASSUME NEW y \in Exchange PROVE Agree(y)'
    BY <2>1, <2>2, <1>i, <1>t DEF Agree, TypeOK
  <2>5. ASSUME NEW e \in Entry PROVE Recorded(e)'
    <3>1. Recorded(e) /\ e[1] \in Exchange /\ e[2] \in Nat
      BY <1>i, <1>t, EntryFacts
    <3>2. /\ holds'[e[1]] < e[2] => holds[e[1]] < e[2]
          /\ held'[e[1]] = e[2] => holds[e[1]] < e[2] \/ held[e[1]] = e[2]
      BY <2>1, <2>2, <3>1, <1>t DEF TypeOK
    <3>. QED BY <2>1, <2>3, <3>1, <3>2 DEF Recorded
  <2>6. ASSUME NEW c \in Caller PROVE Alone(c)'
    <3>1. CASE call[c] = Nobody BY <2>1, <3>1 DEF Alone
    <3>2. CASE call[c] # Nobody
      <4>1. Alone(c) /\ call[c].to \in Entry BY <1>i, <1>t, <3>2 DEF TypeOK
      <4>. QED BY <2>1, <2>3, <3>2, <4>1 DEF Alone
    <3>. QED BY <3>1, <3>2
  <2>. QED BY <2>4, <2>5, <2>6
<1>3. ASSUME NEW x \in Exchange, Hear(x)
      PROVE  /\ \A y \in Exchange : Agree(y)'
             /\ \A e \in Entry : Recorded(e)'
             /\ \A c \in Caller : Alone(c)'
  <2>. DEFINE o == Current(x)
              a == claimed[o]
  <2>1. o \in Entry
    <3>1. holds[x] \in Nat /\ holds[x] # 0 /\ holds[x] <= Hits[x]
      BY <1>3, <1>i, <1>t DEF Hear, Agree, TypeOK
    <3>. QED BY <3>1, EntryFacts DEF Current
  <2>2. box[o] = <<a>> /\ Owed(o)
    BY <1>3, <1>i, <2>1 DEF Hear, Recorded
  <2>3. /\ ending' = [ending EXCEPT ![o] = a] /\ box' = [box EXCEPT ![o] = <<>>]
        /\ at'[x] \in {"reset", "running"} /\ \E p \in Where : at' = [at EXCEPT ![x] = p]
        /\ UNCHANGED <<holds, held, call, claimed, todo>>
    <3>1. Head(box[o]) = a /\ Tail(box[o]) = <<>>
      BY <2>2
    <3>2. /\ ending' = [ending EXCEPT ![o] = a] /\ box' = [box EXCEPT ![o] = <<>>]
          /\ UNCHANGED <<holds, held, call, claimed, todo>>
          /\ \E p \in {"reset", "running"} : at' = [at EXCEPT ![x] = p]
      BY <1>3, <3>1 DEF Hear, Ends, stop
    <3>. QED BY <3>2, <1>t DEF Where, TypeOK
  <2>4. a # "none" /\ held[x] = 0 /\ o[1] = x /\ o[2] = holds[x]
    BY <2>2 DEF Owed, Waiting, Current
  <2>. HIDE DEF o, a
  <2>5. ASSUME NEW e \in Entry, Owed(e), e # o PROVE Owed(e)' /\ e[1] # x
    <3>1. e[1] # x /\ e[1] \in Exchange
      BY <2>1, <2>4, <2>5, EntryFacts DEF Owed, Waiting
    <3>2. at'[e[1]] = at[e[1]] /\ ending'[e] = ending[e]
      BY <2>1, <2>3, <2>5, <3>1, <1>t DEF TypeOK
    <3>. QED BY <2>3, <2>5, <3>1, <3>2 DEF Owed, Waiting
  <2>6. ASSUME NEW y \in Exchange PROVE Agree(y)'
    BY <2>3, <2>4, <1>i, <1>t DEF Agree, TypeOK
  <2>7. ASSUME NEW e \in Entry PROVE Recorded(e)'
    <3>1. Recorded(e)
      BY <1>i
    <3>2. CASE e = o
      <4>1. box'[o] = <<>> /\ ending'[o] = a /\ o \notin todo /\ a = claimed[o]
        <5>1. box'[o] = <<>> /\ ending'[o] = a
          BY <2>1, <2>3, <1>t DEF TypeOK
        <5>2. o \notin todo
          BY <2>2, <3>1, <3>2, SMTT(60) DEF Recorded
        <5>. QED BY <2>3, <5>1, <5>2 DEF a
      <4>2. ~(holds[o[1]] < o[2]) /\ held[o[1]] # o[2]
        BY <2>1, <2>2, <2>4, <3>1, <3>2 DEF Recorded, Owed
      <4>. QED BY <2>3, <3>2, <4>1, <4>2 DEF Recorded
    <3>3. CASE e # o
      BY <2>1, <2>3, <2>5, <3>1, <3>3, <1>t DEF Recorded, TypeOK
    <3>. QED BY <3>2, <3>3
  <2>8. ASSUME NEW c \in Caller PROVE Alone(c)'
    <3>1. CASE call[c] = Nobody BY <2>3, <3>1 DEF Alone
    <3>2. CASE call[c] # Nobody
      <4>1. Alone(c) /\ call[c].to \in Entry BY <1>i, <1>t, <3>2 DEF TypeOK
      <4>2. call[c].to # o
        <5>1. box[o] # <<>>
          BY <2>2
        <5>. QED BY <5>1, <3>2, <4>1 DEF Alone
      <4>3. box'[call[c].to] = box[call[c].to]
        BY <2>1, <2>3, <4>1, <4>2, <1>t DEF TypeOK
      <4>. QED BY <2>3, <2>5, <3>2, <4>1, <4>2, <4>3 DEF Alone
    <3>. QED BY <3>1, <3>2
  <2>. QED BY <2>6, <2>7, <2>8
<1>4. ASSUME NEW x \in Exchange, NEW how \in {"timeout", "client gone"}, GiveUp(x, how)
      PROVE  /\ \A y \in Exchange : Agree(y)'
             /\ \A e \in Entry : Recorded(e)'
             /\ \A c \in Caller : Alone(c)'
  <2>. DEFINE o == Current(x)
  <2>1. o \in Entry /\ o[1] = x /\ o[2] = holds[x]
    <3>1. holds[x] \in Nat /\ holds[x] # 0 /\ holds[x] <= Hits[x]
      BY <1>4, <1>i, <1>t DEF GiveUp, Agree, TypeOK
    <3>. QED BY <3>1, EntryFacts DEF Current
  <2>2. UNCHANGED <<holds, box, call, claimed, todo>> /\ at[x] = "parked"
    BY <1>4 DEF GiveUp, stop
  <2>3. CASE held[x] = holds[x]
    <3>1. /\ held' = [held EXCEPT ![x] = 0] /\ ending' = [ending EXCEPT ![o] = how]
          /\ at'[x] \in {"reset", "running"} /\ \E p \in Where : at' = [at EXCEPT ![x] = p]
      BY <1>4, <2>3, <1>t DEF GiveUp, Ends, Where, TypeOK
    <3>2. claimed[o] = "none" /\ ending[o] = "none" /\ held[x] # 0
      BY <1>4, <1>i, <2>1, <2>3 DEF Recorded, GiveUp, Agree
    <3>. HIDE DEF o
    <3>3. ASSUME NEW e \in Entry, Owed(e) PROVE Owed(e)' /\ e # o
      <4>1. e[1] # x /\ e # o /\ e[1] \in Exchange
        BY <2>1, <3>2, <3>3, EntryFacts DEF Owed, Waiting
      <4>2. at'[e[1]] = at[e[1]] /\ held'[e[1]] = held[e[1]] /\ ending'[e] = ending[e]
        BY <2>1, <3>1, <4>1, <1>t DEF TypeOK
      <4>. QED BY <2>2, <3>3, <4>1, <4>2 DEF Owed, Waiting
    <3>4. ASSUME NEW y \in Exchange PROVE Agree(y)'
      BY <2>2, <3>1, <1>i, <1>t DEF Agree, TypeOK
    <3>5. ASSUME NEW e \in Entry PROVE Recorded(e)'
      <4>1. Recorded(e) /\ e[1] \in Exchange /\ e[2] # 0 /\ e[2] \in Nat
        BY <1>i, EntryFacts
      <4>2. held'[e[1]] = e[2] => held[e[1]] = e[2] /\ e # o
        BY <2>1, <3>1, <4>1, <1>t DEF TypeOK
      <4>3. e # o => ending'[e] = ending[e]
        BY <3>1, <2>1, <1>t DEF TypeOK
      <4>4. CASE e = o
        <5>1. ~(holds[e[1]] < e[2]) /\ ~Owed(e) /\ claimed[e] = "none"
          <6>1. holds[x] \in Nat /\ e[2] = holds[x] /\ e[1] = x
            BY <2>1, <4>4, <1>t DEF TypeOK
          <6>2. ~(holds[e[1]] < e[2])
            <7>1. holds[e[1]] = e[2] /\ e[2] \in Nat
              BY <6>1, Zenon
            <7>. QED BY <7>1, NotBelowItself, Zenon
          <6>3. claimed[e] = "none"
            BY <3>2, <4>4
          <6>. QED BY <6>2, <6>3 DEF Owed
        <5>2. box[e] = <<>> /\ e \notin todo /\ held'[e[1]] # e[2]
          BY <4>1, <4>2, <4>4, <5>1 DEF Recorded
        <5>. QED BY <2>2, <5>1, <5>2 DEF Recorded
      <4>5. CASE e # o
        BY <2>2, <3>3, <4>1, <4>2, <4>3, <4>5 DEF Recorded
      <4>. QED BY <4>4, <4>5
    <3>6. ASSUME NEW c \in Caller PROVE Alone(c)'
      <4>1. CASE call[c] = Nobody BY <2>2, <4>1 DEF Alone
      <4>2. CASE call[c] # Nobody
        <5>1. Alone(c) /\ call[c].to \in Entry BY <1>i, <1>t, <4>2 DEF TypeOK
        <5>. QED BY <2>2, <3>3, <4>2, <5>1 DEF Alone
      <4>. QED BY <4>1, <4>2
    <3>. QED BY <3>4, <3>5, <3>6
  <2>4. CASE held[x] # holds[x]
    <3>1. at' = [at EXCEPT ![x] = "owed"] /\ UNCHANGED <<held, ending>>
      BY <1>4, <2>4 DEF GiveUp
    <3>2. held[x] = 0
      BY <1>4, <1>i, <2>4 DEF GiveUp, Agree
    <3>3. ASSUME NEW e \in Entry, Owed(e) PROVE Owed(e)'
      BY <2>2, <3>1, <3>3, <1>t, EntryFacts DEF Owed, Waiting, TypeOK
    <3>4. ASSUME NEW y \in Exchange PROVE Agree(y)'
      BY <2>2, <3>1, <3>2, <1>i, <1>t DEF Agree, TypeOK
    <3>5. ASSUME NEW e \in Entry PROVE Recorded(e)'
      <4>1. Recorded(e) BY <1>i
      <4>. QED BY <2>2, <3>1, <3>3, <4>1 DEF Recorded
    <3>6. ASSUME NEW c \in Caller PROVE Alone(c)'
      <4>1. CASE call[c] = Nobody BY <2>2, <4>1 DEF Alone
      <4>2. CASE call[c] # Nobody
        <5>1. Alone(c) /\ call[c].to \in Entry BY <1>i, <1>t, <4>2 DEF TypeOK
        <5>. QED BY <2>2, <3>3, <4>2, <5>1 DEF Alone
      <4>. QED BY <4>1, <4>2
    <3>. QED BY <3>4, <3>5, <3>6
  <2>. QED BY <2>3, <2>4
<1>5. ASSUME NEW k \in Caller, NEW x \in Exchange, NEW a \in {"resume", "drop"},
             Claim(k, x, a)
      PROVE  /\ \A y \in Exchange : Agree(y)'
             /\ \A e \in Entry : Recorded(e)'
             /\ \A c \in Caller : Alone(c)'
  <2>0. <<x, held[x]>> \in Entry /\ held[x] # 0
    BY <1>5, <1>t, EntryFacts DEF Claim, TypeOK
  <2>1. PICK o \in Entry : o = <<x, held[x]>> /\ o[1] = x /\ o[2] = held[x] /\ held[x] # 0
    BY <2>0
  <2>. DEFINE r == [to |-> o, act |-> a]
  <2>2. /\ held' = [held EXCEPT ![x] = 0] /\ call' = [call EXCEPT ![k] = r]
        /\ claimed' = [claimed EXCEPT ![o] = a] /\ call[k] = Nobody
        /\ UNCHANGED <<at, holds, box, ending, todo>>
    BY <1>5, <2>1 DEF Claim, exchange, stop
  <2>3. /\ at[x] = "parked" /\ held[x] = holds[x] /\ claimed[o] = "none" /\ ending[o] = "none"
        /\ box[o] = <<>> /\ o \notin todo
    BY <1>i, <2>1 DEF Agree, Recorded, Owed
  <2>r. r \in [to : Entry, act : Answer] /\ r # Nobody /\ r.to = o /\ r.act = a
    BY <2>1, NobodyAssumption DEF Answer
  <2>. HIDE DEF r
  <2>4. Owed(o)'
    <3>1. held'[x] = 0 /\ claimed'[o] = a /\ a # "none"
      BY <2>1, <2>2, <1>t DEF TypeOK
    <3>. QED BY <2>1, <2>2, <2>3, <3>1 DEF Owed, Waiting
  <2>5. ASSUME NEW e \in Entry, Owed(e) PROVE Owed(e)' /\ e # o
    BY <2>1, <2>2, <2>3, <2>5, <1>t, EntryFacts DEF Owed, Waiting, TypeOK
  <2>6. ASSUME NEW y \in Exchange PROVE Agree(y)'
    BY <2>2, <1>i, <1>t DEF Agree, TypeOK
  <2>7. ASSUME NEW e \in Entry PROVE Recorded(e)'
    <3>1. Recorded(e) /\ e[1] \in Exchange /\ e[2] # 0 /\ e[2] \in Nat
      BY <1>i, EntryFacts
    <3>2. held'[e[1]] = e[2] => held[e[1]] = e[2] /\ e # o
      BY <2>1, <2>2, <3>1, <1>t DEF TypeOK
    <3>3. CASE e = o
      <4>1. ~(holds[e[1]] < e[2])
        BY <2>1, <2>3, <3>3, <1>t DEF TypeOK
      <4>. QED BY <2>1, <2>2, <2>3, <3>2, <3>3, <4>1 DEF Recorded
    <3>4. CASE e # o
      <4>1. claimed'[e] = claimed[e]
        BY <2>1, <2>2, <3>4, <1>t DEF TypeOK
      <4>. QED BY <2>2, <2>5, <3>1, <3>2, <3>4, <4>1 DEF Recorded
    <3>. QED BY <3>3, <3>4
  <2>8. ASSUME NEW c \in Caller PROVE Alone(c)'
    <3>1. \A d \in Caller : call'[d] = IF d = k THEN r ELSE call[d]
      BY <2>2, <1>t DEF TypeOK
    <3>2. \A d \in Caller : call[d] # Nobody => call[d].to # o /\ call[d].to \in Entry
      BY <2>3, <1>i, <1>t DEF Alone, TypeOK, Owed
    <3>3. claimed'[o] = a /\ \A e \in Entry : e # o => claimed'[e] = claimed[e]
      BY <2>1, <2>2, <1>t DEF TypeOK
    <3>4. CASE c = k
      BY <2>2, <2>3, <2>r, <2>4, <3>1, <3>2, <3>3, <3>4 DEF Alone
    <3>5. CASE c # k
      <4>1. Alone(c) BY <1>i
      <4>. QED BY <2>2, <2>r, <2>5, <3>1, <3>2, <3>3, <3>5, <4>1 DEF Alone
    <3>. QED BY <3>4, <3>5
  <2>. QED BY <2>6, <2>7, <2>8
<1>6. ASSUME NEW k \in Caller, Send(k)
      PROVE  /\ \A y \in Exchange : Agree(y)'
             /\ \A e \in Entry : Recorded(e)'
             /\ \A c \in Caller : Alone(c)'
  <2>. DEFINE o == call[k].to
  <2>1. o \in Entry /\ call[k].act = claimed[o] /\ claimed[o] # "none" /\ Owed(o)
        /\ o \notin todo /\ \A d \in Caller \ {k} : call[d] # Nobody => call[d].to # o
    BY <1>6, <1>i, <1>t DEF Send, Alone, TypeOK, Owed
  <2>2. /\ box' = [box EXCEPT ![o] = <<claimed[o]>>] /\ call' = [call EXCEPT ![k] = Nobody]
        /\ UNCHANGED <<at, holds, held, claimed, ending, todo>>
    BY <1>6, <2>1 DEF Send, Put, exchange, stop
  <2>. HIDE DEF o
  <2>3. \A e \in Entry : (Owed(e)' <=> Owed(e)) /\ (e # o => box'[e] = box[e])
    BY <2>1, <2>2, <1>t DEF Owed, Waiting, TypeOK
  <2>4. ASSUME NEW y \in Exchange PROVE Agree(y)'
    BY <2>2, <1>i DEF Agree
  <2>5. ASSUME NEW e \in Entry PROVE Recorded(e)'
    <3>1. Recorded(e) BY <1>i
    <3>2. CASE e = o
      <4>1. box'[e] = <<claimed[e]>>
        BY <2>1, <2>2, <3>2, <1>t DEF TypeOK
      <4>. QED BY <2>1, <2>2, <2>3, <3>1, <3>2, <4>1 DEF Recorded
    <3>3. CASE e # o
      BY <2>2, <2>3, <3>1, <3>3 DEF Recorded
    <3>. QED BY <3>2, <3>3
  <2>6. ASSUME NEW c \in Caller PROVE Alone(c)'
    <3>1. \A d \in Caller : call'[d] = IF d = k THEN Nobody ELSE call[d]
      BY <2>2, <1>t DEF TypeOK
    <3>2. CASE call'[c] = Nobody BY <3>2 DEF Alone
    <3>3. CASE call'[c] # Nobody
      <4>1. c # k /\ Alone(c) /\ call'[c] = call[c] /\ call[c].to \in Entry
        BY <3>1, <3>3, <1>i, <1>t DEF TypeOK
      <4>. QED BY <2>1, <2>2, <2>3, <3>1, <3>3, <4>1 DEF Alone
    <3>. QED BY <3>2, <3>3
  <2>. QED BY <2>4, <2>5, <2>6
<1>7. ASSUME ReleaseAll
      PROVE  /\ \A y \in Exchange : Agree(y)'
             /\ \A e \in Entry : Recorded(e)'
             /\ \A c \in Caller : Alone(c)'
  <2>1. /\ todo' = Listed /\ held' = [x \in Exchange |-> 0]
        /\ UNCHANGED <<at, holds, box, call, ending>>
        /\ \A e \in Entry : claimed'[e] = IF e \in Listed THEN "release" ELSE claimed[e]
    BY <1>7 DEF ReleaseAll, exchange
  <2>2. ASSUME NEW e \in Entry, e \in Listed
        PROVE  claimed[e] = "none" /\ box[e] = <<>> /\ ending[e] = "none" /\ Owed(e)'
    <3>1. held[e[1]] = e[2] /\ e[2] # 0 /\ e[1] \in Exchange
      BY <2>2, EntryFacts DEF Listed
    <3>2. holds[e[1]] = e[2] /\ at[e[1]] = "parked"
      BY <3>1, <1>i DEF Agree
    <3>3. claimed[e] = "none" /\ ending[e] = "none" /\ box[e] = <<>>
      BY <3>1, <1>i DEF Recorded, Owed
    <3>. QED BY <2>1, <2>2, <3>1, <3>2, <3>3 DEF Owed, Waiting
  <2>3. ASSUME NEW e \in Entry, Owed(e) PROVE Owed(e)' /\ e \notin Listed
    <3>1. e \notin Listed BY <2>2, <2>3 DEF Owed
    <3>. QED BY <2>1, <2>3, <3>1, EntryFacts DEF Owed, Waiting
  <2>4. ASSUME NEW y \in Exchange PROVE Agree(y)'
    BY <2>1, <1>i DEF Agree
  <2>5. ASSUME NEW e \in Entry PROVE Recorded(e)'
    <3>1. Recorded(e) /\ held'[e[1]] # e[2]
      BY <2>1, <1>i, EntryFacts
    <3>2. CASE e \in Listed
      <4>1. ~(holds[e[1]] < e[2])
        <5>1. holds'[e[1]] = e[2]
          BY <2>2, <3>2 DEF Owed, Waiting
        <5>. QED BY <2>1, <5>1, EntryFacts
      <4>. QED BY <2>1, <2>2, <3>1, <3>2, <4>1 DEF Recorded
    <3>3. CASE e \notin Listed
      BY <2>1, <2>3, <3>1, <3>3 DEF Recorded
    <3>. QED BY <3>2, <3>3
  <2>6. ASSUME NEW c \in Caller PROVE Alone(c)'
    <3>1. CASE call[c] = Nobody BY <2>1, <3>1 DEF Alone
    <3>2. CASE call[c] # Nobody
      <4>1. Alone(c) /\ call[c].to \in Entry BY <1>i, <1>t, <3>2 DEF TypeOK
      <4>. QED BY <2>1, <2>3, <3>2, <4>1 DEF Alone
    <3>. QED BY <3>1, <3>2
  <2>. QED BY <2>4, <2>5, <2>6
<1>8. ASSUME NEW o \in Entry, Release(o)
      PROVE  /\ \A y \in Exchange : Agree(y)'
             /\ \A e \in Entry : Recorded(e)'
             /\ \A c \in Caller : Alone(c)'
  <2>1. /\ o \in todo /\ box' = [box EXCEPT ![o] = <<"release">>] /\ todo' = todo \ {o}
        /\ UNCHANGED <<at, holds, held, call, claimed, ending>>
    BY <1>8 DEF Release, Put, exchange
  <2>2. claimed[o] = "release" /\ Owed(o)
    BY <2>1, <1>i DEF Recorded
  <2>3. \A e \in Entry : (Owed(e)' <=> Owed(e)) /\ (e # o => box'[e] = box[e])
    BY <2>1, <1>t DEF Owed, Waiting, TypeOK
  <2>4. ASSUME NEW y \in Exchange PROVE Agree(y)'
    BY <2>1, <1>i DEF Agree
  <2>5. ASSUME NEW e \in Entry PROVE Recorded(e)'
    <3>1. Recorded(e) BY <1>i
    <3>2. CASE e = o
      <4>1. box'[e] = <<claimed[e]>> /\ e \notin todo'
        BY <2>1, <2>2, <3>2, <1>t DEF TypeOK
      <4>. QED BY <2>1, <2>2, <2>3, <3>1, <3>2, <4>1 DEF Recorded
    <3>3. CASE e # o
      BY <2>1, <2>3, <3>1, <3>3 DEF Recorded
    <3>. QED BY <3>2, <3>3
  <2>6. ASSUME NEW c \in Caller PROVE Alone(c)'
    <3>1. CASE call[c] = Nobody BY <2>1, <3>1 DEF Alone
    <3>2. CASE call[c] # Nobody
      <4>1. Alone(c) /\ call[c].to \in Entry BY <1>i, <1>t, <3>2 DEF TypeOK
      <4>2. call[c].to # o BY <2>1, <3>2, <4>1 DEF Alone
      <4>. QED BY <2>1, <2>3, <3>2, <4>1, <4>2 DEF Alone
    <3>. QED BY <3>1, <3>2
  <2>. QED BY <2>4, <2>5, <2>6
<1>9. ASSUME UNCHANGED <<at, holds, held, box, call, claimed, ending, todo>>
      PROVE  /\ \A y \in Exchange : Agree(y)'
             /\ \A e \in Entry : Recorded(e)'
             /\ \A c \in Caller : Alone(c)'
  <2>1. \A e \in Entry : Owed(e)' <=> Owed(e)
    BY <1>9 DEF Owed, Waiting
  <2>2. ASSUME NEW y \in Exchange PROVE Agree(y)'
    BY <1>9, <1>i DEF Agree
  <2>3. ASSUME NEW e \in Entry PROVE Recorded(e)'
    <3>1. Recorded(e) BY <1>i
    <3>. QED BY <1>9, <2>1, <3>1 DEF Recorded
  <2>4. ASSUME NEW c \in Caller PROVE Alone(c)'
    <3>1. CASE call[c] = Nobody BY <1>9, <3>1 DEF Alone
    <3>2. CASE call[c] # Nobody
      <4>1. Alone(c) /\ call[c].to \in Entry BY <1>i, <1>t, <3>2 DEF TypeOK
      <4>. QED BY <1>9, <2>1, <3>2, <4>1 DEF Alone
    <3>. QED BY <3>1, <3>2
  <2>. QED BY <2>2, <2>3, <2>4
<1>10. Next => \/ \E x \in Exchange : Arrive(x) \/ Finish(x) \/ Park(x) \/ Hear(x)
               \/ \E x \in Exchange : GiveUp(x, "timeout") \/ GiveUp(x, "client gone")
               \/ \E k \in Caller, x \in Exchange, a \in {"resume", "drop"} : Claim(k, x, a)
               \/ \E k \in Caller : Send(k)
               \/ ReleaseAll \/ \E o \in Entry : Release(o)
               \/ UNCHANGED <<at, holds, held, box, call, claimed, ending, todo>>
  BY DEF Next, Goroutine, TimedOut, ClientGone, Leaves, Cut, Over, Stop, Shutdown, Drain,
         Close, Released, Exit, exchange, stop
<1>11. UNCHANGED vars => UNCHANGED <<at, holds, held, box, call, claimed, ending, todo>>
  BY DEF vars, exchange, stop
<1>. QED
  BY <1>1, <1>2, <1>3, <1>4, <1>5, <1>6, <1>7, <1>8, <1>9, <1>10, <1>11

-----------------------------------------------------------------------------
\* The invariant above holds in every reachable state.
LEMMA Invariance == Spec => []Inv
BY InitInv, NextInv, PTL DEF Spec

\* Type correctness.
THEOREM TypeCorrect == Spec => []TypeOK
<1>1. Inv => TypeOK BY DEF Inv
<1>. QED BY <1>1, Invariance, PTL

\* Resume and releaseAll never find the channel of an entry full.
THEOREM SendNeverBlocksHolds == Spec => []SendNeverBlocks
<1>1. Inv => SendNeverBlocks
  BY DEF Inv, Alone, Recorded, SendNeverBlocks, TypeOK
<1>. QED BY <1>1, Invariance, PTL

\* What is listed is parked.
THEOREM OnlyParkedListedHolds == Spec => []OnlyParkedListed
<1>1. Inv => OnlyParkedListed
  BY DEF Inv, Agree, OnlyParkedListed
<1>. QED BY <1>1, Invariance, PTL

-----------------------------------------------------------------------------
(* Every step is a step of the promise or leaves it alone.                 *)

\* Taking x's entry off the registry removes just that entry from the list.
LEMMA Delisted ==
  ASSUME TypeOK, NEW x \in Exchange, NEW o \in Entry, o = <<x, held[x]>>,
         held' = [held EXCEPT ![x] = 0]
  PROVE  o \in Listed /\ Listed' = Listed \ {o}
<1>1. o[1] = x /\ o[2] = held[x]
  OBVIOUS
<1>2. ASSUME NEW e \in Entry PROVE held'[e[1]] = e[2] <=> held[e[1]] = e[2] /\ e # o
  <2>1. held'[e[1]] = IF e[1] = x THEN 0 ELSE held[e[1]]
    BY EntryFacts DEF TypeOK
  <2>2. CASE e[1] = x
    BY <2>1, <2>2, <1>1, EntryFacts
  <2>3. CASE e[1] # x
    BY <2>1, <2>3, <1>1
  <2>. QED BY <2>2, <2>3
<1>. QED BY <1>1, <1>2 DEF Listed

\* No hold is open, decided or ended at the start.
LEMMA InitPromise == Init => Promise!Init
<1>. SUFFICES ASSUME Init PROVE Promise!Init
  OBVIOUS
<1>1. Listed = {}
  BY EntryFacts DEF Init, Listed
<1>. QED BY <1>1 DEF Init, Promise!Init

\* Each step of the proxy, the callers or the shutdown is one of the promise, or none of its business.
LEMMA NextPromise == Inv /\ [Next]_vars => [Promise!Next]_<<Listed, claimed, ending>>
<1>. SUFFICES ASSUME Inv, [Next]_vars
     PROVE  Promise!Next \/ UNCHANGED <<Listed, claimed, ending>>
  OBVIOUS
<1>t. TypeOK BY DEF Inv
<1>i. /\ \A y \in Exchange : Agree(y)
      /\ \A e \in Entry : Recorded(e)
      /\ \A c \in Caller : Alone(c)
  BY DEF Inv
<1>1. ASSUME UNCHANGED <<held, claimed, ending>>
      PROVE  UNCHANGED <<Listed, claimed, ending>>
  BY <1>1 DEF Listed
<1>2. ASSUME NEW x \in Exchange, Park(x) PROVE Promise!Next
  <2>0. holds[x] + 1 \in Nat /\ holds[x] + 1 # 0 /\ holds[x] + 1 <= Hits[x]
    BY <1>2, <1>t, EntryFacts DEF Park, TypeOK
  <2>1. PICK o \in Entry : o = <<x, holds[x] + 1>>
    BY <2>0, EntryFacts
  <2>2. o[1] = x /\ o[2] = holds[x] + 1 /\ held[x] = 0
    BY <1>2, <1>i, <2>1 DEF Park, Agree
  <2>3. /\ \A y \in Exchange : held'[y] = IF y = x THEN o[2] ELSE held[y]
        /\ UNCHANGED <<claimed, ending>>
    BY <1>2, <2>2, <1>t DEF Park, stop, TypeOK
  <2>4. holds[x] < o[2] /\ held[x] # o[2]
    BY <2>0, <2>2, <1>t DEF TypeOK
  <2>5. Listed' = Listed \cup {o}
    <3>1. ASSUME NEW e \in Entry PROVE held'[e[1]] = e[2] <=> held[e[1]] = e[2] \/ e = o
      <4>1. CASE e[1] = x
        BY <2>1, <2>2, <2>3, <4>1, EntryFacts
      <4>2. CASE e[1] # x
        BY <2>2, <2>3, <4>2, EntryFacts
      <4>. QED BY <4>1, <4>2
    <3>. QED BY <3>1 DEF Listed
  <2>6. Promise!Fresh(o)
    BY <1>i, <2>2, <2>4 DEF Promise!Fresh, Listed, Recorded
  <2>. QED BY <2>3, <2>5, <2>6 DEF Promise!Hold, Promise!Next
<1>3. ASSUME NEW x \in Exchange, Hear(x) PROVE Promise!Next
  <2>0. holds[x] \in Nat /\ holds[x] # 0 /\ holds[x] <= Hits[x]
    BY <1>3, <1>i, <1>t DEF Hear, Agree, TypeOK
  <2>1. PICK o \in Entry : o = Current(x)
    BY <2>0, EntryFacts DEF Current
  <2>2. box[o] = <<claimed[o]>> /\ claimed[o] # "none" /\ ending[o] = "none"
    BY <1>3, <1>i, <2>1 DEF Hear, Recorded, Owed
  <2>3. Head(box[o]) = claimed[o]
    BY <2>2
  <2>4. ending' = [ending EXCEPT ![o] = claimed[o]] /\ UNCHANGED <<held, claimed>>
    BY <1>3, <2>1, <2>3 DEF Hear, Ends
  <2>5. Listed' = Listed
    BY <2>4 DEF Listed
  <2>6. Promise!Obey(o)
    BY <2>2, <2>4, <2>5 DEF Promise!Obey
  <2>. QED BY <2>6 DEF Promise!Next
<1>4. ASSUME NEW x \in Exchange, NEW how \in {"timeout", "client gone"}, GiveUp(x, how)
      PROVE  Promise!Next \/ UNCHANGED <<Listed, claimed, ending>>
  <2>1. CASE held[x] = holds[x]
    <3>0. holds[x] \in Nat /\ holds[x] # 0 /\ holds[x] <= Hits[x]
      BY <1>4, <1>i, <1>t DEF GiveUp, Agree, TypeOK
    <3>1. PICK o \in Entry : o = Current(x)
      BY <3>0, EntryFacts DEF Current
    <3>2. /\ held' = [held EXCEPT ![x] = 0] /\ ending' = [ending EXCEPT ![o] = how]
          /\ UNCHANGED claimed /\ o = <<x, held[x]>>
      BY <1>4, <2>1, <3>1 DEF GiveUp, Ends, Current
    <3>3. o \in Listed /\ Listed' = Listed \ {o}
      BY <3>2, <1>t, Delisted
    <3>. QED BY <3>2, <3>3 DEF Promise!GiveUp, Promise!Next
  <2>2. CASE held[x] # holds[x]
    BY <1>4, <2>2 DEF GiveUp, Listed
  <2>. QED BY <2>1, <2>2
<1>5. ASSUME NEW k \in Caller, NEW x \in Exchange, NEW a \in {"resume", "drop"},
             Claim(k, x, a)
      PROVE  Promise!Next
  <2>1. PICK o \in Entry : o = <<x, held[x]>>
    BY <1>5, <1>t, EntryFacts DEF Claim, TypeOK
  <2>2. /\ held' = [held EXCEPT ![x] = 0] /\ claimed' = [claimed EXCEPT ![o] = a]
        /\ UNCHANGED ending
    BY <1>5, <2>1 DEF Claim
  <2>3. o \in Listed /\ Listed' = Listed \ {o}
    BY <2>1, <2>2, <1>t, Delisted
  <2>4. claimed' = [e \in Entry |-> IF e \in {o} THEN a ELSE claimed[e]]
    BY <2>2, <1>t DEF TypeOK
  <2>5. Promise!Decide({o}, a)
    BY <2>2, <2>3, <2>4 DEF Promise!Decide
  <2>. QED BY <2>5 DEF Promise!Next
<1>6. ASSUME ReleaseAll PROVE Promise!Next
  <2>1. /\ UNCHANGED ending
        /\ claimed' = [e \in Entry |-> IF e \in Listed THEN "release" ELSE claimed[e]]
        /\ \A x \in Exchange : held'[x] = 0
    BY <1>6 DEF ReleaseAll
  <2>2. Listed' = Listed \ Listed
    BY <2>1, EntryFacts DEF Listed
  <2>3. Promise!Decide(Listed, "release")
    BY <2>1, <2>2 DEF Promise!Decide
  <2>. QED BY <2>3 DEF Promise!Next
<1>7. Next => \/ \E x \in Exchange : Park(x) \/ Hear(x)
              \/ \E x \in Exchange : GiveUp(x, "timeout") \/ GiveUp(x, "client gone")
              \/ \E k \in Caller, x \in Exchange, a \in {"resume", "drop"} : Claim(k, x, a)
              \/ ReleaseAll
              \/ UNCHANGED <<held, claimed, ending>>
  BY DEF Next, Goroutine, TimedOut, ClientGone, Arrive, Finish, Leaves, Cut, Over, Send,
         Stop, Shutdown, Drain, Close, Released, Exit, Release, exchange, stop
<1>8. UNCHANGED vars => UNCHANGED <<held, claimed, ending>>
  BY DEF vars
<1>. QED BY <1>1, <1>2, <1>3, <1>4, <1>5, <1>6, <1>7, <1>8

\* One ending per hold, the one that was accepted: breakpoints implement their
\* promise.
THEOREM ImplementsPromise == Spec => KeepsPromise
<1>. USE DEF Promise!Spec
<1>. QED BY InitPromise, NextPromise, Invariance, PTL DEF Spec, KeepsPromise

\* What the promise is worth: a hold somebody has decided ends that way.
THEOREM PromiseIsObeyed == Spec => []Promise!Obeyed
<1>1. Inv => Promise!Obeyed
  BY DEF Inv, Recorded, Promise!Obeyed
<1>. QED BY <1>1, Invariance, PTL
=============================================================================
