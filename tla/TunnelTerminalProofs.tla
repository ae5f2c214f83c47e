------------------------ MODULE TunnelTerminalProofs ------------------------
(***************************************************************************)
(* Proofs about what is in front of pano's users.  Tunnel: places, counts  *)
(* and splices of the connections.  Terminal: the list and the detail view *)
(* of the terminal UI, and the certificates that handshakes are given.     *)
(***************************************************************************)
EXTENDS Tunnel, Terminal, FiniteSetTheorems, SequenceTheorems, WellFoundedInduction, TLAPS

-----------------------------------------------------------------------------
(* The connections. *)

\* The handlers that are at one of the stages K.
In(K, a) == {c \in Conn : a[c] \in K}

Counted == InTunnel \cup {"plain"}

\* A direction that is no longer copied has nothing to read, or nowhere to write.
Copies ==
  \A c \in Conn : at[c] = "splice" =>
    \A d \in {"up", "down"} \ copying[c] : From(c, d) # "open" \/ Onto(c, d) = "gone"

Inv == TypeOK /\ PlacesAreHeld /\ Copies

\* How many are at some stages when one of them goes on.
LEMMA OneGoesOn ==
  ASSUME NEW K, NEW c \in Conn, NEW to,
         at \in [Conn -> Stages], at' = [at EXCEPT ![c] = to]
  PROVE  /\ Cardinality(In(K, at)) \in Nat /\ Cardinality(In(K, at')) \in Nat
         /\ (at[c] \in K <=> to \in K) => In(K, at') = In(K, at)
         /\ at[c] \notin K /\ to \in K => Cardinality(In(K, at')) = Cardinality(In(K, at)) + 1
         /\ at[c] \in K /\ to \notin K => Cardinality(In(K, at')) = Cardinality(In(K, at)) - 1
<1>1. IsFiniteSet(Conn)
  BY ConstantsAssumption DEF ConstantsAssumption
<1>2. IsFiniteSet(In(K, at)) /\ IsFiniteSet(In(K, at'))
  BY <1>1, FS_Subset DEF In
<1>3. Cardinality(In(K, at)) \in Nat /\ Cardinality(In(K, at')) \in Nat
  BY <1>2, FS_CardinalityType
<1>4. ASSUME at[c] \in K <=> to \in K
      PROVE  In(K, at') = In(K, at)
  BY <1>4 DEF In
<1>5. ASSUME at[c] \notin K, to \in K
      PROVE  Cardinality(In(K, at')) = Cardinality(In(K, at)) + 1
  <2>1. In(K, at') = In(K, at) \cup {c} /\ c \notin In(K, at)
    BY <1>5 DEF In
  <2> QED
    BY <1>2, <2>1, FS_AddElement
<1>6. ASSUME at[c] \in K, to \notin K
      PROVE  Cardinality(In(K, at')) = Cardinality(In(K, at)) - 1
  <2>1. In(K, at') = In(K, at) \ {c} /\ c \in In(K, at)
    BY <1>6 DEF In
  <2> QED
    BY <1>2, <2>1, FS_RemoveElement
<1> QED
  BY <1>3, <1>4, <1>5, <1>6

\* Places and counts, by stages.
LEMMA PlacesByStage ==
  PlacesAreHeld <=> /\ slots = Cardinality(In(InTunnel, at))
                    /\ active = Cardinality(In(Counted, at))
<1>1. In(InTunnel, at) = {c \in Conn : at[c] \in InTunnel}
  BY DEF In
<1>2. In(Counted, at) = {c \in Conn : at[c] \in InTunnel} \cup {c \in Conn : at[c] = "plain"}
  BY DEF In, Counted
<1> QED
  BY <1>1, <1>2 DEF PlacesAreHeld

\* Stages of a tunnel are counted; the others are neither.
LEMMA StagesApart ==
  /\ InTunnel \subseteq Stages /\ Counted \subseteq Stages
  /\ {"none", "plain", "refused", "returned"} \subseteq Stages
  /\ \A t \in InTunnel : t \in Counted
  /\ \A t \in {"none", "refused", "returned"} : t \notin InTunnel /\ t \notin Counted
  /\ "plain" \notin InTunnel /\ "plain" \in Counted
BY DEF InTunnel, Counted, Stages

\* Going on within a tunnel, or outside.
LEMMA GoesOnWithin ==
  ASSUME TypeOK, PlacesAreHeld, NEW c \in Conn, NEW from, NEW to,
         from \in InTunnel <=> to \in InTunnel, from \in Counted <=> to \in Counted,
         to \in Stages,
         Go(c, from, to), UNCHANGED <<slots, active>>
  PROVE  PlacesAreHeld' /\ at' \in [Conn -> Stages]
<1>1. at \in [Conn -> Stages] /\ at' = [at EXCEPT ![c] = to] /\ at[c] = from
  BY DEF TypeOK, Go
<1>2. In(InTunnel, at') = In(InTunnel, at)
  BY <1>1, OneGoesOn
<1>3. In(Counted, at') = In(Counted, at)
  BY <1>1, OneGoesOn
<1>4. PlacesAreHeld'
  BY <1>2, <1>3, PlacesByStage DEF PlacesAreHeld, In, Counted
<1> QED
  BY <1>1, <1>4

\* Giving back: whatever a tunnel was doing when its handler returns, there is a
\* place to give back.
LEMMA ReturnKeeps ==
  ASSUME TypeOK, PlacesAreHeld, NEW c \in Conn, NEW from \in InTunnel, Return(c, from)
  PROVE  /\ PlacesAreHeld' /\ at' \in [Conn -> Stages]
         /\ slots' \in 0..MaxConns /\ active' \in Nat
         /\ client' \in [Conn -> Ends]
<1>1. /\ at \in [Conn -> Stages] /\ at' = [at EXCEPT ![c] = "returned"] /\ at[c] = from
      /\ slots' = slots - 1 /\ active' = active - 1
  BY DEF TypeOK, Return, Go
<1>0. at[c] \in InTunnel /\ at[c] \in Counted /\ "returned" \notin InTunnel /\ "returned" \notin Counted
  BY <1>1, StagesApart
<1>2. /\ Cardinality(In(InTunnel, at')) = Cardinality(In(InTunnel, at)) - 1
      /\ Cardinality(In(InTunnel, at')) \in Nat
  BY <1>0, <1>1, OneGoesOn
<1>3. /\ Cardinality(In(Counted, at')) = Cardinality(In(Counted, at)) - 1
      /\ Cardinality(In(Counted, at')) \in Nat
  BY <1>0, <1>1, OneGoesOn
<1>4. slots = Cardinality(In(InTunnel, at)) /\ active = Cardinality(In(Counted, at))
  BY PlacesByStage
<1>5. slots' = Cardinality(In(InTunnel, at')) /\ active' = Cardinality(In(Counted, at'))
  BY <1>1, <1>2, <1>3, <1>4
<1>6. PlacesAreHeld'
  <2>1. In(InTunnel, at') = {x \in Conn : at'[x] \in InTunnel}
    BY DEF In
  <2>2. In(Counted, at') = {x \in Conn : at'[x] \in InTunnel} \cup {x \in Conn : at'[x] = "plain"}
    BY DEF In, Counted
  <2> QED
    BY <1>5, <2>1, <2>2 DEF PlacesAreHeld
<1>7. slots' \in 0..MaxConns /\ active' \in Nat
  BY <1>1, <1>2, <1>3, <1>4, ConstantsAssumption DEF TypeOK, ConstantsAssumption
<1>8. at' \in [Conn -> Stages]
  BY <1>1, StagesApart
<1>9. client' \in [Conn -> Ends]
  BY DEF TypeOK, Return, Ends
<1> QED
  BY <1>6, <1>7, <1>8, <1>9

-----------------------------------------------------------------------------
\* The handler of a connection keeps places and types.
LEMMA HandlerKeeps ==
  ASSUME TypeOK, PlacesAreHeld, NEW c \in Conn, Handler(c)
  PROVE  PlacesAreHeld' /\ TypeOK'
<1> DEFINE Rest == /\ origin' \in [Conn -> Ends]
                   /\ copying' \in [Conn -> SUBSET {"up", "down"}]
                   /\ serving' \subseteq Conn
                   /\ flow' \in [Conn -> {"none", "started", "done"}]
                   /\ decrypts' \in BOOLEAN
                   /\ server' \in {"up", "draining", "drained", "closed"}
<1>1. ASSUME UNCHANGED <<slots, active, client>>, Rest, NEW from \in InTunnel,
             NEW to \in InTunnel, Go(c, from, to)
      PROVE  PlacesAreHeld' /\ TypeOK'
  <2>1. PlacesAreHeld' /\ at' \in [Conn -> Stages]
    BY <1>1, GoesOnWithin, StagesApart
  <2> QED
    BY <1>1, <2>1 DEF TypeOK
<1>2. ASSUME NEW from \in InTunnel, Return(c, from), Rest
      PROVE  PlacesAreHeld' /\ TypeOK'
  BY <1>2, ReturnKeeps DEF TypeOK
<1>3. {"hijacked", "dial", "splice", "handshake", "http1", "http2"} \subseteq InTunnel
  BY DEF InTunnel
<1>4. CASE NotEstablished(c)
  <2>1. Return(c, "hijacked") /\ Rest
    BY <1>4 DEF NotEstablished, Return, TypeOK
  <2> QED
    BY <1>2, <1>3, <2>1
<1>5. CASE Established(c)
  <2>1. UNCHANGED <<slots, active, client>> /\ Rest
    BY <1>5 DEF Established, TypeOK
  <2>2. Go(c, "hijacked", "handshake") \/ Go(c, "hijacked", "dial")
    BY <1>5 DEF Established
  <2> QED
    BY <1>1, <1>3, <2>1, <2>2
<1>6. CASE HandshakeFails(c)
  <2>1. Return(c, "handshake") /\ Rest
    BY <1>6 DEF HandshakeFails, Return, TypeOK
  <2> QED
    BY <1>2, <1>3, <2>1
<1>7. ASSUME NEW p \in {"http1", "http2"}, Decrypted(c, p)
      PROVE  PlacesAreHeld' /\ TypeOK'
  <2>1. UNCHANGED <<slots, active, client>> /\ Rest /\ Go(c, "handshake", p)
    BY <1>7 DEF Decrypted, TypeOK
  <2> QED
    BY <1>1, <1>3, <2>1
<1>8. CASE HTTP1Returns(c)
  <2>1. Return(c, "http1") /\ Rest
    BY <1>8 DEF HTTP1Returns, Return, TypeOK
  <2> QED
    BY <1>2, <1>3, <2>1
<1>9. CASE HTTP2Returns(c)
  <2>1. Return(c, "http2") /\ Rest
    BY <1>9 DEF HTTP2Returns, Return, TypeOK
  <2> QED
    BY <1>2, <1>3, <2>1
<1>10. CASE DialFails(c)
  <2>1. Return(c, "dial") /\ Rest
    BY <1>10 DEF DialFails, Return, TypeOK
  <2> QED
    BY <1>2, <1>3, <2>1
<1>11. CASE Dialed(c)
  <2>1. UNCHANGED <<slots, active, client>> /\ Rest /\ Go(c, "dial", "splice")
    BY <1>11 DEF Dialed, TypeOK
  <2> QED
    BY <1>1, <1>3, <2>1
<1>12. CASE Spliced(c)
  <2>1. Return(c, "splice") /\ Rest
    BY <1>12 DEF Spliced, Return, TypeOK, Ends
  <2> QED
    BY <1>2, <1>3, <2>1
<1> HIDE DEF Rest
<1> QED
  BY <1>4, <1>5, <1>6, <1>7, <1>8, <1>9, <1>10, <1>11, <1>12 DEF Handler

\* A connection that takes no part any more, or not yet, in the counts.
LEMMA PortKeeps ==
  ASSUME TypeOK, PlacesAreHeld, NEW c \in Conn,
         Connect(c) \/ Refuse(c) \/ Plain(c) \/ PlainDone(c)
  PROVE  PlacesAreHeld' /\ TypeOK'
<1>1. slots = Cardinality(In(InTunnel, at)) /\ active = Cardinality(In(Counted, at))
  BY PlacesByStage
<1>2. at \in [Conn -> Stages] /\ slots \in 0..MaxConns /\ active \in Nat /\ MaxConns \in Nat
  BY ConstantsAssumption DEF TypeOK, ConstantsAssumption
<1>3. ASSUME slots' = Cardinality(In(InTunnel, at')), active' = Cardinality(In(Counted, at'))
      PROVE  PlacesAreHeld'
  <2>1. In(InTunnel, at') = {x \in Conn : at'[x] \in InTunnel}
    BY DEF In
  <2>2. In(Counted, at') = {x \in Conn : at'[x] \in InTunnel} \cup {x \in Conn : at'[x] = "plain"}
    BY DEF In, Counted
  <2> QED
    BY <1>3, <2>1, <2>2 DEF PlacesAreHeld
<1>4. CASE Connect(c)
  <2>1. /\ at[c] = "none" /\ at' = [at EXCEPT ![c] = "hijacked"]
        /\ slots < MaxConns /\ slots' = slots + 1 /\ active' = active + 1
    BY <1>4 DEF Connect, Go, Room
  <2>2. "hijacked" \in InTunnel /\ "hijacked" \in Counted /\ at[c] \notin InTunnel /\ at[c] \notin Counted
    BY <2>1, StagesApart DEF InTunnel
  <2>3. Cardinality(In(InTunnel, at')) = slots + 1
    BY <1>1, <1>2, <2>1, <2>2, OneGoesOn
  <2>4. Cardinality(In(Counted, at')) = active + 1
    BY <1>1, <1>2, <2>1, <2>2, OneGoesOn
  <2>5. TypeOK'
    BY <1>2, <1>4, <2>1, <2>2, StagesApart DEF Connect, TypeOK
  <2> QED
    BY <1>3, <2>1, <2>3, <2>4, <2>5
<1>5. CASE Refuse(c)
  <2>1. PlacesAreHeld' /\ at' \in [Conn -> Stages]
    BY <1>5, GoesOnWithin, StagesApart DEF Refuse
  <2> QED
    BY <1>5, <2>1 DEF Refuse, TypeOK
<1>6. CASE Plain(c)
  <2>1. /\ at[c] = "none" /\ at' = [at EXCEPT ![c] = "plain"]
        /\ slots' = slots /\ active' = active + 1
    BY <1>6 DEF Plain, Go
  <2>2. "plain" \notin InTunnel /\ "plain" \in Counted /\ at[c] \notin InTunnel /\ at[c] \notin Counted
    BY <2>1, StagesApart
  <2>3. In(InTunnel, at') = In(InTunnel, at)
    BY <1>2, <2>1, <2>2, OneGoesOn
  <2>4. Cardinality(In(Counted, at')) = active + 1
    BY <1>1, <1>2, <2>1, <2>2, OneGoesOn
  <2>5. TypeOK'
    BY <1>2, <1>6, <2>1, StagesApart DEF Plain, TypeOK
  <2> QED
    BY <1>1, <1>3, <2>1, <2>3, <2>4, <2>5
<1>7. CASE PlainDone(c)
  <2>1. /\ at[c] = "plain" /\ at' = [at EXCEPT ![c] = "returned"]
        /\ slots' = slots /\ active' = active - 1
    BY <1>7 DEF PlainDone, Go
  <2>2. /\ at[c] \notin InTunnel /\ at[c] \in Counted
        /\ "returned" \notin InTunnel /\ "returned" \notin Counted
    BY <2>1, StagesApart
  <2>3. In(InTunnel, at') = In(InTunnel, at)
    BY <1>2, <2>1, <2>2, OneGoesOn
  <2>4. Cardinality(In(Counted, at')) = active - 1 /\ active - 1 \in Nat
    BY <1>1, <1>2, <2>1, <2>2, OneGoesOn
  <2>5. TypeOK'
    BY <1>2, <1>7, <2>1, <2>4, StagesApart DEF PlainDone, TypeOK
  <2> QED
    BY <1>1, <1>3, <2>1, <2>3, <2>4, <2>5
<1> QED
  BY <1>4, <1>5, <1>6, <1>7

\* What the ends, the copies and net/http do leaves places and counts alone.
LEMMA OthersKeep ==
  ASSUME TypeOK, PlacesAreHeld, NEW c \in Conn,
         \/ Served(c) \/ \E d \in {"up", "down"} : CopyEnds(c, d) \/ CopyFails(c, d)
         \/ ClientLeaves(c) \/ OriginLeaves(c)
  PROVE  PlacesAreHeld' /\ TypeOK'
<1>1. UNCHANGED <<at, slots, active>>
  BY DEF Served, CopyEnds, CopyFails, ClientLeaves, OriginLeaves
<1>2. PlacesAreHeld'
  BY <1>1 DEF PlacesAreHeld
<1>3. CASE Served(c)
  <2>1. client' \in [Conn -> Ends]
    BY <1>3 DEF Served, TypeOK, Ends
  <2> QED
    BY <1>2, <1>3, <2>1 DEF Served, TypeOK
<1>4. ASSUME NEW d \in {"up", "down"}, CopyEnds(c, d) \/ CopyFails(c, d)
      PROVE  TypeOK'
  <2>1. copying' = [copying EXCEPT ![c] = @ \ {d}]
    BY <1>4 DEF CopyEnds, CopyFails
  <2>2. copying' \in [Conn -> SUBSET {"up", "down"}]
    BY <2>1 DEF TypeOK
  <2> QED
    BY <1>4, <2>2 DEF CopyEnds, CopyFails, TypeOK
<1>5. CASE ClientLeaves(c)
  <2>1. client' \in [Conn -> Ends]
    BY <1>5 DEF ClientLeaves, TypeOK, Ends
  <2> QED
    BY <1>2, <1>5, <2>1 DEF ClientLeaves, TypeOK
<1>6. CASE OriginLeaves(c)
  <2>1. origin' \in [Conn -> Ends]
    BY <1>6 DEF OriginLeaves, TypeOK, Ends
  <2> QED
    BY <1>2, <1>6, <2>1 DEF OriginLeaves, TypeOK
<1> QED
  BY <1>2, <1>3, <1>4, <1>5, <1>6

LEMMA StepKeepsPlaces ==
  TypeOK /\ PlacesAreHeld /\ [Next]_vars => PlacesAreHeld' /\ TypeOK'
<1> SUFFICES ASSUME TypeOK, PlacesAreHeld, [Next]_vars
             PROVE  PlacesAreHeld' /\ TypeOK'
  OBVIOUS
<1>1. CASE UNCHANGED vars
  BY <1>1 DEF vars, TypeOK, PlacesAreHeld
<1>2. ASSUME NEW c \in Conn, Connect(c) \/ Refuse(c) \/ Plain(c) \/ PlainDone(c)
      PROVE  PlacesAreHeld' /\ TypeOK'
  BY <1>2, PortKeeps
<1>3. ASSUME NEW c \in Conn, Handler(c)
      PROVE  PlacesAreHeld' /\ TypeOK'
  BY <1>3, HandlerKeeps
<1>4. ASSUME NEW c \in Conn,
             \/ Served(c) \/ \E d \in {"up", "down"} : CopyEnds(c, d) \/ CopyFails(c, d)
             \/ ClientLeaves(c) \/ OriginLeaves(c)
      PROVE  PlacesAreHeld' /\ TypeOK'
  BY <1>4, OthersKeep
<1>5. ASSUME SetDecrypt \/ Shutdown \/ Drained \/ Close
      PROVE  PlacesAreHeld' /\ TypeOK'
  <2>1. UNCHANGED <<at, slots, active>>
    BY <1>5 DEF SetDecrypt, Shutdown, Drained, Close
  <2>2. client' \in [Conn -> Ends]
    BY <1>5 DEF SetDecrypt, Shutdown, Drained, Close, TypeOK, Ends
  <2>3. TypeOK'
    BY <1>5, <2>1, <2>2 DEF SetDecrypt, Shutdown, Drained, Close, TypeOK
  <2> QED
    BY <2>1, <2>3 DEF PlacesAreHeld
<1> QED
  BY <1>1, <1>2, <1>3, <1>4, <1>5 DEF Next

LEMMA InitKeepsPlaces == Init => TypeOK /\ PlacesAreHeld
<1> SUFFICES ASSUME Init PROVE TypeOK /\ PlacesAreHeld
  OBVIOUS
<1>1. TypeOK
  BY ConstantsAssumption DEF Init, TypeOK, Stages, Ends, ConstantsAssumption
<1>2. In(InTunnel, at) = {} /\ In(Counted, at) = {}
  BY StagesApart DEF Init, In
<1>3. PlacesAreHeld
  BY <1>2, PlacesByStage, FS_EmptySet DEF Init
<1> QED
  BY <1>1, <1>3

\* Every reachable state is well typed: no more places are taken than there are,
\* and none is given back that was not taken.
THEOREM TypeCorrect == Spec => []TypeOK
<1>1. Init => TypeOK /\ PlacesAreHeld
  BY InitKeepsPlaces
<1>2. TypeOK /\ PlacesAreHeld /\ [Next]_vars => (TypeOK /\ PlacesAreHeld)'
  BY StepKeepsPlaces
<1> QED
  BY <1>1, <1>2, PTL DEF Spec

\* The semaphore and ActiveConns count the handlers that have not returned,
\* however they return, for any connections and any limit.
THEOREM PlacesHeld == Spec => []PlacesAreHeld
<1>1. Init => TypeOK /\ PlacesAreHeld
  BY InitKeepsPlaces
<1>2. TypeOK /\ PlacesAreHeld /\ [Next]_vars => (TypeOK /\ PlacesAreHeld)'
  BY StepKeepsPlaces
<1> QED
  BY <1>1, <1>2, PTL DEF Spec

-----------------------------------------------------------------------------
(* Splices.                                                                *)

\* Nobody who has stopped sending sends again, nobody who has gone returns.
Further(a, b) == (a # "open" => b # "open") /\ (a = "gone" => b = "gone")

LEMMA EndsOnlyLeave ==
  ASSUME TypeOK, [Next]_vars, NEW c \in Conn
  PROVE  Further(client[c], client'[c]) /\ Further(origin[c], origin'[c])
<1>1. \A x \in Conn, f \in Stages : Return(x, f) =>
        client' = [client EXCEPT ![x] = "gone"]
  BY DEF Return
<1>2. ASSUME NEW x \in Conn, client' = [client EXCEPT ![x] = "gone"]
      PROVE  Further(client[c], client'[c])
  BY <1>2 DEF Further, TypeOK
<1>3. ASSUME UNCHANGED client
      PROVE  Further(client[c], client'[c])
  BY <1>3 DEF Further
<1>4. ASSUME UNCHANGED origin
      PROVE  Further(origin[c], origin'[c])
  BY <1>4 DEF Further
<1>5. ASSUME NEW x \in Conn, Handler(x)
      PROVE  Further(client[c], client'[c]) /\ Further(origin[c], origin'[c])
  <2>1. UNCHANGED client \/ client' = [client EXCEPT ![x] = "gone"]
    BY <1>5 DEF Handler, NotEstablished, Established, HandshakeFails, Decrypted, HTTP1Returns,
                HTTP2Returns, DialFails, Dialed, Spliced, Return
  <2>2. UNCHANGED origin \/ origin' = [origin EXCEPT ![x] = "gone"]
    BY <1>5 DEF Handler, NotEstablished, Established, HandshakeFails, Decrypted, HTTP1Returns,
                HTTP2Returns, DialFails, Dialed, Spliced
  <2>3. Further(origin[c], origin'[c])
    BY <2>2 DEF Further, TypeOK
  <2> QED
    BY <1>2, <1>3, <2>1, <2>3
<1>6. ASSUME NEW x \in Conn,
             \/ Connect(x) \/ Refuse(x) \/ Plain(x) \/ PlainDone(x) \/ Served(x)
             \/ \E d \in {"up", "down"} : CopyEnds(x, d) \/ CopyFails(x, d)
      PROVE  Further(client[c], client'[c]) /\ Further(origin[c], origin'[c])
  <2>1. UNCHANGED client \/ client' = [client EXCEPT ![x] = "gone"]
    BY <1>6 DEF Connect, Refuse, Plain, PlainDone, Served, CopyEnds, CopyFails
  <2>2. UNCHANGED origin
    BY <1>6 DEF Connect, Refuse, Plain, PlainDone, Served, CopyEnds, CopyFails
  <2> QED
    BY <1>2, <1>3, <1>4, <2>1, <2>2
<1>7. ASSUME NEW x \in Conn, ClientLeaves(x)
      PROVE  Further(client[c], client'[c]) /\ Further(origin[c], origin'[c])
  <2>1. PICK e \in IF client[x] = "open" THEN {"quiet", "gone"} ELSE {"gone"} :
          client' = [client EXCEPT ![x] = e]
    BY <1>7 DEF ClientLeaves
  <2>2. UNCHANGED origin
    BY <1>7 DEF ClientLeaves
  <2>3. Further(client[c], client'[c])
    BY <2>1 DEF Further, TypeOK
  <2> QED
    BY <1>4, <2>2, <2>3
<1>8. ASSUME NEW x \in Conn, OriginLeaves(x)
      PROVE  Further(client[c], client'[c]) /\ Further(origin[c], origin'[c])
  <2>1. PICK e \in IF origin[x] = "open" THEN {"quiet", "gone"} ELSE {"gone"} :
          origin' = [origin EXCEPT ![x] = e]
    BY <1>8 DEF OriginLeaves
  <2>2. UNCHANGED client
    BY <1>8 DEF OriginLeaves
  <2>3. Further(origin[c], origin'[c])
    BY <2>1 DEF Further, TypeOK
  <2> QED
    BY <1>3, <2>2, <2>3
<1>9. ASSUME SetDecrypt \/ Shutdown \/ Drained \/ Close \/ UNCHANGED vars
      PROVE  Further(client[c], client'[c]) /\ Further(origin[c], origin'[c])
  <2>1. client'[c] \in {client[c], "gone"} /\ UNCHANGED origin
    BY <1>9 DEF SetDecrypt, Shutdown, Drained, Close, vars
  <2>2. Further(client[c], client'[c])
    BY <2>1 DEF Further
  <2> QED
    BY <1>4, <2>1, <2>2
<1> QED
  BY <1>5, <1>6, <1>7, <1>8, <1>9 DEF Next

\* Where a handler goes.
LEMMA HandlerGoes ==
  ASSUME NEW c \in Conn, Handler(c)
  PROVE  \/ Dialed(c) \/ Spliced(c)
         \/ Go(c, "hijacked", "returned") \/ Go(c, "hijacked", "handshake") \/ Go(c, "hijacked", "dial")
         \/ Go(c, "handshake", "returned") \/ Go(c, "handshake", "http1") \/ Go(c, "handshake", "http2")
         \/ Go(c, "http1", "returned") \/ Go(c, "http2", "returned") \/ Go(c, "dial", "returned")
<1>1. NotEstablished(c) => Go(c, "hijacked", "returned")
  BY DEF NotEstablished, Return
<1>2. Established(c) => Go(c, "hijacked", "handshake") \/ Go(c, "hijacked", "dial")
  BY DEF Established
<1>3. HandshakeFails(c) => Go(c, "handshake", "returned")
  BY DEF HandshakeFails, Return
<1>4. \A p \in {"http1", "http2"} : Decrypted(c, p) => Go(c, "handshake", p)
  BY DEF Decrypted
<1>5. HTTP1Returns(c) => Go(c, "http1", "returned")
  BY DEF HTTP1Returns, Return
<1>6. HTTP2Returns(c) => Go(c, "http2", "returned")
  BY DEF HTTP2Returns, Return
<1>7. DialFails(c) => Go(c, "dial", "returned")
  BY DEF DialFails, Return
<1> QED
  BY <1>1, <1>2, <1>3, <1>4, <1>5, <1>6, <1>7 DEF Handler

\* Where a request to the port goes.
LEMMA PortGoes ==
  ASSUME NEW c \in Conn, Connect(c) \/ Refuse(c) \/ Plain(c) \/ PlainDone(c)
  PROVE  \/ Go(c, "none", "hijacked") \/ Go(c, "none", "refused")
         \/ Go(c, "none", "plain") \/ Go(c, "plain", "returned")
BY DEF Connect, Refuse, Plain, PlainDone

\* What becomes of the copies of a splice.
LEMMA CopiesEndRightly ==
  ASSUME TypeOK, [Next]_vars, NEW c \in Conn, at'[c] = "splice",
         NEW d \in {"up", "down"}, d \notin copying'[c]
  PROVE  /\ at[c] = "splice"
         /\ d \notin copying[c] \/ From(c, d) # "open" \/ Onto(c, d) = "gone"
<1>1. ASSUME UNCHANGED <<at, copying>>
      PROVE  at[c] = "splice" /\ d \notin copying[c]
  BY <1>1
<1>2. ASSUME NEW x \in Conn, NEW from, NEW to, Go(x, from, to), to # "splice", UNCHANGED copying
      PROVE  at[c] = "splice" /\ d \notin copying[c]
  <2>1. c # x
    BY <1>2 DEF Go, TypeOK
  <2> QED
    BY <1>2, <2>1 DEF Go, TypeOK
<1>3. ASSUME NEW x \in Conn, Handler(x), ~Dialed(x)
      PROVE  at[c] = "splice" /\ d \notin copying[c]
  <2>1. UNCHANGED copying
    BY <1>3 DEF Handler, NotEstablished, Established, HandshakeFails, Decrypted, HTTP1Returns,
                HTTP2Returns, DialFails, Spliced
  <2>2. Spliced(x) => Go(x, "splice", "returned")
    BY DEF Spliced, Return
  <2> QED
    BY <1>2, <1>3, <2>1, <2>2, HandlerGoes
<1>4. ASSUME NEW x \in Conn, Dialed(x)
      PROVE  at[c] = "splice" /\ d \notin copying[c]
  BY <1>4 DEF Dialed, Go, TypeOK
<1>5. ASSUME NEW x \in Conn, Connect(x) \/ Refuse(x) \/ Plain(x) \/ PlainDone(x)
      PROVE  at[c] = "splice" /\ d \notin copying[c]
  <2>1. UNCHANGED copying
    BY <1>5 DEF Connect, Refuse, Plain, PlainDone
  <2> QED
    BY <1>2, <1>5, <2>1, PortGoes
<1>6. ASSUME NEW x \in Conn, NEW e \in {"up", "down"}, CopyEnds(x, e) \/ CopyFails(x, e)
      PROVE  /\ at[c] = "splice"
             /\ d \notin copying[c] \/ From(c, d) # "open" \/ Onto(c, d) = "gone"
  <2>1. UNCHANGED at /\ copying' = [copying EXCEPT ![x] = @ \ {e}]
    BY <1>6 DEF CopyEnds, CopyFails
  <2>2. CASE x = c /\ e = d
    BY <1>6, <2>1, <2>2 DEF CopyEnds, CopyFails
  <2>3. CASE ~(x = c /\ e = d)
    BY <2>1, <2>3 DEF TypeOK
  <2> QED
    BY <2>2, <2>3
<1>7. ASSUME NEW x \in Conn, Served(x) \/ ClientLeaves(x) \/ OriginLeaves(x)
      PROVE  UNCHANGED <<at, copying>>
  BY <1>7 DEF Served, ClientLeaves, OriginLeaves
<1>8. ASSUME SetDecrypt \/ Shutdown \/ Drained \/ Close \/ UNCHANGED vars
      PROVE  UNCHANGED <<at, copying>>
  BY <1>8 DEF SetDecrypt, Shutdown, Drained, Close, vars
<1> QED
  BY <1>1, <1>3, <1>4, <1>5, <1>6, <1>7, <1>8 DEF Next

LEMMA StepKeepsCopies ==
  TypeOK /\ Copies /\ [Next]_vars => Copies'
<1> SUFFICES ASSUME TypeOK, Copies, [Next]_vars, NEW c \in Conn, at'[c] = "splice",
                    NEW d \in {"up", "down"}, d \notin copying'[c]
             PROVE  From(c, d)' # "open" \/ Onto(c, d)' = "gone"
  BY DEF Copies
<1>1. at[c] = "splice" /\ (d \notin copying[c] \/ From(c, d) # "open" \/ Onto(c, d) = "gone")
  BY CopiesEndRightly
<1>2. From(c, d) # "open" \/ Onto(c, d) = "gone"
  BY <1>1 DEF Copies
<1>3. Further(client[c], client'[c]) /\ Further(origin[c], origin'[c])
  BY EndsOnlyLeave
<1> QED
  BY <1>2, <1>3 DEF Further, From, Onto

LEMMA SpliceEndsWhole ==
  TypeOK /\ Copies /\ [Next]_vars =>
    [\A c \in Conn : at[c] = "splice" /\ at'[c] = "returned" =>
       /\ flow'[c] = "done" /\ copying[c] = {}
       /\ \/ client[c] # "open" /\ origin[c] # "open"
          \/ client[c] = "gone" \/ origin[c] = "gone"]_vars
<1> SUFFICES ASSUME TypeOK, Copies, Next, NEW c \in Conn, at[c] = "splice", at'[c] = "returned"
             PROVE  /\ flow'[c] = "done" /\ copying[c] = {}
                    /\ \/ client[c] # "open" /\ origin[c] # "open"
                       \/ client[c] = "gone" \/ origin[c] = "gone"
  OBVIOUS
<1>1. Spliced(c)
  <2>1. ASSUME UNCHANGED at PROVE FALSE
    BY <2>1
  <2>2. ASSUME NEW x \in Conn, NEW from, NEW to, Go(x, from, to), from # "splice"
        PROVE  FALSE
    BY <2>2 DEF Go, TypeOK
  <2>3. ASSUME NEW x \in Conn, Handler(x)
        PROVE  Spliced(c)
    <3>1. CASE Spliced(x)
      BY <3>1 DEF Spliced, Return, Go, TypeOK
    <3>2. CASE ~Spliced(x)
      <4>1. Dialed(x) => Go(x, "dial", "splice")
        BY DEF Dialed
      <4> QED
        BY <2>2, <2>3, <3>2, <4>1, HandlerGoes
    <3> QED
      BY <3>1, <3>2
  <2>4. ASSUME NEW x \in Conn, Connect(x) \/ Refuse(x) \/ Plain(x) \/ PlainDone(x)
        PROVE  FALSE
    BY <2>2, <2>4, PortGoes
  <2>5. ASSUME NEW x \in Conn,
               \/ Served(x) \/ ClientLeaves(x) \/ OriginLeaves(x)
               \/ \E d \in {"up", "down"} : CopyEnds(x, d) \/ CopyFails(x, d)
        PROVE  UNCHANGED at
    BY <2>5 DEF Served, ClientLeaves, OriginLeaves, CopyEnds, CopyFails
  <2>6. ASSUME SetDecrypt \/ Shutdown \/ Drained \/ Close
        PROVE  UNCHANGED at
    BY <2>6 DEF SetDecrypt, Shutdown, Drained, Close
  <2> QED
    BY <2>1, <2>3, <2>4, <2>5, <2>6 DEF Next
<1>2. flow'[c] = "done" /\ copying[c] = {}
  BY <1>1 DEF Spliced, BothEnded, TypeOK
<1>3. \A d \in {"up", "down"} : From(c, d) # "open" \/ Onto(c, d) = "gone"
  BY <1>2 DEF Copies
<1>4. /\ client[c] # "open" \/ origin[c] = "gone"
      /\ origin[c] # "open" \/ client[c] = "gone"
  BY <1>3 DEF From, Onto
<1> QED
  BY <1>2, <1>4

\* A splice is over, and recorded as over, only when neither end sends any more or
\* one of them is gone.
THEOREM WholeSpliceHolds == Spec => WholeSplice
<1>1. Init => TypeOK /\ PlacesAreHeld /\ Copies
  BY InitKeepsPlaces DEF Init, Copies
<1>2. Inv /\ [Next]_vars => Inv'
  BY StepKeepsPlaces, StepKeepsCopies DEF Inv
<1>3. Inv /\ [Next]_vars =>
        [\A c \in Conn : at[c] = "splice" /\ at'[c] = "returned" =>
           /\ flow'[c] = "done" /\ copying[c] = {}
           /\ \/ client[c] # "open" /\ origin[c] # "open"
              \/ client[c] = "gone" \/ origin[c] = "gone"]_vars
  BY SpliceEndsWhole DEF Inv
<1>4. Init => Inv
  BY <1>1 DEF Inv
<1> QED
  BY <1>2, <1>3, <1>4, PTL DEF Spec, WholeSplice

-----------------------------------------------------------------------------
(* The flow list. *)

\* Events under way to the list are of flows that were given an id.
EventsOf(s, n) ==
  /\ s \in Seq([id : 1..MaxFlows, stage : List!Stage])
  /\ \A k \in 1..Len(s) : s[k].id <= n

OnItsWay(s, i) == \E k \in 1..Len(s) : s[k].id = i

\* A flow has a row, or has fallen off the end of a full table.
Shown(i) == i \in DOMAIN rows \/ List!Cardinality({j \in DOMAIN rows : j > i}) >= MaxRows

\* What the table shows while a clear is under way goes with the rest.
Told(i) ==
  i \in missed \/ OnItsWay(stream, i) \/ (clear # "under way" /\ Shown(i))

\* What was asked, and answered, since the filter or a clear last changed what
\* counts, was asked with this filter of a ring without what is cleared.
Current ==
  /\ \A q \in asked : q.gen \in 0..gen /\ (q.gen = gen => q.filter = filter)
  /\ \A a \in pages :
       /\ DOMAIN a.rows \subseteq 1..last /\ a.gen \in 0..gen
       /\ a.filter = "tag" => DOMAIN a.rows \subseteq Tagged
       /\ a.gen = gen => a.filter = filter /\ DOMAIN a.rows \cap cleared = {}

\* The list was told of all that is in the ring, or is about to be.
ListInv ==
  /\ last \in 0..MaxFlows /\ gen \in Nat /\ EventsOf(stream, last)
  /\ DOMAIN ring \subseteq 1..last /\ DOMAIN rows \subseteq 1..last /\ live \subseteq 1..last
  /\ cleared \subseteq (1..last) \ DOMAIN ring
  /\ Current
  /\ filter = "tag" /\ hits # None => hits \subseteq Tagged
  /\ \A i \in DOMAIN ring : Told(i)

\* Counting is the same in the modules that are put together.
LEMMA ListCounts == \A S : List!Cardinality(S) = Cardinality(S)
BY DEF List!Cardinality, Cardinality

\* A set of numbers has a greatest.
LEMMA GreatestNumber ==
  ASSUME NEW n \in Nat, NEW T, T \subseteq 1..n, T # {}
  PROVE  \E x \in T : \A y \in T : y <= x
<1>. DEFINE U == {n - y : y \in T}
<1>0. \A y \in T : n - y \in Nat
  OBVIOUS
<1>1. U \subseteq Nat /\ U # {}
  BY <1>0, Zenon
<1>2. PICK u \in U : \A v \in U : ~(<<v, u>> \in OpToRel(<, Nat))
  <2>. HIDE DEF U
  <2>. QED  BY <1>1, NatLessThanWellFounded, WFMin
<1>3. \A v \in U : u <= v
  <2>1. \A v \in U : ~(v < u)
    BY <1>1, <1>2 DEF OpToRel
  <2>. HIDE DEF U
  <2>. QED  BY <1>1, <2>1
<1>4. PICK x \in T : u = n - x
  OBVIOUS
<1>5. \A y \in T : n - x <= n - y
  BY <1>3, <1>4
<1>. QED  BY <1>5

\* Of the parts of a finite set of numbers the larger has more elements.
LEMMA PartOfNumbers ==
  ASSUME NEW n \in Nat, NEW B, B \subseteq 1..n, NEW A, A \subseteq B
  PROVE  Cardinality(A) \in Nat /\ Cardinality(B) \in Nat /\ Cardinality(A) <= Cardinality(B)
<1>1. IsFiniteSet(1..n)
  BY FS_Interval
<1>2. IsFiniteSet(B)
  BY <1>1, FS_Subset
<1>. QED  BY <1>2, FS_Subset, FS_CardinalityType

\* The m newest of at least m are m at least: the greatest of the others would be
\* one of them.
LEMMA NewestAreEnough ==
  ASSUME NEW n \in Nat, NEW A, A \subseteq 1..n, NEW m \in Nat, Cardinality(A) >= m
  PROVE  Cardinality(List!Newest(A, m)) >= m
<1>. DEFINE T == List!Newest(A, m)
            Over(i) == {j \in A : j > i}
<1>1. T = {i \in A : Cardinality(Over(i)) < m} /\ T \subseteq A
  BY ListCounts DEF List!Newest
<1>2. Cardinality(T) \in Nat /\ Cardinality(A) \in Nat
  BY <1>1, PartOfNumbers
<1>. SUFFICES ASSUME Cardinality(T) < m PROVE FALSE
  BY <1>2
<1>3. A \ T # {} /\ A \ T \subseteq 1..n
  <2>1. A # T
    BY <1>2
  <2>. QED  BY <1>1, <2>1
<1>4. PICK x \in A \ T : \A y \in A \ T : y <= x
  <2>. HIDE DEF T
  <2>. QED  BY <1>3, GreatestNumber
<1>5. Over(x) \subseteq T
  <2>. SUFFICES ASSUME NEW j \in A, j > x, j \notin T PROVE FALSE
    OBVIOUS
  <2>1. j <= x /\ j \in Nat /\ x \in Nat
    BY <1>3, <1>4
  <2>. QED  BY <2>1
<1>6. Cardinality(Over(x)) <= Cardinality(T) /\ Cardinality(Over(x)) \in Nat
  <2>1. T \subseteq 1..n
    BY <1>1
  <2>. HIDE DEF T, Over
  <2>. QED  BY <1>5, <2>1, PartOfNumbers
<1>7. Cardinality(Over(x)) < m
  <2>. HIDE DEF T, Over
  <2>. QED  BY <1>2, <1>6
<1>. QED  BY <1>1, <1>4, <1>7

\* Reading the oldest event leaves the others.
LEMMA StreamTail ==
  ASSUME NEW n \in 0..MaxFlows, NEW s, EventsOf(s, n), s # <<>>
  PROVE  /\ EventsOf(Tail(s), n) /\ Tail(s) # s /\ Head(s) = s[1]
         /\ Head(s).id \in 1..n /\ Head(s).stage \in List!Stage
         /\ \A k \in 1..Len(s) :
              k = 1 \/ (k - 1 \in 1..Len(Tail(s)) /\ Tail(s)[k - 1] = s[k])
<1>. DEFINE E == [id : 1..MaxFlows, stage : List!Stage]
<1>0. s \in Seq(E)
  BY DEF EventsOf
<1>e. \A e \in E : e.id \in 1..MaxFlows /\ e.stage \in List!Stage
  OBVIOUS
<1>f. EventsOf(Tail(s), n) <=> /\ Tail(s) \in Seq(E)
                               /\ \A k \in 1..Len(Tail(s)) : Tail(s)[k].id <= n
  BY DEF EventsOf
<1>. HIDE DEF E
<1>1. /\ Len(s) \in Nat \ {0} /\ Head(s) = s[1] /\ s[1] \in E
      /\ Len(Tail(s)) = Len(s) - 1 /\ Tail(s) \in Seq(E)
      /\ \A k \in 1..Len(Tail(s)) : Tail(s)[k] = s[k + 1]
  BY <1>0
<1>2. \A k \in 1..Len(s) : s[k].id <= n
  BY DEF EventsOf
<1>3. \A k \in 1..Len(Tail(s)) : Tail(s)[k].id <= n
  BY <1>1, <1>2
<1>4. \A k \in 1..Len(s) : k = 1 \/ (k - 1 \in 1..Len(Tail(s)) /\ Tail(s)[k - 1] = s[k])
  BY <1>1
<1>5. Tail(s) # s
  <2>1. \A a \in Nat : a - 1 # a
    OBVIOUS
  <2>2. Len(Tail(s)) # Len(s)
    BY <1>1, <2>1, Zenon
  <2>. QED  BY <2>2
<1>6. s[1].id \in 1..n /\ s[1].stage \in List!Stage
  <2>1. s[1].id \in 1..MaxFlows /\ s[1].id <= n /\ s[1].stage \in List!Stage
    BY <1>1, <1>2, <1>e
  <2>. QED  BY <2>1, SizesAssumption
<1>. QED  BY <1>1, <1>3, <1>4, <1>5, <1>6, <1>f

\* An event that is published is the last one.
LEMMA StreamAppend ==
  ASSUME NEW n \in 0..MaxFlows, NEW m \in n..MaxFlows, NEW i \in 1..m, NEW g \in List!Stage,
         NEW s, EventsOf(s, n), NEW e, e = [id |-> i, stage |-> g]
  PROVE  /\ EventsOf(Append(s, e), m)
         /\ \E k \in 1..Len(Append(s, e)) : Append(s, e)[k].id = i
         /\ \A k \in 1..Len(s) : k \in 1..Len(Append(s, e)) /\ Append(s, e)[k] = s[k]
<1>. DEFINE E == [id : 1..MaxFlows, stage : List!Stage]
            t == Append(s, e)
<1>0. s \in Seq(E) /\ \A k \in 1..Len(s) : s[k].id <= n
  BY DEF EventsOf
<1>1. e \in E /\ e.id = i /\ \A d \in E : d.id \in 1..MaxFlows
  BY SizesAssumption
<1>f. EventsOf(t, m) <=> t \in Seq(E) /\ \A k \in 1..Len(t) : t[k].id <= m
  BY DEF EventsOf
<1>. HIDE DEF E
<1>2. /\ Len(s) \in Nat /\ Len(t) = Len(s) + 1 /\ t \in Seq(E) /\ t[Len(s) + 1] = e
      /\ \A k \in 1..Len(s) : t[k] = s[k] /\ s[k] \in E
  BY <1>0, <1>1
<1>. HIDE DEF t
<1>3. \A k \in 1..Len(t) : k = Len(s) + 1 \/ k \in 1..Len(s)
  BY <1>2
<1>4. \A k \in 1..Len(s) : t[k].id <= m
  <2>. SUFFICES ASSUME NEW k \in 1..Len(s) PROVE t[k].id <= m
    OBVIOUS
  <2>1. t[k].id = s[k].id /\ s[k].id \in 1..MaxFlows /\ s[k].id <= n
    BY <1>0, <1>1, <1>2
  <2>. QED  BY <2>1, SizesAssumption
<1>5. \A k \in 1..Len(t) : t[k].id <= m
  BY <1>1, <1>2, <1>3, <1>4
<1>6. Len(s) + 1 \in 1..Len(t) /\ t[Len(s) + 1].id = i
  BY <1>1, <1>2
<1>7. \A k \in 1..Len(s) : k \in 1..Len(t) /\ t[k] = s[k]
  BY <1>2
<1>. QED  BY <1>2, <1>5, <1>6, <1>7, <1>f DEF t

\* What has a row or has fallen off a full table, and what is put into it, has one
\* or is off it afterwards.
LEMMA PutShows ==
  ASSUME ListInv, NEW new, DOMAIN new \subseteq 1..last, rows' = List!Put(rows, new),
         NEW i \in 1..last, Shown(i) \/ i \in DOMAIN new
  PROVE  Shown(i)'
<1>. DEFINE all == DOMAIN rows \cup DOMAIN new
            A == {j \in all : j > i}
            N == List!Newest(all, MaxRows)
<1>1. DOMAIN rows' = N
  BY DEF List!Put, List!Restrict
<1>2. /\ last \in Nat /\ MaxRows \in Nat
      /\ all \subseteq 1..last /\ A \subseteq 1..last /\ N \subseteq 1..last
  BY SizesAssumption DEF ListInv, List!Newest
<1>3. Shown(i)' <=> i \in N \/ Cardinality({j \in N : j > i}) >= MaxRows
  BY <1>1, ListCounts DEF Shown
<1>4. CASE Cardinality(A) >= MaxRows
  <2>1. List!Newest(A, MaxRows) \subseteq {j \in N : j > i}
    <3>. SUFFICES ASSUME NEW k \in List!Newest(A, MaxRows) PROVE k \in N /\ k > i
      OBVIOUS
    <3>1. k \in all /\ k > i /\ List!Cardinality({j \in A : j > k}) < MaxRows
      BY DEF List!Newest
    <3>2. \A j \in all : j > k => j > i
      BY <1>2, <3>1
    <3>3. {j \in A : j > k} = {j \in all : j > k}
      BY <3>2
    <3>. QED  BY <3>1, <3>3 DEF List!Newest
  <2>2. Cardinality(List!Newest(A, MaxRows)) >= MaxRows
    <3>. HIDE DEF A
    <3>. QED  BY <1>2, <1>4, NewestAreEnough
  <2>3. {j \in N : j > i} \subseteq 1..last
    BY <1>2
  <2>. DEFINE B == {j \in N : j > i}
              C == List!Newest(A, MaxRows)
  <2>. HIDE DEF A, N, B, C
  <2>4. Cardinality(B) \in Nat /\ Cardinality(C) \in Nat /\ Cardinality(C) <= Cardinality(B)
    BY <1>2, <2>1, <2>3, PartOfNumbers DEF B, C
  <2>5. Cardinality(B) >= MaxRows
    BY <1>2, <2>2, <2>4 DEF C
  <2>. QED  BY <1>3, <2>5 DEF B
<1>5. CASE ~(Cardinality(A) >= MaxRows)
  <2>1. ~(Cardinality({j \in DOMAIN rows : j > i}) >= MaxRows)
    <3>. DEFINE B == {j \in DOMAIN rows : j > i}
    <3>1. B \subseteq A
      OBVIOUS
    <3>. HIDE DEF A, B
    <3>2. Cardinality(B) \in Nat /\ Cardinality(A) \in Nat /\ Cardinality(B) <= Cardinality(A)
      BY <1>2, <3>1, PartOfNumbers
    <3>3. ~(Cardinality(B) >= MaxRows)
      BY <1>2, <1>5, <3>2
    <3>. QED  BY <3>3 DEF B
  <2>2. i \in all
    BY <2>1, ListCounts DEF Shown
  <2>3. Cardinality(A) < MaxRows
    <3>1. Cardinality(A) \in Nat
      <4>. HIDE DEF A
      <4>. QED  BY <1>2, PartOfNumbers
    <3>. HIDE DEF A
    <3>. QED  BY <1>2, <1>5, <3>1
  <2>. QED  BY <1>3, <2>2, <2>3, ListCounts DEF List!Newest
<1>. QED  BY <1>4, <1>5

\* Nothing else gets into the table.
LEMMA PutAdds ==
  ASSUME NEW new
  PROVE  DOMAIN List!Put(rows, new) \subseteq DOMAIN rows \cup DOMAIN new
BY DEF List!Put, List!Restrict, List!Newest

\* The invariant holds when the UI starts,
LEMMA ListInvInit == List!Init => ListInv
<1>. SUFFICES ASSUME List!Init PROVE ListInv
  OBVIOUS
<1>1. /\ ring = <<>> /\ live = {} /\ rows = <<>> /\ stream = <<>> /\ last = 0
      /\ cleared = {} /\ gen = 1
  BY DEF List!Init
<1>2. DOMAIN ring = {} /\ DOMAIN rows = {} /\ EventsOf(stream, last)
  BY <1>1, SizesAssumption DEF EventsOf
<1>3. Current
  <2>0. asked = {[gen |-> 1, filter |-> "all"]}
    BY DEF List!Init
  <2>1. \A q \in asked : q.gen = 1 /\ q.filter = "all"
    BY <2>0
  <2>2. gen = 1 /\ filter = "all" /\ pages = {}
    BY DEF List!Init
  <2>3. \A q \in asked : q.gen \in 0..gen /\ (q.gen = gen => q.filter = filter)
    BY <2>1, <2>2
  <2>. QED  BY <2>2, <2>3 DEF Current
<1>4. filter = "all"
  BY DEF List!Init
<1>5. 0 \in 0..MaxFlows
  BY SizesAssumption
<1>. QED  BY <1>1, <1>2, <1>3, <1>4, <1>5 DEF ListInv

\* What is published is on its way, and what it pushes out is on record.
LEMMA Publishing ==
  ASSUME ListInv, NEW m \in last..MaxFlows, NEW i \in 1..m, NEW g \in List!Stage,
         List!Publish([id |-> i, stage |-> g])
  PROVE  /\ EventsOf(stream', m) /\ OnItsWay(stream', i)
         /\ \A j : j \in missed \/ OnItsWay(stream, j) => j \in missed' \/ OnItsWay(stream', j)
<1>. DEFINE e == [id |-> i, stage |-> g]
<1>0. /\ last \in 0..MaxFlows /\ EventsOf(stream, last) /\ Len(stream) \in Nat
  BY DEF ListInv, EventsOf
<1>1. CASE Len(stream) < MaxStream
  <2>1. stream' = Append(stream, e) /\ missed' = missed
    BY <1>1 DEF List!Publish
  <2>. HIDE DEF e
  <2>2. /\ EventsOf(stream', m) /\ OnItsWay(stream', i)
        /\ \A k \in 1..Len(stream) : k \in 1..Len(stream') /\ stream'[k] = stream[k]
    BY <1>0, <2>1, StreamAppend DEF OnItsWay, e
  <2>3. \A j : OnItsWay(stream, j) => OnItsWay(stream', j)
    BY <2>2 DEF OnItsWay
  <2>. QED  BY <2>1, <2>2, <2>3
<1>2. CASE ~(Len(stream) < MaxStream)
  <2>1. stream' = Append(Tail(stream), e) /\ missed' = missed \cup {Head(stream).id}
    BY <1>2 DEF List!Publish
  <2>2. stream # <<>>
    BY <1>2, SizesAssumption
  <2>. DEFINE t == Tail(stream)
  <2>3. /\ EventsOf(t, last) /\ Head(stream) = stream[1]
        /\ \A k \in 1..Len(stream) : k = 1 \/ (k - 1 \in 1..Len(t) /\ t[k - 1] = stream[k])
    BY <1>0, <2>2, StreamTail
  <2>4. stream' = Append(t, e)
    BY <2>1
  <2>. HIDE DEF e, t
  <2>5. /\ EventsOf(stream', m) /\ OnItsWay(stream', i)
        /\ \A k \in 1..Len(t) : k \in 1..Len(stream') /\ stream'[k] = t[k]
    BY <1>0, <2>3, <2>4, StreamAppend, SMTT(60) DEF OnItsWay, e
  <2>6. ASSUME NEW j, OnItsWay(stream, j) PROVE j \in missed' \/ OnItsWay(stream', j)
    <3>1. PICK k \in 1..Len(stream) : stream[k].id = j
      BY <2>6 DEF OnItsWay
    <3>2. CASE k = 1
      BY <2>1, <2>3, <3>1, <3>2
    <3>3. CASE k # 1
      <4>1. k - 1 \in 1..Len(t) /\ t[k - 1].id = j
        BY <2>3, <3>1, <3>3
      <4>2. k - 1 \in 1..Len(stream') /\ stream'[k - 1].id = j
        BY <2>5, <4>1
      <4>. QED  BY <4>2 DEF OnItsWay
    <3>. QED  BY <3>2, <3>3
  <2>. QED  BY <2>1, <2>5, <2>6
<1>. QED  BY <1>1, <1>2

\* A flow is put into the ring, or again, and its event is published.
LEMMA ListUpsert ==
  ASSUME ListInv, NEW i \in 1..MaxFlows, NEW g \in List!Stage, List!Upsert(i, g),
         last' \in last..MaxFlows, i <= last', live' \subseteq 1..last'
  PROVE  ListInv'
<1>1. last \in 0..MaxFlows /\ last' \in 0..MaxFlows /\ i \in 1..last' /\ 1..last \subseteq 1..last'
  BY SizesAssumption DEF ListInv
<1>2. DOMAIN ring' = DOMAIN ring \cup {i}
  BY DEF List!Upsert
<1>3. /\ UNCHANGED <<asked, pages, clear, rows, filter, hits, gen>> /\ cleared' = cleared \ {i}
      /\ List!Publish([id |-> i, stage |-> g])
  BY DEF List!Upsert
<1>4. /\ EventsOf(stream', last') /\ OnItsWay(stream', i)
      /\ \A j : j \in missed \/ OnItsWay(stream, j) => j \in missed' \/ OnItsWay(stream', j)
  BY <1>1, <1>3, Publishing
<1>5. DOMAIN ring' \subseteq 1..last' /\ DOMAIN rows' \subseteq 1..last'
  BY <1>1, <1>2, <1>3 DEF ListInv
<1>6. cleared' \subseteq (1..last') \ DOMAIN ring'
  BY <1>1, <1>2, <1>3 DEF ListInv
<1>7. Current'
  BY <1>1, <1>3 DEF ListInv, Current
<1>8. ASSUME NEW j \in DOMAIN ring' PROVE Told(j)'
  <2>1. CASE j = i
    BY <2>1, <1>4 DEF Told
  <2>2. CASE j # i
    <3>1. Told(j) /\ (Shown(j) => Shown(j)')
      BY <1>2, <1>3, <2>2 DEF ListInv, Shown
    <3>. QED  BY <1>3, <1>4, <3>1 DEF Told
  <2>. QED  BY <2>1, <2>2
<1>. QED  BY <1>1, <1>3, <1>4, <1>5, <1>6, <1>7, <1>8 DEF ListInv

\* A flow starts, goes on or ends.
LEMMA ListStart == ListInv /\ List!Start => ListInv'
<1>. SUFFICES ASSUME ListInv, List!Start PROVE ListInv'
  OBVIOUS
<1>1. /\ last \in 0..MaxFlows /\ last' = last + 1 /\ last + 1 \in 1..MaxFlows
      /\ last' \in last..MaxFlows /\ last + 1 <= last'
      /\ live' = live \cup {last + 1} /\ List!Upsert(last + 1, "active")
  BY SizesAssumption DEF ListInv, List!Start
<1>2. live' \subseteq 1..last'
  BY <1>1 DEF ListInv
<1>3. "active" \in List!Stage
  BY DEF List!Stage
<1>. QED  BY <1>1, <1>2, <1>3, ListUpsert

LEMMA ListDone ==
  ASSUME ListInv, NEW i \in List!Ids, List!Updated(i) \/ List!Done(i)
  PROVE  ListInv'
<1>1. i \in live /\ live' \subseteq live /\ last' = last
  BY DEF List!Updated, List!Done
<1>2. PICK g \in List!Stage : List!Upsert(i, g)
  BY DEF List!Updated, List!Done, List!Stage
<1>3. /\ last \in 0..MaxFlows /\ i \in 1..MaxFlows /\ i <= last'
      /\ last' \in last..MaxFlows /\ live' \subseteq 1..last'
  BY <1>1, SizesAssumption DEF ListInv, List!Ids
<1>. QED  BY <1>2, <1>3, ListUpsert

\* An answer is of the ring of its moment, which has nothing that was cleared.
LEMMA ListAnswer == ASSUME ListInv, NEW q \in asked, List!Answer(q) PROVE ListInv'
<1>. DEFINE a == [gen |-> q.gen, filter |-> q.filter, rows |-> List!Page(q.filter)]
<1>1. /\ asked' = asked \ {q} /\ pages' = pages \cup {a}
      /\ UNCHANGED <<ring, live, last, clear, stream, rows, filter, hits, gen, missed, cleared>>
  BY DEF List!Answer
<1>2. /\ DOMAIN a.rows \subseteq DOMAIN ring
      /\ a.filter = "tag" => DOMAIN a.rows \subseteq Tagged
  BY DEF List!Page, List!Restrict, List!Newest, List!DaemonMatch
<1>3. a.gen \in 0..gen /\ (a.gen = gen => a.filter = filter)
  BY DEF ListInv, Current
<1>4. DOMAIN ring \subseteq 1..last /\ DOMAIN ring \cap cleared = {}
  BY DEF ListInv
<1>. HIDE DEF a
<1>5. Current'
  BY <1>1, <1>2, <1>3, <1>4 DEF ListInv, Current
<1>6. \A j \in DOMAIN ring' : Told(j)'
  BY <1>1 DEF ListInv, Told, Shown
<1>. QED  BY <1>1, <1>5, <1>6 DEF ListInv

\* Clearing the ring, and the keys that touch neither rows nor filter.
LEMMA ListKeys == ListInv /\ (List!Clear \/ List!Pause \/ List!PressClear) => ListInv'
<1>. SUFFICES ASSUME ListInv, List!Clear \/ List!Pause \/ List!PressClear PROVE ListInv'
  OBVIOUS
<1>1. UNCHANGED <<live, last, asked, pages, stream, rows, filter, hits, gen, missed, cleared>>
  BY DEF List!Clear, List!Pause, List!PressClear, List!backend
<1>2. ring' = <<>> \/ (ring' = ring /\ (clear' = "under way" => clear' = clear))
  BY DEF List!Clear, List!Pause, List!PressClear, List!backend
<1>3. DOMAIN ring' = {} \/ (ring' = ring /\ (clear' = "under way" => clear' = clear))
  <2>1. DOMAIN <<>> = {}
    OBVIOUS
  <2>. QED  BY <1>2, <2>1, Zenon
<1>4. Current'
  BY <1>1 DEF ListInv, Current
<1>5. ASSUME NEW j \in DOMAIN ring' PROVE Told(j)'
  <2>1. Shown(j)' <=> Shown(j)
    BY <1>1 DEF Shown
  <2>2. j \in DOMAIN ring /\ Told(j) /\ (clear' = "under way" => clear = "under way")
    BY <1>3 DEF ListInv
  <2>. QED  BY <1>1, <2>1, <2>2 DEF Told
<1>. QED  BY <1>1, <1>3, <1>4, <1>5 DEF ListInv

\* A new filter: what is answered for the one before is no longer current.
LEMMA ListSetFilter == ASSUME ListInv, NEW f, List!SetFilter(f) PROVE ListInv'
<1>. DEFINE q == [gen |-> gen + 1, filter |-> f]
<1>1. /\ filter' = f /\ hits' = None /\ gen' = gen + 1 /\ asked' = asked \cup {q}
      /\ UNCHANGED <<ring, live, last, clear, stream, pages, rows, missed, cleared>>
  BY DEF List!SetFilter, List!Reload
<1>2. q.gen = gen' /\ q.filter = filter' /\ gen \in Nat
  BY <1>1 DEF ListInv
<1>. HIDE DEF q
<1>3. Current'
  <2>1. \A g \in 0..gen : g \in 0..gen' /\ g # gen'
    BY <1>1, <1>2
  <2>2. gen' \in 0..gen'
    BY <1>1, <1>2
  <2>3. ASSUME NEW r \in asked' PROVE r.gen \in 0..gen' /\ (r.gen = gen' => r.filter = filter')
    BY <1>1, <1>2, <2>1, <2>2 DEF ListInv, Current
  <2>4. ASSUME NEW a \in pages'
        PROVE  /\ DOMAIN a.rows \subseteq 1..last' /\ a.gen \in 0..gen' /\ a.gen # gen'
               /\ a.filter = "tag" => DOMAIN a.rows \subseteq Tagged
    BY <1>1, <2>1 DEF ListInv, Current
  <2>. QED  BY <2>3, <2>4 DEF Current
<1>4. \A j \in DOMAIN ring' : Told(j)'
  BY <1>1 DEF ListInv, Told, Shown
<1>5. gen' \in Nat /\ ~(filter' = "tag" /\ hits' # None)
  BY <1>1, <1>2
<1>. QED  BY <1>1, <1>3, <1>4, <1>5 DEF ListInv

\* What is put into the table is of flows there are, and takes away none that shows.
LEMMA ListPut ==
  ASSUME ListInv, NEW new, DOMAIN new \subseteq 1..last, rows' = List!Put(rows, new),
         UNCHANGED <<ring, last>>
  PROVE  /\ DOMAIN rows' \subseteq 1..last'
         /\ \A i \in DOMAIN ring : Shown(i) \/ i \in DOMAIN new => Shown(i)'
<1>1. DOMAIN rows' \subseteq DOMAIN rows \cup DOMAIN new
  BY PutAdds
<1>2. \A i \in DOMAIN ring : i \in 1..last
  BY DEF ListInv
<1>3. \A i \in DOMAIN ring : Shown(i) \/ i \in DOMAIN new => Shown(i)'
  BY <1>2, PutShows
<1>. QED  BY <1>1, <1>3 DEF ListInv

\* An answer: one that is not for what is asked now changes nothing.
LEMMA ListFlows == ASSUME ListInv, NEW a \in pages, List!Flows(a) PROVE ListInv'
<1>1. /\ pages' \subseteq pages
      /\ UNCHANGED <<ring, live, last, clear, asked, stream, filter, gen, missed, cleared>>
  BY DEF List!Flows, List!backend
<1>2. /\ DOMAIN a.rows \subseteq 1..last /\ (a.gen = gen => a.filter = filter)
      /\ a.filter = "tag" => DOMAIN a.rows \subseteq Tagged
  BY DEF ListInv, Current
<1>3. Current'
  BY <1>1 DEF ListInv, Current
<1>4. CASE a.gen # gen
  <2>1. rows' = rows /\ hits' = hits
    BY <1>4 DEF List!Flows
  <2>2. \A j \in DOMAIN ring' : Told(j)'
    BY <1>1, <2>1 DEF ListInv, Told, Shown
  <2>. QED  BY <1>1, <1>3, <2>1, <2>2 DEF ListInv
<1>5. CASE a.gen = gen
  <2>1. rows' = List!Put(rows, a.rows) /\ hits' = IF a.filter = "all" THEN None ELSE DOMAIN a.rows
    BY <1>5 DEF List!Flows
  <2>2. /\ DOMAIN rows' \subseteq 1..last'
        /\ \A i \in DOMAIN ring : Shown(i) => Shown(i)'
    BY <1>1, <1>2, <2>1, ListPut
  <2>3. \A j \in DOMAIN ring' : Told(j)'
    BY <1>1, <2>2 DEF ListInv, Told
  <2>4. filter' = "tag" /\ hits' # None => hits' \subseteq Tagged
    BY <1>1, <1>2, <1>5, <2>1
  <2>. QED  BY <1>1, <1>3, <2>2, <2>3, <2>4 DEF ListInv
<1>. QED  BY <1>4, <1>5

\* The oldest event: it is put into the table or counted as missed.
LEMMA ListEvent == ListInv /\ List!Event => ListInv'
<1>. SUFFICES ASSUME ListInv, List!Event PROVE ListInv'
  OBVIOUS
<1>. DEFINE ev == Head(stream)
            new == [i \in {ev.id} |-> ev.stage]
<1>1. /\ stream # <<>> /\ stream' = Tail(stream)
      /\ UNCHANGED <<ring, live, last, clear, asked, pages, filter, hits, gen, cleared>>
      /\ rows' = IF paused THEN rows ELSE List!Put(rows, new)
      /\ missed' = IF paused \/ clear = "under way" THEN missed \cup {ev.id} ELSE missed \ {ev.id}
  BY DEF List!Event, List!backend
<1>2. last \in 0..MaxFlows /\ EventsOf(stream, last)
  BY DEF ListInv
<1>3. /\ EventsOf(stream', last) /\ ev = stream[1] /\ ev.id \in 1..last
      /\ \A k \in 1..Len(stream) :
           k = 1 \/ (k - 1 \in 1..Len(stream') /\ stream'[k - 1] = stream[k])
  BY <1>1, <1>2, StreamTail
<1>4. DOMAIN new = {ev.id}
  OBVIOUS
<1>. HIDE DEF ev, new
<1>5. Current'
  BY <1>1 DEF ListInv, Current
<1>6. \A i : OnItsWay(stream, i) => i = ev.id \/ OnItsWay(stream', i)
  <2>. SUFFICES ASSUME NEW i, OnItsWay(stream, i), i # ev.id PROVE OnItsWay(stream', i)
    OBVIOUS
  <2>1. PICK k \in 1..Len(stream) : stream[k].id = i
    BY DEF OnItsWay
  <2>2. k - 1 \in 1..Len(stream') /\ stream'[k - 1].id = i
    BY <1>3, <2>1
  <2>. QED  BY <2>2 DEF OnItsWay
<1>7. /\ DOMAIN rows' \subseteq 1..last'
      /\ \A i \in DOMAIN ring : Shown(i) \/ (i = ev.id /\ ~paused) => Shown(i)'
  <2>1. CASE paused
    BY <1>1, <2>1 DEF ListInv, Shown
  <2>2. CASE ~paused
    <3>1. rows' = List!Put(rows, new) /\ DOMAIN new \subseteq 1..last /\ UNCHANGED <<ring, last>>
      BY <1>1, <1>3, <1>4, <2>2
    <3>2. /\ DOMAIN rows' \subseteq 1..last'
          /\ \A i \in DOMAIN ring : Shown(i) \/ i \in DOMAIN new => Shown(i)'
      BY <3>1, ListPut
    <3>. QED  BY <1>4, <3>2
  <2>. QED  BY <2>1, <2>2
<1>8. ASSUME NEW i \in DOMAIN ring PROVE Told(i)'
  <2>1. Told(i)
    BY DEF ListInv
  <2>2. CASE paused \/ clear = "under way"
    BY <1>1, <1>6, <1>7, <2>1, <2>2 DEF Told
  <2>3. CASE ~(paused \/ clear = "under way")
    <3>1. i = ev.id => Shown(i)'
      BY <1>7, <2>3
    <3>. QED  BY <1>1, <1>6, <1>7, <2>1, <2>3, <3>1 DEF Told
  <2>. QED  BY <2>2, <2>3
<1>. QED  BY <1>1, <1>3, <1>5, <1>7, <1>8 DEF ListInv

\* The list is emptied: what the daemon has recorded since it cleared is missed or
\* on its way, and no answer under way is current any more.
LEMMA ListCleared == ListInv /\ List!Cleared => ListInv'
<1>. SUFFICES ASSUME ListInv, List!Cleared PROVE ListInv'
  OBVIOUS
<1>0. rows' = <<>> /\ gen' = gen + 1
  BY DEF List!Cleared
<1>1. /\ hits' = None
      /\ cleared' = (1..last) \ DOMAIN ring
      /\ UNCHANGED <<ring, live, last, asked, pages, stream, filter, missed>>
      /\ clear = "under way"
  BY DEF List!Cleared
<1>2. gen \in Nat /\ gen' \in Nat /\ DOMAIN rows' = {}
  BY <1>0 DEF ListInv
<1>3. Current'
  <2>1. \A g \in 0..gen : g \in 0..gen' /\ g # gen'
    BY <1>0, <1>2
  <2>2. ASSUME NEW r \in asked' PROVE r.gen \in 0..gen' /\ r.gen # gen'
    BY <1>1, <2>1 DEF ListInv, Current
  <2>3. ASSUME NEW a \in pages'
        PROVE  /\ DOMAIN a.rows \subseteq 1..last' /\ a.gen \in 0..gen' /\ a.gen # gen'
               /\ a.filter = "tag" => DOMAIN a.rows \subseteq Tagged
    BY <1>1, <2>1 DEF ListInv, Current
  <2>. QED  BY <2>2, <2>3 DEF Current
<1>4. \A i \in DOMAIN ring' : Told(i)'
  BY <1>1 DEF ListInv, Told
<1>. QED  BY <1>1, <1>2, <1>3, <1>4 DEF ListInv

\* Every step of the list keeps the invariant,
LEMMA ListNext == ListInv /\ List!Next => ListInv'
BY ListStart, ListDone, ListAnswer, ListKeys, ListSetFilter, ListFlows, ListEvent, ListCleared
DEF List!Next

\* and so does a step of something else.
LEMMA ListSame == ListInv /\ UNCHANGED list => ListInv'
BY DEF list, ListInv, Current, Told, Shown

\* The invariant gives what the list promises of its rows.
LEMMA ListShows == ListInv => List!FilterHolds /\ List!NothingForgotten
<1>. SUFFICES ASSUME ListInv PROVE List!FilterHolds /\ List!NothingForgotten
  OBVIOUS
<1>1. List!FilterHolds
  BY DEF ListInv, List!FilterHolds, List!Visible
<1>2. List!NothingForgotten
  <2>. SUFFICES ASSUME stream = <<>>, clear = "no", NEW i \in DOMAIN ring, i \notin missed
       PROVE  Shown(i)
    BY DEF List!NothingForgotten, Shown
  <2>1. ~OnItsWay(stream, i)
    BY DEF OnItsWay
  <2>. QED  BY <2>1 DEF ListInv, Told
<1>. QED  BY <1>1, <1>2

\* A row that comes back after it was cleared came with an event: answers from
\* before the clear are of another generation.
LEMMA ListKeepsCleared ==
  ASSUME ListInv, List!Next, NEW i \in DOMAIN rows' \ DOMAIN rows, i \in cleared
  PROVE  stream' # stream
<1>1. CASE rows' = rows
  BY <1>1
<1>2. CASE \E a \in pages : List!Flows(a)
  <2>1. PICK a \in pages : List!Flows(a)
    BY <1>2
  <2>2. a.gen = gen /\ rows' = List!Put(rows, a.rows)
    BY <2>1 DEF List!Flows
  <2>3. DOMAIN a.rows \cap cleared = {} /\ DOMAIN rows' \subseteq DOMAIN rows \cup DOMAIN a.rows
    BY <2>2, PutAdds DEF ListInv, Current
  <2>. QED  BY <2>3
<1>3. CASE List!Event
  <2>1. last \in 0..MaxFlows /\ EventsOf(stream, last) /\ stream # <<>> /\ stream' = Tail(stream)
    BY <1>3 DEF ListInv, List!Event
  <2>. QED  BY <2>1, StreamTail
<1>4. CASE List!Cleared
  <2>1. rows' = <<>>
    BY <1>4 DEF List!Cleared
  <2>2. DOMAIN rows' = {}
    BY <2>1
  <2>. QED  BY <2>2
<1>5. rows' = rows \/ (\E a \in pages : List!Flows(a)) \/ List!Event \/ List!Cleared
  BY DEF List!Next, List!Start, List!Updated, List!Done, List!Upsert, List!Answer, List!Clear, List!SetFilter, List!Pause,
         List!PressClear, List!backend
<1>. QED  BY <1>1, <1>2, <1>3, <1>4, <1>5

-----------------------------------------------------------------------------
(* The detail view. *)

AnswerDue(id) == \E r \in requests : r.kind = "detail" /\ r.of.id = id

\* What is held and shown is of flows there are; the body on screen, and the answer
\* that is held for it, are of the open flow or its answer is due.
DetailInv ==
  /\ flows \in 0..MaxFlows /\ cursor \in Nat /\ open \in 0..MaxFlows
  /\ tab \in {"both", "request"} /\ secret \in BOOLEAN
  /\ \A r \in requests : /\ r.kind = "detail" => r.of \in Detail!Queries
                         /\ r.kind = "explain" => r.of \in 1..MaxFlows
  /\ open # 0 /\ pane = "body" /\ ~AnswerDue(open) =>
       /\ detail # None /\ detail.id = open
       /\ screen.pane = "body" /\ screen.of # None /\ screen.of.id = open
  /\ open = 0 => detail = None /\ explain = None
  /\ mode = "list" => open = 0 /\ pane = "body" /\ screen.of = None

\* The flow under a cursor is one there is.
LEMMA SelectedExists ==
  \A c \in Nat, m \in 0..MaxFlows : Detail!Selected(c, m) \in 0..MaxFlows
BY SizesAssumption DEF Detail!Selected

\* A cursor that is moved is still one.
LEMMA CursorStays ==
  ASSUME DetailInv PROVE Detail!Moved(cursor) \in Nat
BY SizesAssumption DEF DetailInv, Detail!Moved

\* A query is not None.
LEMMA QueryExists == \A q \in Detail!Queries : q # None /\ q.id \in 1..MaxFlows
<1>1. \A q \in Detail!Queries : q \in [id : Nat, part : {"both", "request"}, secret : BOOLEAN]
  BY SizesAssumption DEF Detail!Queries
<1>. QED  BY <1>1, NoneAssumption DEF Detail!Queries

\* A request for a flow is one for its detail.
LEMMA Asking ==
  ASSUME NEW i \in 1..MaxFlows, NEW p \in {"both", "request"}, NEW s \in BOOLEAN
  PROVE  LET r == Detail!AskDetail(i, p, s) IN
         r.kind = "detail" /\ r.of \in Detail!Queries /\ r.of.id = i
BY DEF Detail!AskDetail, Detail!Queries

\* The invariant holds when the UI starts,
LEMMA DetailInvInit == Detail!Init => DetailInv
<1>. SUFFICES ASSUME Detail!Init PROVE DetailInv
  OBVIOUS
<1>1. /\ flows = 0 /\ cursor = 0 /\ open = 0 /\ tab = "both" /\ secret = FALSE /\ requests = {}
      /\ detail = None /\ explain = None /\ mode = "list" /\ pane = "body"
      /\ screen = [pane |-> "body", of |-> None]
  BY DEF Detail!Init
<1>2. 0 \in 0..MaxFlows /\ screen.of = None
  BY <1>1, SizesAssumption
<1>. QED  BY <1>1, <1>2 DEF DetailInv

\* An arrival moves the cursor at most.
LEMMA DetailArrive == DetailInv /\ Detail!Arrive => DetailInv'
<1>. SUFFICES ASSUME DetailInv, Detail!Arrive PROVE DetailInv'
  OBVIOUS
<1>1. flows' \in 0..MaxFlows /\ flows' = flows + 1
  BY SizesAssumption DEF Detail!Arrive, DetailInv
<1>2. Detail!KeepCursorOn(flows + 1, cursor, flows + 1) \in Nat
  <2>1. Detail!Selected(cursor, flows + 1) # 0 => cursor \in 0..flows + 1 - 1
    BY DEF Detail!Selected, DetailInv
  <2>. QED  BY <2>1 DEF Detail!KeepCursorOn, DetailInv
<1>3. cursor' \in Nat
  BY <1>2 DEF Detail!Arrive, DetailInv
<1>. QED  BY <1>1, <1>3 DEF DetailInv, AnswerDue, Detail!Arrive, Detail!held

\* A row is opened: its answer is due.
LEMMA DetailOpenAt ==
  ASSUME DetailInv, NEW c \in Nat, NEW p, Detail!OpenAt(c, p),
         flows' \in 0..MaxFlows, cursor' \in Nat
  PROVE  DetailInv'
<1>. DEFINE id == Detail!Selected(c, flows)
            t == IF p = "body" /\ pane # "body" THEN "both" ELSE tab
            r == Detail!AskDetail(id, t, secret)
<1>1. id \in 1..MaxFlows
  BY SelectedExists DEF Detail!OpenAt, DetailInv
<1>2. t \in {"both", "request"} /\ secret \in BOOLEAN
  BY DEF DetailInv
<1>3. r.kind = "detail" /\ r.of \in Detail!Queries /\ r.of.id = id
  BY <1>1, <1>2, Asking
<1>4. /\ open' = id /\ tab' = t /\ mode' = "detail" /\ secret' = secret
      /\ requests' = requests \cup ({r} \cup IF p = "explain" THEN {[kind |-> "explain", of |-> id]} ELSE {})
  BY DEF Detail!OpenAt, Detail!Ask
<1>. HIDE DEF id, t, r
<1>5. AnswerDue(open)'
  BY <1>3, <1>4 DEF AnswerDue
<1>6. ASSUME NEW q \in requests'
      PROVE  /\ q.kind = "detail" => q.of \in Detail!Queries
             /\ q.kind = "explain" => q.of \in 1..MaxFlows
  BY <1>1, <1>3, <1>4 DEF DetailInv
<1>. QED  BY <1>1, <1>2, <1>4, <1>5, <1>6 DEF DetailInv

\* The keys that ask for nothing: the selection moves, a mark is set, a pane that is
\* there is shown, the view is closed.
LEMMA DetailQuiet ==
  ASSUME DetailInv,
         Detail!Down \/ Detail!Mark \/ Detail!DiffTab \/ Detail!Close \/ Detail!Prompt \/ Detail!Return
  PROVE  DetailInv'
<1>1. /\ flows' = flows /\ tab' = tab /\ secret' = secret /\ requests' = requests
      /\ cursor' = cursor \/ cursor' = Detail!Moved(cursor)
  BY DEF Detail!Down, Detail!Mark, Detail!DiffTab, Detail!Close, Detail!Prompt, Detail!Return,
         Detail!where
<1>2. cursor' \in Nat
  BY <1>1, CursorStays DEF DetailInv
<1>3. AnswerDue(open)' <=> \E r \in requests : r.kind = "detail" /\ r.of.id = open'
  BY <1>1 DEF AnswerDue
<1>4. CASE Detail!Close
  <2>1. open' = 0 /\ detail' = None /\ explain' = None /\ pane' = "body" /\ screen' = [pane |-> "body", of |-> None]
    BY <1>4 DEF Detail!Close
  <2>2. screen'.of = None /\ 0 \in 0..MaxFlows
    BY <2>1, SizesAssumption
  <2>. QED  BY <1>1, <1>2, <2>1, <2>2 DEF DetailInv
<1>5. CASE Detail!DiffTab
  BY <1>1, <1>2, <1>3, <1>5 DEF DetailInv, Detail!DiffTab, Detail!held
<1>6. CASE Detail!Prompt \/ Detail!Return
  BY <1>1, <1>2, <1>3, <1>6 DEF DetailInv, Detail!Prompt, Detail!Return, Detail!held, AnswerDue
<1>7. CASE Detail!Down
  BY <1>1, <1>2, <1>3, <1>7 DEF DetailInv, Detail!Down, Detail!held, AnswerDue
<1>8. CASE Detail!Mark
  BY <1>1, <1>2, <1>3, <1>8 DEF DetailInv, Detail!Mark, Detail!held, AnswerDue
<1>. QED  BY <1>4, <1>5, <1>6, <1>7, <1>8

\* The keys that ask for the open flow, or for a diff, and leave it open.
LEMMA DetailAsks ==
  ASSUME DetailInv,
         \/ Detail!AskDiff \/ (\E p \in {"both", "request"} : Detail!BodyTab(p))
         \/ Detail!Reveal \/ Detail!ExplainTab \/ Detail!Finished
  PROVE  DetailInv'
<1>0. UNCHANGED <<flows, cursor, mode, open, detail, explain>>
  BY DEF Detail!AskDiff, Detail!BodyTab, Detail!Reveal, Detail!ExplainTab, Detail!Finished,
         Detail!where, Detail!held
<1>1. CASE Detail!AskDiff
  <2>. DEFINE r == [kind |-> "diff", of |-> <<marked, Detail!Selected(cursor, flows)>>]
  <2>1. requests' = requests \cup {r} /\ UNCHANGED <<tab, secret, pane, screen>>
    BY <1>1 DEF Detail!AskDiff, Detail!Ask
  <2>2. r.kind # "detail" /\ r.kind # "explain"
    OBVIOUS
  <2>. HIDE DEF r
  <2>3. AnswerDue(open)' <=> AnswerDue(open)
    BY <1>0, <2>1, <2>2 DEF AnswerDue
  <2>. QED  BY <1>0, <2>1, <2>2, <2>3 DEF DetailInv
<1>2. ASSUME NEW p \in {"both", "request"}, Detail!BodyTab(p) PROVE DetailInv'
  <2>1. pane' = "body" /\ tab' = p /\ secret' = secret /\ screen' = screen
    BY <1>2 DEF Detail!BodyTab
  <2>2. CASE open = 0
    <3>1. requests' = requests /\ mode = "detail"
      BY <1>2, <2>2 DEF Detail!BodyTab, Detail!Refetch
    <3>. QED  BY <1>0, <2>1, <2>2, <3>1 DEF DetailInv
  <2>3. CASE open # 0
    <3>. DEFINE r == Detail!AskDetail(open, p, secret)
    <3>1. requests' = requests \cup {r} /\ mode = "detail"
      BY <1>2, <2>3 DEF Detail!BodyTab, Detail!Refetch, Detail!Ask
    <3>2. r.kind = "detail" /\ r.of \in Detail!Queries /\ r.of.id = open
      BY <2>3, Asking, SizesAssumption DEF DetailInv
    <3>. HIDE DEF r
    <3>3. AnswerDue(open)'
      BY <1>0, <3>1, <3>2 DEF AnswerDue
    <3>. QED  BY <1>0, <2>1, <2>3, <3>1, <3>2, <3>3 DEF DetailInv
  <2>. QED  BY <2>2, <2>3
<1>3. CASE Detail!Reveal
  <2>1. tab' = tab /\ secret' = ~secret /\ screen' = screen /\ pane' = pane /\ secret' \in BOOLEAN
    BY <1>3 DEF Detail!Reveal
  <2>2. CASE open = 0
    <3>1. requests' = requests
      BY <1>3, <2>2 DEF Detail!Reveal, Detail!Refetch
    <3>. QED  BY <1>0, <2>1, <2>2, <3>1 DEF DetailInv
  <2>3. CASE open # 0
    <3>. DEFINE r == Detail!AskDetail(open, tab, ~secret)
    <3>1. requests' = requests \cup {r}
      BY <1>3, <2>3 DEF Detail!Reveal, Detail!Refetch, Detail!Ask
    <3>2. r.kind = "detail" /\ r.of \in Detail!Queries /\ r.of.id = open
      <4>1. open \in 1..MaxFlows /\ tab \in {"both", "request"}
        BY <2>3, SizesAssumption DEF DetailInv
      <4>2. (~secret) \in BOOLEAN
        BY Zenon
      <4>3. PICK s \in BOOLEAN : s = ~secret
        BY <4>2, Zenon
      <4>4. LET q == Detail!AskDetail(open, tab, s) IN
            q.kind = "detail" /\ q.of \in Detail!Queries /\ q.of.id = open
        BY <4>1, Asking
      <4>. QED  BY <4>3, <4>4, Zenon
    <3>. HIDE DEF r
    <3>3. AnswerDue(open)'
      BY <1>0, <3>1, <3>2 DEF AnswerDue
    <3>. QED  BY <1>0, <2>1, <2>3, <3>1, <3>2, <3>3 DEF DetailInv
  <2>. QED  BY <2>2, <2>3
<1>4. CASE Detail!ExplainTab
  <2>. DEFINE r == [kind |-> "explain", of |-> open]
  <2>1. /\ requests' = requests \/ requests' = requests \cup {r}
        /\ pane' = "explain" /\ UNCHANGED <<tab, secret>> /\ open # 0 /\ mode = "detail"
    BY <1>4 DEF Detail!ExplainTab, Detail!Ask
  <2>2. r.kind = "explain" /\ r.of = open
    OBVIOUS
  <2>. HIDE DEF r
  <2>3. open \in 1..MaxFlows
    BY <2>1, SizesAssumption DEF DetailInv
  <2>. QED  BY <1>0, <2>1, <2>2, <2>3 DEF DetailInv
<1>5. CASE Detail!Finished
  <2>. DEFINE r == Detail!AskDetail(open, tab, secret)
  <2>1. requests' = requests \cup {r} /\ UNCHANGED <<tab, secret, pane, screen>> /\ open # 0
    BY <1>5 DEF Detail!Finished, Detail!Ask
  <2>2. r.kind = "detail" /\ r.of \in Detail!Queries /\ r.of.id = open
    BY <2>1, Asking, SizesAssumption DEF DetailInv
  <2>. HIDE DEF r
  <2>3. AnswerDue(open)'
    BY <1>0, <2>1, <2>2 DEF AnswerDue
  <2>. QED  BY <1>0, <2>1, <2>2, <2>3 DEF DetailInv
<1>. QED  BY <1>1, <1>2, <1>3, <1>4, <1>5

\* An answer to a request for a flow.
LEMMA DetailAnswered == ASSUME DetailInv, NEW r \in requests, Detail!Detail(r) PROVE DetailInv'
<1>1. /\ r.kind = "detail" /\ requests' = requests \ {r}
      /\ UNCHANGED <<flows, cursor, mode, open, tab, secret, explain, pane>>
  BY DEF Detail!Detail, Detail!where
<1>2. r.of # None /\ r.of.id \in 1..MaxFlows
  BY <1>1, QueryExists DEF DetailInv
<1>3. CASE r.of.id # open
  <2>1. detail' = detail /\ screen' = screen
    BY <1>3 DEF Detail!Detail
  <2>2. AnswerDue(open)' <=> AnswerDue(open)
    BY <1>1, <1>3 DEF AnswerDue
  <2>. QED  BY <1>1, <2>1, <2>2 DEF DetailInv
<1>4. CASE r.of.id = open
  <2>1. detail' = r.of /\ screen' = Detail!Content(pane, r.of, explain, diff) /\ open # 0
    BY <1>2, <1>4, SizesAssumption DEF Detail!Detail
  <2>2. pane = "body" => screen'.pane = "body" /\ screen'.of = r.of
    BY <2>1 DEF Detail!Content
  <2>3. mode # "list"
    BY <2>1 DEF DetailInv
  <2>. QED  BY <1>1, <1>2, <1>4, <2>1, <2>2, <2>3 DEF DetailInv
<1>. QED  BY <1>3, <1>4

\* An explanation, or a summary where there is none.
LEMMA DetailExplained == ASSUME DetailInv, NEW r \in requests, Detail!Explained(r) PROVE DetailInv'
<1>1. /\ r.kind = "explain" /\ UNCHANGED <<flows, cursor, mode, open, secret, detail>>
  BY DEF Detail!Explained, Detail!where
<1>2. r.of \in 1..MaxFlows /\ r.kind # "detail"
  BY <1>1 DEF DetailInv
<1>3. (\E q \in requests \ {r} : q.kind = "detail" /\ q.of.id = open) <=> AnswerDue(open)
  BY <1>2 DEF AnswerDue
<1>4. CASE requests' = requests \ {r} /\ UNCHANGED <<explain, pane, tab, screen>>
  <2>1. AnswerDue(open)' <=> AnswerDue(open)
    BY <1>1, <1>3, <1>4 DEF AnswerDue
  <2>. QED  BY <1>1, <1>4, <2>1 DEF DetailInv
<1>5. CASE /\ requests' = requests \ {r} /\ pane' = "explain" /\ r.of = open /\ UNCHANGED tab
  <2>1. open # 0 /\ mode # "list"
    BY <1>2, <1>5, SizesAssumption DEF DetailInv
  <2>. QED  BY <1>1, <1>5, <2>1 DEF DetailInv
<1>6. CASE /\ requests' = (requests \ {r}) \cup {Detail!AskDetail(open, "both", secret)}
           /\ pane' = "body" /\ tab' = "both" /\ r.of = open
  <2>. DEFINE q == Detail!AskDetail(open, "both", secret)
  <2>1. open # 0 /\ mode # "list" /\ open \in 1..MaxFlows
    BY <1>2, <1>6, SizesAssumption DEF DetailInv
  <2>2. q.kind = "detail" /\ q.of \in Detail!Queries /\ q.of.id = open
    BY <2>1, Asking DEF DetailInv
  <2>. HIDE DEF q
  <2>3. AnswerDue(open)'
    BY <1>1, <1>6, <2>2 DEF AnswerDue, q
  <2>. QED  BY <1>1, <1>6, <2>1, <2>2, <2>3 DEF DetailInv, q
<1>. QED  BY <1>4, <1>5, <1>6 DEF Detail!Explained

\* A diff, or that it failed: the pane changes, or what was shown is shown again.
LEMMA DetailDiffed ==
  ASSUME DetailInv, NEW r \in requests, Detail!Diffed(r) \/ Detail!DiffFailed(r)
  PROVE  DetailInv'
<1>1. /\ r.kind = "diff" /\ requests' = requests \ {r}
      /\ UNCHANGED <<flows, cursor, tab, secret, detail, explain>>
  BY DEF Detail!Diffed, Detail!DiffFailed, Detail!where, Detail!held
<1>2. CASE Detail!Diffed(r)
  <2>1. /\ pane' = "diff" /\ mode' = "detail" /\ open' \in 0..MaxFlows
        /\ open' = 0 => open = 0
    BY <1>2, SelectedExists DEF Detail!Diffed, DetailInv
  <2>. QED  BY <1>1, <2>1 DEF DetailInv
<1>3. CASE Detail!DiffFailed(r)
  <2>1. UNCHANGED <<mode, open, pane>> /\ screen' = Detail!Content(pane, detail, explain, diff)
    BY <1>3 DEF Detail!DiffFailed
  <2>2. pane = "body" => screen'.pane = "body" /\ screen'.of = detail
    BY <2>1 DEF Detail!Content
  <2>3. AnswerDue(open)' <=> AnswerDue(open)
    BY <1>1, <2>1 DEF AnswerDue
  <2>. QED  BY <1>1, <2>1, <2>2, <2>3 DEF DetailInv
<1>. QED  BY <1>2, <1>3

\* Every step of the detail view keeps the invariant,
LEMMA DetailNext == DetailInv /\ Detail!Next => DetailInv'
<1>. SUFFICES ASSUME DetailInv, Detail!Next PROVE DetailInv'
  OBVIOUS
<1>1. ASSUME NEW p \in {"body", "explain"}, Detail!Open(p) PROVE DetailInv'
  <2>1. Detail!OpenAt(cursor, p) /\ flows' = flows /\ cursor' = cursor
    BY <1>1 DEF Detail!Open, Detail!where
  <2>2. cursor \in Nat /\ flows \in 0..MaxFlows
    BY DEF DetailInv
  <2>. QED  BY <2>1, <2>2, DetailOpenAt
<1>2. CASE Detail!NextFlow
  <2>. DEFINE p == IF pane = "explain" THEN "explain" ELSE "body"
  <2>1. Detail!OpenAt(Detail!Moved(cursor), p) /\ cursor' = Detail!Moved(cursor) /\ flows' = flows
    BY <1>2 DEF Detail!NextFlow
  <2>2. Detail!Moved(cursor) \in Nat /\ flows \in 0..MaxFlows
    BY CursorStays DEF DetailInv
  <2>. HIDE DEF p
  <2>. QED  BY <2>1, <2>2, DetailOpenAt
<1>. QED
  BY <1>1, <1>2, DetailArrive, DetailQuiet, DetailAsks, DetailAnswered, DetailExplained, DetailDiffed
  DEF Detail!Next, Detail!Key, Detail!Message

\* and so does a step of something else.
LEMMA DetailSame == DetailInv /\ UNCHANGED view => DetailInv'
BY DEF view, DetailInv, AnswerDue

\* The invariant gives what the detail view promises.
LEMMA DetailShows == DetailInv => Detail!BodyCatchesUp /\ Detail!ClosedStaysEmpty
BY DEF DetailInv, AnswerDue, Detail!BodyCatchesUp, Detail!ClosedStaysEmpty

-----------------------------------------------------------------------------
(* The terminal. *)

ScreenInv == ListInv /\ DetailInv

\* Both invariants are kept by every step of the terminal,
LEMMA ScreenNext == ScreenInv /\ [TerminalNext]_<<side, list, view, authority>> => ScreenInv'
BY ListNext, ListSame, DetailNext, DetailSame DEF ScreenInv, TerminalNext

\* and so hold always.
LEMMA ScreenInvHolds == TerminalSpec => []ScreenInv
<1>1. TerminalInit => ScreenInv
  BY ListInvInit, DetailInvInit DEF TerminalInit, TerminalStart, ScreenInv
<1>. QED  BY <1>1, ScreenNext, PTL DEF TerminalSpec

\* The list shows no row that the answered filter does not hold and forgets no row
\* it was told of; a body on screen is of the open flow or its answer is due, and a
\* closed view is empty: for any number of flows, rows, events and requests, and any
\* order of answers and events (tui/model.go, data.go).
THEOREM ScreenHoldsAlways == TerminalSpec => []ScreenHolds
<1>1. ScreenInv => ScreenHolds
  BY ListShows, DetailShows DEF ScreenInv, ScreenHolds
<1>. QED  BY <1>1, ScreenInvHolds, PTL

\* No answer brings back what the user has seen cleared, unless the daemon has
\* recorded it again since (tui/model.go clearedMsg, daemon.go Done).
THEOREM ClearedStaysAwayHolds == TerminalSpec => ClearedStaysAway
<1>. DEFINE Away == \A i \in DOMAIN rows' \ DOMAIN rows : i \in cleared => stream' # stream
<1>1. ScreenInv /\ [TerminalNext]_<<side, list, view, authority>> => [Away]_list
  <2>. SUFFICES ASSUME ScreenInv, [TerminalNext]_<<side, list, view, authority>>, ~UNCHANGED list
       PROVE  Away
    OBVIOUS
  <2>1. ListInv /\ List!Next
    BY DEF ScreenInv, TerminalNext
  <2>. QED  BY <2>1, ListKeepsCleared
<1>2. TerminalSpec => [][Away]_list
  BY <1>1, ScreenInvHolds, PTL DEF TerminalSpec
<1>. QED  BY <1>2 DEF ClearedStaysAway, List!ClearedStaysAway, list, List!list

-----------------------------------------------------------------------------
(* The certificate authority. *)

Leaf == [host : Hosts, root : Nat, key : Nat, until : Nat]

\* The end of every root there was, by its key: what is left of it, in a file or in
\* a process, is the one that was made with the key.
KnownRoot(r, ends) == r.id \in DOMAIN ends /\ r.until = ends[r.id]
KnownLeaf(leaf, h, ends) ==
  leaf \in Leaf /\ leaf.host = h /\ leaf.root \in DOMAIN ends /\ leaf.until <= ends[leaf.root]

\* Where a process can be in Load, with what root.
StepInv(x, ends) ==
  /\ x.at \in {"root", "leaf", "leafKey"} => KnownRoot(x.root, ends)
  /\ x.at = "key" => x.root = None \/ KnownRoot(x.root, ends)
  /\ x.at = "clear" => x.then \in {"create", "cert"}

LoadInv(ends) ==
  load = [p \in Certs!Process |-> load[p]] /\ \A p \in Certs!Process : StepInv(load[p], ends)

Known(ends) ==
  /\ cert = None \/ KnownRoot(cert, ends)
  /\ leafKey = None \/ leafKey \in Nat
  /\ \A h \in DOMAIN dir : KnownLeaf(dir[h], h, ends)
  /\ LoadInv(ends)
  /\ ca = None \/ (KnownRoot(ca.root, ends) /\ ca.leafKey \in Nat)
  /\ load["daemon"] # Certs!Idle => ca = None

FilesInv(ends) == now \in Nat /\ made \in Nat /\ ends \in [1..made -> Nat] /\ Known(ends)

\* The leafs in memory are of the daemon's root and key, each of a host of its own.
OfDaemon(leaf) ==
  leaf.root = ca.root.id /\ leaf.key = ca.leafKey /\ leaf.until <= ca.root.until

Leafs(l) ==
  /\ l \in Seq(Leaf)
  /\ \A m \in 1..Len(l) : OfDaemon(l[m])
  /\ \A m, n \in 1..Len(l) : m # n => l[m].host # l[n].host

NotIn(h, l) == \A m \in 1..Len(l) : l[m].host # h

\* A flight that has not found its leaf yet has none of its host in memory beside it.
FlightInv(h) ==
  /\ Certs!Flying(h, "disk") \/ Certs!Flying(h, "issue") => NotIn(h, lru)
  /\ Certs!Flying(h, "write") \/ Certs!Flying(h, "put") =>
       flight[h].leaf \in Leaf /\ Certs!Serves(flight[h].leaf, h)
  /\ Certs!Flying(h, "done") /\ flight[h].leaf # None =>
       flight[h].leaf \in Leaf /\ Certs!Serves(flight[h].leaf, h)

ServingInv ==
  /\ Leafs(lru) /\ Len(lru) <= MemCache
  /\ flight = [h \in Hosts |-> flight[h]] /\ asking \in [Hosts -> Nat]
  /\ ca = None => lru = <<>> /\ \A h \in Hosts : flight[h] = None /\ asking[h] = 0
  /\ \A h \in Hosts : FlightInv(h)

CertsInv == (\E ends \in [1..made -> Nat] : FilesInv(ends)) /\ ServingInv

\* A process moves on in Load.
LEMMA LoadMoves ==
  ASSUME NEW ends, LoadInv(ends), NEW p \in Certs!Process, NEW x,
         load' = [load EXCEPT ![p] = x], StepInv(x, ends)
  PROVE  LoadInv(ends)' /\ load'[p] = x /\ \A q \in Certs!Process \ {p} : load'[q] = load[q]
<1>1. DOMAIN load = Certs!Process
  BY DEF LoadInv
<1>. QED  BY <1>1 DEF LoadInv

\* A step of Load that adds nothing to what there is, and leaves the daemon alone.
LEMMA FilesMove ==
  ASSUME NEW ends, FilesInv(ends), NEW p \in Certs!Process, NEW x,
         load' = [load EXCEPT ![p] = x], StepInv(x, ends),
         p = "daemon" => ca = None \/ x = Certs!Idle,
         UNCHANGED <<now, made>>, ca' = ca \/ (ca' = None),
         cert' = None \/ KnownRoot(cert', ends), leafKey' = None \/ leafKey' \in Nat,
         \A h \in DOMAIN dir' : h \in DOMAIN dir /\ dir'[h] = dir[h]
  PROVE  FilesInv(ends)'
<1>1. "daemon" \in Certs!Process
  BY DEF Certs!Process
<1>2. LoadInv(ends)' /\ load'[p] = x /\ \A q \in Certs!Process \ {p} : load'[q] = load[q]
  BY LoadMoves DEF FilesInv, Known
<1>3. load'["daemon"] # Certs!Idle => ca' = None
  BY <1>1, <1>2 DEF FilesInv, Known
<1>. QED  BY <1>2, <1>3 DEF FilesInv, Known

\* What the three ways on write into load.
LEMMA Ways ==
  /\ \A p, s, r : Certs!Go(p, s, r) => \E x : /\ load' = [load EXCEPT ![p] = x]
                                              /\ x.at = s /\ x.root = r
  /\ \A p, t, n : Certs!Clear(p, t, n) => \E x : /\ load' = [load EXCEPT ![p] = x]
                                                 /\ x.at = "clear" /\ x.then = n
  /\ Certs!Idle.at = "idle"
<1>1. ASSUME NEW p, NEW s, NEW r, Certs!Go(p, s, r)
      PROVE  \E x : load' = [load EXCEPT ![p] = x] /\ x.at = s /\ x.root = r
  <2>. DEFINE x == [Certs!Idle EXCEPT !.at = s, !.root = r]
  <2>1. load' = [load EXCEPT ![p] = x]
    BY <1>1 DEF Certs!Go
  <2>2. x.at = s /\ x.root = r
    BY DEF Certs!Idle
  <2>. HIDE DEF x
  <2>. QED  BY <2>1, <2>2
<1>2. ASSUME NEW p, NEW t, NEW n, Certs!Clear(p, t, n)
      PROVE  \E x : load' = [load EXCEPT ![p] = x] /\ x.at = "clear" /\ x.then = n
  <2>. DEFINE x == [Certs!Idle EXCEPT !.at = "clear", !.todo = t, !.then = n]
  <2>1. load' = [load EXCEPT ![p] = x]
    BY <1>2 DEF Certs!Clear
  <2>2. x.at = "clear" /\ x.then = n
    BY DEF Certs!Idle
  <2>. HIDE DEF x
  <2>. QED  BY <2>1, <2>2
<1>3. Certs!Idle.at = "idle"
  BY DEF Certs!Idle
<1>. QED  BY <1>1, <1>2, <1>3

\* The daemon is down while it loads.
LEMMA Loading ==
  ASSUME NEW ends, FilesInv(ends), NEW p \in Certs!Process, NEW s, s # "idle", Certs!At(p, s)
  PROVE  /\ p = "daemon" => ca = None
         /\ StepInv(load[p], ends) /\ load[p].at = s
BY Ways DEF Certs!At, FilesInv, Known, LoadInv

\* The steps of Load that make nothing new.
LEMMA FilesLoad ==
  ASSUME NEW ends, FilesInv(ends), NEW p \in Certs!Process,
         \/ Certs!Start(p) \/ Certs!ReadCert(p) \/ Certs!ReadKey(p) \/ Certs!RemoveNext(p)
         \/ Certs!WriteCert(p)
  PROVE  FilesInv(ends)'
<1>1. CASE Certs!Start(p)
  <2>1. PICK x : load' = [load EXCEPT ![p] = x] /\ x.at = "cert"
    BY <1>1, Ways DEF Certs!Start
  <2>2. StepInv(x, ends) /\ (p = "daemon" => ca = None)
    BY <1>1, <2>1 DEF StepInv, Certs!Start
  <2>3. UNCHANGED <<now, made, ca, cert, leafKey, dir>>
    BY <1>1 DEF Certs!Start, Certs!files
  <2>. QED  BY <2>1, <2>2, <2>3, FilesMove DEF FilesInv, Known
<1>2. CASE Certs!ReadCert(p)
  <2>1. PICK x : load' = [load EXCEPT ![p] = x] /\ x.at = "key" /\ x.root = cert
    BY <1>2, Ways DEF Certs!ReadCert
  <2>2. StepInv(x, ends)
    BY <2>1 DEF StepInv, FilesInv, Known
  <2>3. UNCHANGED <<now, made, ca, cert, leafKey, dir>> /\ Certs!At(p, "cert")
    BY <1>2 DEF Certs!ReadCert, Certs!files
  <2>4. p = "daemon" => ca = None
    BY <2>3, Loading
  <2>. QED  BY <2>1, <2>2, <2>3, <2>4, FilesMove DEF FilesInv, Known
<1>3. CASE Certs!ReadKey(p)
  <2>1. UNCHANGED <<now, made, ca, cert, leafKey, dir>> /\ Certs!At(p, "key")
    BY <1>3 DEF Certs!ReadKey, Certs!files
  <2>2. (p = "daemon" => ca = None) /\ StepInv(load[p], ends) /\ load[p].at = "key"
    BY <2>1, Loading
  <2>3. \E x : load' = [load EXCEPT ![p] = x] /\ StepInv(x, ends)
    <3>1. CASE Certs!Go(p, "leaf", load[p].root) /\ load[p].root # None
      <4>1. PICK x : load' = [load EXCEPT ![p] = x] /\ x.at = "leaf" /\ x.root = load[p].root
        BY <3>1, Ways
      <4>. QED  BY <2>2, <3>1, <4>1 DEF StepInv
    <3>2. CASE Certs!Clear(p, <<"cert", "key", "dir">>, "create")
      <4>1. PICK x : load' = [load EXCEPT ![p] = x] /\ x.at = "clear" /\ x.then = "create"
        BY <3>2, Ways
      <4>. QED  BY <4>1 DEF StepInv
    <3>3. CASE Certs!Go(p, "create", None)
      <4>1. PICK x : load' = [load EXCEPT ![p] = x] /\ x.at = "create"
        BY <3>3, Ways
      <4>. QED  BY <4>1 DEF StepInv
    <3>4. CASE Certs!Over(p)
      BY <3>4, Ways DEF Certs!Over, StepInv
    <3>. QED  BY <1>3, <3>1, <3>2, <3>3, <3>4 DEF Certs!ReadKey
  <2>4. PICK x : load' = [load EXCEPT ![p] = x] /\ StepInv(x, ends)
    BY <2>3
  <2>. QED  BY <2>1, <2>2, <2>4, FilesMove DEF FilesInv, Known
<1>4. CASE Certs!RemoveNext(p)
  <2>1. UNCHANGED <<now, made, ca>> /\ Certs!At(p, "clear")
    BY <1>4 DEF Certs!RemoveNext
  <2>2. /\ cert' = cert \/ cert' = None
        /\ leafKey' = leafKey \/ leafKey' = None
        /\ dir' = dir \/ dir' = <<>>
    BY <1>4 DEF Certs!RemoveNext, Certs!Without
  <2>3. (p = "daemon" => ca = None) /\ StepInv(load[p], ends) /\ load[p].at = "clear"
    BY <2>1, Loading
  <2>4. load[p].then \in {"create", "cert"}
    BY <2>3 DEF StepInv
  <2>5. \E x : load' = [load EXCEPT ![p] = x] /\ StepInv(x, ends)
    <3>1. CASE Certs!Go(p, load[p].then, None)
      <4>1. PICK x : load' = [load EXCEPT ![p] = x] /\ x.at = load[p].then
        BY <3>1, Ways
      <4>. QED  BY <2>4, <4>1 DEF StepInv
    <3>2. CASE Certs!Clear(p, Tail(load[p].todo), load[p].then)
      <4>1. PICK x : load' = [load EXCEPT ![p] = x] /\ x.at = "clear" /\ x.then = load[p].then
        BY <3>2, Ways
      <4>. QED  BY <2>4, <4>1 DEF StepInv
    <3>. QED  BY <1>4, <3>1, <3>2 DEF Certs!RemoveNext
  <2>6. PICK x : load' = [load EXCEPT ![p] = x] /\ StepInv(x, ends)
    BY <2>5
  <2>7. \A h \in DOMAIN dir' : h \in DOMAIN dir /\ dir'[h] = dir[h]
    BY <2>2
  <2>8. (cert' = None \/ KnownRoot(cert', ends)) /\ (leafKey' = None \/ leafKey' \in Nat)
    BY <2>2 DEF FilesInv, Known
  <2>. QED  BY <2>1, <2>3, <2>6, <2>7, <2>8, FilesMove
<1>5. CASE Certs!WriteCert(p)
  <2>1. UNCHANGED <<now, made, ca, leafKey, dir>> /\ cert' = load[p].root /\ Certs!At(p, "root")
    BY <1>5 DEF Certs!WriteCert
  <2>2. (p = "daemon" => ca = None) /\ KnownRoot(load[p].root, ends)
    BY <2>1, Loading DEF StepInv
  <2>3. PICK x : load' = [load EXCEPT ![p] = x] /\ x.at = "leaf" /\ x.root = load[p].root
    BY <1>5, Ways DEF Certs!WriteCert
  <2>4. StepInv(x, ends)
    BY <2>2, <2>3 DEF StepInv
  <2>. QED  BY <2>1, <2>2, <2>3, <2>4, FilesMove DEF FilesInv, Known
<1>. QED  BY <1>1, <1>2, <1>3, <1>4, <1>5

\* What is known of the roots there were stays so when one more is made.
LEMMA Grown ==
  ASSUME NEW m \in Nat, NEW ends \in [1..m -> Nat], NEW u \in Nat
  PROVE  \E more \in [1..m + 1 -> Nat] :
           /\ more[m + 1] = u
           /\ \A r : KnownRoot(r, ends) => KnownRoot(r, more)
           /\ \A l, h : KnownLeaf(l, h, ends) => KnownLeaf(l, h, more)
           /\ \A x : StepInv(x, ends) => StepInv(x, more)
<1>. DEFINE more == [k \in 1..m + 1 |-> IF k = m + 1 THEN u ELSE ends[k]]
<1>1. /\ more \in [1..m + 1 -> Nat] /\ more[m + 1] = u
      /\ \A k \in DOMAIN ends : k \in DOMAIN more /\ more[k] = ends[k]
  OBVIOUS
<1>. HIDE DEF more
<1>2. \A r : KnownRoot(r, ends) => KnownRoot(r, more)
  BY <1>1 DEF KnownRoot
<1>3. \A l, h : KnownLeaf(l, h, ends) => KnownLeaf(l, h, more)
  BY <1>1 DEF KnownLeaf
<1>4. \A x : StepInv(x, ends) => StepInv(x, more)
  BY <1>2 DEF StepInv
<1>. QED  BY <1>1, <1>2, <1>3, <1>4, Zenon

\* A root is made: its end is known from now on.
LEMMA FilesWriteKey ==
  ASSUME NEW ends, FilesInv(ends), NEW p \in Certs!Process, Certs!WriteKey(p)
  PROVE  \E more \in [1..made' -> Nat] : FilesInv(more)'
<1>. DEFINE u == now + RootTTL
            r == [id |-> made', until |-> u]
<1>1. /\ made' = made + 1 /\ made \in Nat /\ u \in Nat /\ ends \in [1..made -> Nat] /\ now \in Nat
      /\ UNCHANGED <<now, cert, leafKey, dir, ca>> /\ Certs!At(p, "create") /\ Certs!Go(p, "root", r)
  BY SizesAssumption DEF Certs!WriteKey, FilesInv
<1>2. r.id = made' /\ r.until = u
  OBVIOUS
<1>. HIDE DEF u, r
<1>3. made \in Nat /\ u \in Nat /\ ends \in [1..made -> Nat]
  BY <1>1
<1>4. PICK more \in [1..made + 1 -> Nat] :
        /\ more[made + 1] = u
        /\ \A q : KnownRoot(q, ends) => KnownRoot(q, more)
        /\ \A l, h : KnownLeaf(l, h, ends) => KnownLeaf(l, h, more)
        /\ \A x : StepInv(x, ends) => StepInv(x, more)
  BY <1>3, Grown, Zenon
<1>5. KnownRoot(r, more)
  BY <1>1, <1>2, <1>4 DEF KnownRoot
<1>6. PICK x : load' = [load EXCEPT ![p] = x] /\ x.at = "root" /\ x.root = r
  BY <1>1, Ways
<1>7. StepInv(x, more)
  BY <1>5, <1>6 DEF StepInv
<1>8. LoadInv(more)
  BY <1>4 DEF LoadInv, FilesInv, Known
<1>9. LoadInv(more)' /\ load'[p] = x /\ \A q \in Certs!Process \ {p} : load'[q] = load[q]
  BY <1>6, <1>7, <1>8, LoadMoves
<1>10. load'["daemon"] # Certs!Idle => ca' = None
  <2>1. p = "daemon" => ca = None
    BY <1>1, Loading
  <2>2. "daemon" \in Certs!Process
    BY DEF Certs!Process
  <2>. QED  BY <1>1, <1>9, <2>1, <2>2 DEF FilesInv, Known
<1>11. Known(more)'
  BY <1>1, <1>4, <1>9, <1>10 DEF FilesInv, Known
<1>12. FilesInv(more)' /\ more \in [1..made' -> Nat]
  BY <1>1, <1>4, <1>11 DEF FilesInv
<1>. QED  BY <1>12

\* Load returns: the daemon has a root that is known, and a key.
LEMMA FilesLoaded ==
  ASSUME NEW ends, Known(ends), NEW p \in Certs!Process, NEW k \in Nat,
         KnownRoot(load[p].root, ends), p = "daemon" => ca = None, Certs!Loaded(p, k),
         UNCHANGED <<cert, dir>>, leafKey' \in Nat
  PROVE  Known(ends)'
<1>. DEFINE a == [root |-> load[p].root, leafKey |-> k]
<1>1. load' = [load EXCEPT ![p] = Certs!Idle] /\ ca' = IF p = "daemon" THEN a ELSE ca
  BY DEF Certs!Loaded, Certs!Over
<1>2. a.root = load[p].root /\ a.leafKey = k
  OBVIOUS
<1>. HIDE DEF a
<1>3. StepInv(Certs!Idle, ends)
  BY Ways DEF StepInv
<1>4. LoadInv(ends)' /\ load'[p] = Certs!Idle /\ \A q \in Certs!Process \ {p} : load'[q] = load[q]
  BY <1>1, <1>3, LoadMoves DEF Known
<1>5. "daemon" \in Certs!Process
  BY DEF Certs!Process
<1>6. load'["daemon"] # Certs!Idle => ca' = None
  BY <1>1, <1>4, <1>5 DEF Known
<1>7. ca' = None \/ (KnownRoot(ca'.root, ends) /\ ca'.leafKey \in Nat)
  BY <1>1, <1>2 DEF Known
<1>. QED  BY <1>4, <1>6, <1>7 DEF Known

\* The leaf key is there, or made.
LEMMA FilesLeafKey ==
  ASSUME NEW ends, FilesInv(ends), NEW p \in Certs!Process,
         Certs!ReadLeafKey(p) \/ Certs!WriteLeafKey(p)
  PROVE  \E more \in [1..made' -> Nat] : FilesInv(more)'
<1>0. ends \in [1..made -> Nat] /\ Known(ends) /\ made \in Nat /\ now \in Nat
  BY DEF FilesInv
<1>1. CASE Certs!ReadLeafKey(p)
  <2>1. UNCHANGED <<now, made, cert, leafKey, dir>> /\ Certs!At(p, "leaf")
    BY <1>1 DEF Certs!ReadLeafKey, Certs!files
  <2>2. (p = "daemon" => ca = None) /\ KnownRoot(load[p].root, ends)
    BY <2>1, Loading DEF StepInv
  <2>3. CASE leafKey # None /\ Certs!Loaded(p, leafKey)
    <3>1. leafKey \in Nat
      BY <1>0, <2>3 DEF Known
    <3>2. Known(ends)'
      BY <1>0, <2>1, <2>2, <2>3, <3>1, FilesLoaded
    <3>. QED  BY <1>0, <2>1, <3>2 DEF FilesInv
  <2>4. CASE Certs!Go(p, "leafKey", load[p].root) /\ ca' = ca
    <3>1. PICK x : load' = [load EXCEPT ![p] = x] /\ x.at = "leafKey" /\ x.root = load[p].root
      BY <2>4, Ways
    <3>2. StepInv(x, ends)
      BY <2>2, <3>1 DEF StepInv
    <3>3. FilesInv(ends)'
      BY <2>1, <2>2, <2>4, <3>1, <3>2, FilesMove DEF FilesInv, Known
    <3>. QED  BY <1>0, <2>1, <3>3
  <2>. QED  BY <1>1, <2>3, <2>4 DEF Certs!ReadLeafKey
<1>2. CASE Certs!WriteLeafKey(p)
  <2>1. /\ UNCHANGED <<now, cert, dir>> /\ Certs!At(p, "leafKey") /\ made' = made + 1
        /\ leafKey' = made' /\ Certs!Loaded(p, made')
    BY <1>2 DEF Certs!WriteLeafKey
  <2>2. (p = "daemon" => ca = None) /\ KnownRoot(load[p].root, ends)
    BY <2>1, Loading DEF StepInv
  <2>3. PICK none \in Nat : none = 0
    OBVIOUS
  <2>4. PICK more \in [1..made + 1 -> Nat] :
          /\ more[made + 1] = none
          /\ \A q : KnownRoot(q, ends) => KnownRoot(q, more)
          /\ \A l, h : KnownLeaf(l, h, ends) => KnownLeaf(l, h, more)
          /\ \A x : StepInv(x, ends) => StepInv(x, more)
    BY <1>0, <2>3, Grown, Zenon
  <2>5. Known(more)
    BY <1>0, <2>4 DEF Known, LoadInv
  <2>6. PICK k \in Nat : k = made'
    BY <1>0, <2>1
  <2>7. Known(more)'
    BY <2>1, <2>2, <2>4, <2>5, <2>6, FilesLoaded
  <2>8. FilesInv(more)' /\ more \in [1..made' -> Nat]
    BY <1>0, <2>1, <2>4, <2>7 DEF FilesInv
  <2>. QED  BY <2>8
<1>. QED  BY <1>1, <1>2

\* The clock, `ca reset`, the end of a process.
LEMMA FilesOther ==
  ASSUME NEW ends, FilesInv(ends), Certs!Tick \/ Certs!Reset \/ (\E p \in Certs!Process : Certs!Quit(p))
  PROVE  FilesInv(ends)'
<1>1. CASE Certs!Tick
  <2>1. now' = now + 1 /\ UNCHANGED <<made, cert, leafKey, dir, load, ca>>
    BY <1>1 DEF Certs!Tick, Certs!files
  <2>. QED  BY <2>1 DEF FilesInv, Known, LoadInv
<1>2. CASE Certs!Reset
  <2>1. PICK x : load' = [load EXCEPT !["cli"] = x] /\ x.at = "clear" /\ x.then = "cert"
    BY <1>2, Ways DEF Certs!Reset
  <2>2. StepInv(x, ends) /\ "cli" \in Certs!Process
    BY <2>1 DEF StepInv, Certs!Process
  <2>3. UNCHANGED <<now, made, ca, cert, leafKey, dir>>
    BY <1>2 DEF Certs!Reset, Certs!files
  <2>. QED  BY <2>1, <2>2, <2>3, FilesMove DEF FilesInv, Known
<1>3. ASSUME NEW p \in Certs!Process, Certs!Quit(p) PROVE FilesInv(ends)'
  <2>1. /\ UNCHANGED <<now, made, cert, leafKey, dir>> /\ load' = [load EXCEPT ![p] = Certs!Idle]
        /\ ca' = ca \/ ca' = None
    BY <1>3 DEF Certs!Quit, Certs!files
  <2>2. StepInv(Certs!Idle, ends)
    BY Ways DEF StepInv
  <2>. QED  BY <2>1, <2>2, FilesMove DEF FilesInv, Known
<1>. QED  BY <1>1, <1>2, <1>3

\* What CertFor does to the files: a leaf that the daemon signed is written.
LEMMA FilesCertFor ==
  ASSUME NEW ends, FilesInv(ends), ServingInv,
         \/ Certs!GetCertificate
         \/ \E h \in Hosts : \/ Certs!Join(h) \/ Certs!FlightCache(h) \/ Certs!FlightDisk(h)
                             \/ Certs!Issue(h) \/ Certs!diskPut(h) \/ Certs!FlightPut(h) \/ Certs!Land(h)
  PROVE  FilesInv(ends)'
<1>1. UNCHANGED <<now, made, cert, leafKey, load, ca>>
  BY DEF Certs!GetCertificate, Certs!Join, Certs!FlightCache, Certs!FlightDisk, Certs!Issue,
         Certs!diskPut, Certs!FlightPut, Certs!Land, Certs!files
<1>2. CASE dir' = dir
  BY <1>1, <1>2 DEF FilesInv, Known, LoadInv
<1>3. ASSUME NEW h \in Hosts, Certs!diskPut(h), dir' # dir PROVE FilesInv(ends)'
  <2>. DEFINE leaf == flight[h].leaf
  <2>1. Certs!Flying(h, "write") /\ dir' = [i \in {h} \cup DOMAIN dir |-> IF i = h THEN leaf ELSE dir[i]]
    BY <1>3 DEF Certs!diskPut
  <2>2. leaf \in Leaf /\ Certs!Serves(leaf, h) /\ ca # None
    BY <2>1 DEF ServingInv, FlightInv, Certs!Flying
  <2>3. KnownRoot(ca.root, ends)
    BY <2>2 DEF FilesInv, Known
  <2>. HIDE DEF leaf
  <2>4. KnownLeaf(leaf, h, ends)
    BY <2>2, <2>3 DEF KnownLeaf, KnownRoot, Certs!Serves
  <2>5. \A i \in DOMAIN dir' : KnownLeaf(dir'[i], i, ends)
    BY <2>1, <2>4 DEF FilesInv, Known
  <2>. QED  BY <1>1, <2>5 DEF FilesInv, Known, LoadInv
<1>4. dir' = dir \/ \E h \in Hosts : Certs!diskPut(h)
  BY DEF Certs!GetCertificate, Certs!Join, Certs!FlightCache, Certs!FlightDisk, Certs!Issue,
         Certs!FlightPut, Certs!Land, Certs!files
<1>. QED  BY <1>2, <1>3, <1>4

\* A leaf taken out of memory: no other one is of its host.
LEMMA LeafOut ==
  ASSUME NEW l, Leafs(l), NEW n \in 1..Len(l), NEW o, o = Certs!RemoveAt(l, n)
  PROVE  /\ Leafs(o) /\ Len(o) = Len(l) - 1 /\ NotIn(l[n].host, o)
         /\ \A h : NotIn(h, l) => NotIn(h, o)
<1>. DEFINE a == SubSeq(l, 1, n - 1)
            b == SubSeq(l, n + 1, Len(l))
            from(i) == IF i < n THEN i ELSE i + 1
<1>1. l \in Seq(Leaf) /\ Len(l) \in Nat /\ n \in Nat /\ n >= 1 /\ n <= Len(l)
  BY DEF Leafs
<1>2. \A i \in 1..Len(l) : l[i] \in Leaf
  BY <1>1
<1>3. /\ a \in Seq(Leaf) /\ Len(a) = n - 1 /\ \A i \in 1..n - 1 : a[i] = l[i]
  <2>1. \A i \in 1..n - 1 : l[i] \in Leaf
    BY <1>1, <1>2
  <2>2. /\ a \in Seq(Leaf) /\ Len(a) = (IF 1 <= n - 1 THEN n - 1 - 1 + 1 ELSE 0)
        /\ \A i \in 1..n - 1 - 1 + 1 : a[i] = l[1 + i - 1]
    BY <1>1, <2>1, SubSeqProperties
  <2>. HIDE DEF a
  <2>. QED  BY <1>1, <2>2
<1>4. /\ b \in Seq(Leaf) /\ Len(b) = Len(l) - n /\ \A i \in 1..Len(l) - n : b[i] = l[n + i]
  <2>1. \A i \in n + 1..Len(l) : l[i] \in Leaf
    BY <1>1, <1>2
  <2>2. /\ b \in Seq(Leaf) /\ Len(b) = (IF n + 1 <= Len(l) THEN Len(l) - (n + 1) + 1 ELSE 0)
        /\ \A i \in 1..Len(l) - (n + 1) + 1 : b[i] = l[n + 1 + i - 1]
    BY <1>1, <2>1, SubSeqProperties
  <2>. HIDE DEF b
  <2>. QED  BY <1>1, <2>2
<1>5. o = a \o b
  BY DEF Certs!RemoveAt
<1>. HIDE DEF a, b
<1>6. /\ o \in Seq(Leaf) /\ Len(o) = Len(a) + Len(b)
      /\ \A i \in 1..Len(a) + Len(b) : o[i] = IF i <= Len(a) THEN a[i] ELSE b[i - Len(a)]
  <2>1. a \in Seq(Leaf) /\ b \in Seq(Leaf)
    BY <1>3, <1>4
  <2>. QED  BY <1>5, <2>1, ConcatProperties
<1>7. Len(o) = Len(l) - 1 /\ \A i \in 1..Len(o) : from(i) \in 1..Len(l) /\ from(i) # n /\ o[i] = l[from(i)]
  BY <1>1, <1>3, <1>4, <1>6
<1>8. \A i, j \in 1..Len(o) : i # j => from(i) # from(j)
  BY <1>1, <1>7
<1>. HIDE DEF from
<1>9. Leafs(o)
  BY <1>6, <1>7, <1>8 DEF Leafs
<1>10. NotIn(l[n].host, o)
  BY <1>1, <1>7 DEF Leafs, NotIn
<1>. QED  BY <1>7, <1>9, <1>10 DEF NotIn

\* A leaf of a host that memory has none of, put in front.
LEMMA LeafIn ==
  ASSUME NEW l, Leafs(l), NEW leaf \in Leaf, OfDaemon(leaf), NotIn(leaf.host, l),
         NEW o, o = <<leaf>> \o l
  PROVE  /\ Leafs(o) /\ Len(o) = Len(l) + 1
         /\ \A h : NotIn(h, l) /\ h # leaf.host => NotIn(h, o)
<1>1. l \in Seq(Leaf) /\ Len(l) \in Nat
  BY DEF Leafs
<1>2. <<leaf>> \in Seq(Leaf) /\ Len(<<leaf>>) = 1 /\ <<leaf>>[1] = leaf
  OBVIOUS
<1>3. /\ o \in Seq(Leaf) /\ Len(o) = 1 + Len(l)
      /\ \A i \in 1..1 + Len(l) : o[i] = IF i <= 1 THEN <<leaf>>[i] ELSE l[i - 1]
  BY <1>1, <1>2, ConcatProperties
<1>4. /\ Len(o) = Len(l) + 1 /\ o[1] = leaf
      /\ \A i \in 1..Len(o) : i = 1 \/ (i - 1 \in 1..Len(l) /\ o[i] = l[i - 1])
  BY <1>1, <1>2, <1>3
<1>5. \A i \in 1..Len(o) : OfDaemon(o[i])
  BY <1>4 DEF Leafs
<1>6. ASSUME NEW i \in 1..Len(o), NEW j \in 1..Len(o), i # j PROVE o[i].host # o[j].host
  <2>1. CASE i = 1 \/ j = 1
    BY <1>4, <1>6, <2>1 DEF NotIn
  <2>2. CASE i # 1 /\ j # 1
    <3>1. i - 1 # j - 1
      BY <1>1, <1>4, <1>6
    <3>. QED  BY <1>4, <2>2, <3>1 DEF Leafs
  <2>. QED  BY <2>1, <2>2
<1>7. \A h : NotIn(h, l) /\ h # leaf.host => NotIn(h, o)
  BY <1>4 DEF NotIn
<1>. QED  BY <1>3, <1>4, <1>5, <1>6, <1>7 DEF Leafs

\* The first leafs of those in memory.
LEMMA LeafsFirst ==
  ASSUME NEW l, Leafs(l), NEW m \in 0..Len(l), NEW o, o = SubSeq(l, 1, m)
  PROVE  Leafs(o) /\ Len(o) = m /\ \A h : NotIn(h, l) => NotIn(h, o)
<1>1. l \in Seq(Leaf) /\ Len(l) \in Nat
  BY DEF Leafs
<1>2. \A i \in 1..m : i \in 1..Len(l) /\ l[i] \in Leaf
  BY <1>1
<1>3. /\ o \in Seq(Leaf) /\ Len(o) = (IF 1 <= m THEN m - 1 + 1 ELSE 0)
      /\ \A i \in 1..m - 1 + 1 : o[i] = l[1 + i - 1]
  BY <1>1, <1>2, SubSeqProperties
<1>4. Len(o) = m /\ \A i \in 1..Len(o) : i \in 1..Len(l) /\ o[i] = l[i]
  BY <1>1, <1>2, <1>3
<1>. QED  BY <1>3, <1>4 DEF Leafs, NotIn

\* Where a leaf is found, it is of the host.
LEMMA CachedIs ==
  ASSUME NEW h, Leafs(lru)
  PROVE  \/ Certs!Cached(h) = 0 /\ NotIn(h, lru)
         \/ Certs!Cached(h) \in 1..Len(lru) /\ lru[Certs!Cached(h)].host = h
<1>1. DOMAIN lru = 1..Len(lru) /\ Len(lru) \in Nat
  BY DEF Leafs
<1>. QED  BY <1>1 DEF Certs!Cached, NotIn

\* After a lookup memory has what it had, but for a leaf that is no longer fresh.
LEMMA TouchedIs ==
  ASSUME ServingInv, NEW h
  PROVE  /\ Leafs(Certs!Touched(h)) /\ Len(Certs!Touched(h)) <= MemCache
         /\ \A g : NotIn(g, lru) => NotIn(g, Certs!Touched(h))
         /\ ~Certs!Hit(h) => NotIn(h, Certs!Touched(h))
<1>. DEFINE n == Certs!Cached(h)
            t == Certs!Touched(h)
<1>0. Leafs(lru) /\ Len(lru) <= MemCache /\ Len(lru) \in Nat /\ MemCache \in Nat
  BY SizesAssumption DEF ServingInv, Leafs
<1>1. \/ n = 0 /\ NotIn(h, lru)
      \/ n \in 1..Len(lru) /\ lru[n].host = h
  BY <1>0, CachedIs
<1>2. t = IF n = 0 THEN lru
          ELSE IF Certs!fresh(lru[n]) THEN <<lru[n]>> \o Certs!RemoveAt(lru, n)
          ELSE Certs!RemoveAt(lru, n)
  BY DEF Certs!Touched
<1>3. Certs!Hit(h) <=> n # 0 /\ Certs!fresh(lru[n])
  BY DEF Certs!Hit
<1>. HIDE DEF n, t
<1>4. CASE n = 0
  <2>1. t = lru /\ NotIn(h, lru)
    BY <1>1, <1>2, <1>4
  <2>. QED  BY <1>0, <2>1 DEF t
<1>5. CASE n \in 1..Len(lru) /\ lru[n].host = h
  <2>. DEFINE o == Certs!RemoveAt(lru, n)
  <2>1. /\ Leafs(o) /\ Len(o) = Len(lru) - 1 /\ NotIn(h, o)
        /\ \A g : NotIn(g, lru) => NotIn(g, o)
    BY <1>0, <1>5, LeafOut
  <2>2. lru[n] \in Leaf /\ OfDaemon(lru[n])
    BY <1>0, <1>5 DEF Leafs
  <2>3. \A g : NotIn(g, lru) => g # h
    BY <1>5 DEF NotIn
  <2>. HIDE DEF o
  <2>4. CASE Certs!fresh(lru[n])
    <3>1. t = <<lru[n]>> \o o
      BY <1>2, <1>5, <2>4 DEF o
    <3>2. /\ Leafs(t) /\ Len(t) = Len(o) + 1
          /\ \A g : NotIn(g, o) /\ g # h => NotIn(g, t)
      BY <1>5, <2>1, <2>2, <3>1, LeafIn
    <3>3. n # 0
      BY <1>5
    <3>. QED  BY <1>0, <1>3, <2>1, <2>3, <2>4, <3>2, <3>3 DEF t
  <2>5. CASE ~Certs!fresh(lru[n])
    <3>1. t = o
      BY <1>2, <1>5, <2>5 DEF o
    <3>. QED  BY <1>0, <2>1, <3>1 DEF t
  <2>. QED  BY <2>4, <2>5
<1>. QED  BY <1>1, <1>4, <1>5 DEF t

\* After a leaf is put in memory it is of the size it may be.
LEMMA PutIs ==
  ASSUME ServingInv, NEW leaf \in Leaf, OfDaemon(leaf)
  PROVE  /\ Leafs(Certs!cachePut(leaf)) /\ Len(Certs!cachePut(leaf)) <= MemCache
         /\ \A g : NotIn(g, lru) /\ g # leaf.host => NotIn(g, Certs!cachePut(leaf))
<1>. DEFINE h == leaf.host
            n == Certs!Cached(h)
            o == IF n = 0 THEN lru ELSE Certs!RemoveAt(lru, n)
            l == <<leaf>> \o o
            m == IF n = 0 THEN Certs!Least(MemCache, Len(l)) ELSE Len(l)
            c == Certs!cachePut(leaf)
<1>0. Leafs(lru) /\ Len(lru) <= MemCache /\ Len(lru) \in Nat /\ MemCache \in Nat
  BY SizesAssumption DEF ServingInv, Leafs
<1>1. \/ n = 0 /\ NotIn(h, lru)
      \/ n \in 1..Len(lru) /\ lru[n].host = h
  BY <1>0, CachedIs
<1>2. c = SubSeq(l, 1, m)
  BY DEF Certs!cachePut
<1>. HIDE DEF h, n, c
<1>3. /\ Leafs(o) /\ NotIn(h, o) /\ (\A g : NotIn(g, lru) => NotIn(g, o))
      /\ n = 0 => Len(o) = Len(lru)
      /\ n # 0 => Len(o) = Len(lru) - 1
  <2>1. CASE n = 0
    BY <1>0, <1>1, <2>1
  <2>2. CASE n \in 1..Len(lru) /\ lru[n].host = h
    <3>. DEFINE r == Certs!RemoveAt(lru, n)
    <3>1. /\ Leafs(r) /\ Len(r) = Len(lru) - 1 /\ NotIn(h, r)
          /\ \A g : NotIn(g, lru) => NotIn(g, r)
      BY <1>0, <2>2, LeafOut
    <3>2. n # 0 /\ o = r
      BY <2>2
    <3>. HIDE DEF r, o
    <3>. QED  BY <3>1, <3>2
  <2>. QED  BY <1>1, <2>1, <2>2
<1>. HIDE DEF o
<1>4. /\ Leafs(l) /\ Len(l) = Len(o) + 1
      /\ \A g : NotIn(g, o) /\ g # h => NotIn(g, l)
  BY <1>3, LeafIn DEF h
<1>. HIDE DEF l
<1>5. m \in 0..Len(l) /\ m <= MemCache
  BY <1>0, <1>1, <1>3, <1>4 DEF Certs!Least
<1>. HIDE DEF m
<1>6. Leafs(c) /\ Len(c) = m /\ \A g : NotIn(g, l) => NotIn(g, c)
  BY <1>2, <1>4, <1>5, LeafsFirst
<1>. QED  BY <1>3, <1>4, <1>5, <1>6 DEF c, h

\* A flight goes on: its host's memory and leaf are as its place asks for, and no
\* other host comes into memory.
LEMMA FlightMoves ==
  ASSUME ServingInv, UNCHANGED <<now, ca, asking>>, NEW h \in Hosts, NEW s, NEW leaf, Certs!Fly(h, s, leaf),
         Leafs(lru)', Len(lru') <= MemCache, ca # None,
         \A g \in Hosts \ {h} : NotIn(g, lru) => NotIn(g, lru'),
         s \in {"disk", "issue"} => NotIn(h, lru'),
         s \in {"write", "put", "done"} /\ (s = "done" => leaf # None) =>
           leaf \in Leaf /\ Certs!Serves(leaf, h)
  PROVE  ServingInv'
<1>. DEFINE f == [at |-> s, leaf |-> leaf]
<1>1. flight' = [flight EXCEPT ![h] = f]
  BY DEF Certs!Fly
<1>2. f.at = s /\ f.leaf = leaf
  OBVIOUS
<1>. HIDE DEF f
<1>3. DOMAIN flight = Hosts
  BY DEF ServingInv
<1>4. /\ flight' = [g \in Hosts |-> flight'[g]]
      /\ flight'[h] = f /\ \A g \in Hosts \ {h} : flight'[g] = flight[g]
  BY <1>1, <1>3
<1>5. \A g \in Hosts \ {h} : FlightInv(g)'
  BY <1>4 DEF ServingInv, FlightInv, Certs!Flying, Certs!Serves, NotIn
<1>6. FlightInv(h)'
  BY <1>2, <1>4 DEF FlightInv, Certs!Flying, Certs!Serves, NotIn
<1>. QED  BY <1>4, <1>5, <1>6 DEF ServingInv

\* Nothing of what serves changes.
LEMMA ServingSame ==
  ASSUME ServingInv, UNCHANGED <<now, ca, lru, flight, asking>>
  PROVE  ServingInv'
BY DEF ServingInv, Leafs, OfDaemon, FlightInv, Certs!Flying, Certs!Serves, NotIn

\* The daemon has nothing in memory and nothing under way.
LEMMA ServingNone ==
  ASSUME lru' = <<>>, flight' = [h \in Hosts |-> None], asking' = [h \in Hosts |-> 0]
  PROVE  ServingInv'
<1>1. Leafs(lru)' /\ Len(lru') <= MemCache
  BY SizesAssumption DEF Leafs
<1>2. \A h \in Hosts : FlightInv(h)'
  BY DEF FlightInv, Certs!Flying
<1>. QED  BY <1>1, <1>2 DEF ServingInv

\* While the daemon is down nothing is served.
LEMMA ServingDown ==
  ASSUME ServingInv, ca = None, UNCHANGED <<lru, flight, asking>>
  PROVE  ServingInv'
<1>1. lru' = <<>> /\ flight' = [h \in Hosts |-> None] /\ asking' = [h \in Hosts |-> 0]
  BY DEF ServingInv
<1>. QED  BY <1>1, ServingNone

\* What a process does in Load, and its end.
LEMMA ServingLoad ==
  ASSUME ServingInv, NEW ends, FilesInv(ends), NEW p \in Certs!Process,
         \/ Certs!Start(p) \/ Certs!ReadCert(p) \/ Certs!ReadKey(p) \/ Certs!RemoveNext(p)
         \/ Certs!WriteKey(p) \/ Certs!WriteCert(p) \/ Certs!ReadLeafKey(p)
         \/ Certs!WriteLeafKey(p) \/ Certs!Quit(p)
  PROVE  ServingInv'
<1>1. CASE UNCHANGED <<now, ca, lru, flight, asking>>
  BY <1>1, ServingSame
<1>2. CASE Certs!ReadLeafKey(p) \/ Certs!WriteLeafKey(p)
  <2>1. UNCHANGED <<now, lru, flight, asking>> /\ (p = "daemon" \/ ca' = ca)
    BY <1>2 DEF Certs!ReadLeafKey, Certs!WriteLeafKey, Certs!Loaded, Certs!files, Certs!serving
  <2>2. p = "daemon" => ca = None
    BY <1>2, Loading DEF Certs!ReadLeafKey, Certs!WriteLeafKey
  <2>. QED  BY <2>1, <2>2, ServingSame, ServingDown
<1>3. CASE Certs!Quit(p) /\ p = "daemon"
  BY <1>3, ServingNone DEF Certs!Quit
<1>4. CASE Certs!Quit(p) /\ p # "daemon"
  <2>1. UNCHANGED <<now, ca, lru, flight, asking>>
    BY <1>4 DEF Certs!Quit, Certs!Process, Certs!serving
  <2>. QED  BY <2>1, ServingSame
<1>5. CASE \/ Certs!Start(p) \/ Certs!ReadCert(p) \/ Certs!ReadKey(p) \/ Certs!RemoveNext(p)
           \/ Certs!WriteKey(p) \/ Certs!WriteCert(p)
  <2>1. UNCHANGED <<now, ca, Certs!serving>>
    BY <1>5 DEF Certs!Start, Certs!ReadCert, Certs!ReadKey, Certs!RemoveNext, Certs!WriteKey,
                Certs!WriteCert
  <2>. QED  BY <1>1, <2>1 DEF Certs!serving
<1>. QED  BY <1>2, <1>3, <1>4, <1>5

\* The clock ticks when nothing is under way.
LEMMA ServingOther ==
  ASSUME ServingInv, Certs!Tick \/ Certs!Reset
  PROVE  ServingInv'
<1>1. CASE Certs!Reset
  BY <1>1, ServingSame DEF Certs!Reset, Certs!serving
<1>2. CASE Certs!Tick
  <2>1. UNCHANGED <<ca, lru, flight, asking>> /\ \A h \in Hosts : flight[h] = None
    BY <1>2 DEF Certs!Tick, Certs!serving
  <2>2. \A h \in Hosts : FlightInv(h)'
    BY <2>1 DEF FlightInv, Certs!Flying
  <2>. QED  BY <2>1, <2>2 DEF ServingInv, Leafs, OfDaemon
<1>. QED  BY <1>1, <1>2

\* A handshake looks into memory, and joins a flight.
LEMMA ServingGet ==
  ASSUME ServingInv, Certs!GetCertificate \/ \E h \in Hosts : Certs!Join(h)
  PROVE  ServingInv'
<1>1. CASE Certs!GetCertificate
  <2>1. PICK h \in Hosts : /\ lru' = Certs!Touched(h)
                           /\ asking' = asking \/ asking' = [asking EXCEPT ![h] = @ + 1]
    BY <1>1 DEF Certs!GetCertificate, Certs!ServerName
  <2>2. ca # None /\ UNCHANGED <<now, ca, flight>>
    BY <1>1 DEF Certs!GetCertificate
  <2>3. Leafs(lru)' /\ Len(lru') <= MemCache /\ \A g \in Hosts : NotIn(g, lru) => NotIn(g, lru')
    BY <2>1, <2>2, TouchedIs DEF Leafs, OfDaemon
  <2>4. \A g \in Hosts : FlightInv(g)'
    BY <2>2, <2>3 DEF ServingInv, FlightInv, Certs!Flying, Certs!Serves, NotIn
  <2>5. asking' \in [Hosts -> Nat]
    BY <2>1 DEF ServingInv
  <2>. QED  BY <2>2, <2>3, <2>4, <2>5 DEF ServingInv
<1>2. ASSUME NEW h \in Hosts, Certs!Join(h) PROVE ServingInv'
  <2>. DEFINE f == IF flight[h] = None THEN [at |-> "cache", leaf |-> None] ELSE flight[h]
  <2>1. /\ asking[h] > 0 /\ asking' = [asking EXCEPT ![h] = @ - 1]
        /\ flight' = [flight EXCEPT ![h] = f] /\ UNCHANGED <<now, ca, lru>>
    BY <1>2 DEF Certs!Join
  <2>2. ca # None /\ asking' \in [Hosts -> Nat] /\ DOMAIN flight = Hosts
    BY <2>1 DEF ServingInv
  <2>3. f = flight[h] \/ f.at = "cache"
    OBVIOUS
  <2>. HIDE DEF f
  <2>4. /\ flight' = [g \in Hosts |-> flight'[g]]
        /\ flight'[h] = f /\ \A g \in Hosts \ {h} : flight'[g] = flight[g]
    BY <2>1, <2>2
  <2>5. \A g \in Hosts : FlightInv(g)'
    BY <2>1, <2>3, <2>4 DEF ServingInv, FlightInv, Certs!Flying, Certs!Serves, NotIn
  <2>. QED  BY <2>1, <2>2, <2>4, <2>5 DEF ServingInv, Leafs, OfDaemon
<1>. QED  BY <1>1, <1>2

\* A leaf that is issued ends with the root, or later than fresh asks for.
LEMMA IssuedEnd ==
  ASSUME NEW d \in Nat, NEW r \in Nat
  PROVE  LET u == Certs!Least(d + LeafTTL, r) IN
         u \in Nat /\ u <= r /\ (u > d + FreshFor \/ u = r)
BY SizesAssumption DEF Certs!Least

\* The flights, one step each.
LEMMA ServingFlight ==
  ASSUME ServingInv, NEW ends, FilesInv(ends), NEW h \in Hosts,
         \/ Certs!FlightCache(h) \/ Certs!FlightDisk(h) \/ Certs!Issue(h)
         \/ Certs!diskPut(h) \/ Certs!FlightPut(h) \/ Certs!Land(h)
  PROVE  ServingInv'
<1>0. /\ UNCHANGED <<now, ca, asking>> /\ ca # None
      /\ Leafs(lru) /\ Len(lru) <= MemCache /\ FlightInv(h)
  <2>1. UNCHANGED <<now, ca, asking>> /\ flight[h] # None
    BY DEF Certs!FlightCache, Certs!FlightDisk, Certs!Issue, Certs!diskPut, Certs!FlightPut,
           Certs!Land, Certs!Flying
  <2>. QED  BY <2>1 DEF ServingInv
<1>r. KnownRoot(ca.root, ends) /\ ca.leafKey \in Nat /\ ends \in [1..made -> Nat] /\ now \in Nat /\ made \in Nat
  BY <1>0 DEF FilesInv, Known
<1>t. ca.root.id \in Nat /\ ca.root.until \in Nat
  BY <1>r DEF KnownRoot
<1>1. CASE Certs!FlightCache(h)
  <2>1. lru' = Certs!Touched(h)
    BY <1>1 DEF Certs!FlightCache
  <2>2. /\ Leafs(lru)' /\ Len(lru') <= MemCache /\ \A g : NotIn(g, lru) => NotIn(g, lru')
        /\ ~Certs!Hit(h) => NotIn(h, lru')
    BY <1>0, <2>1, TouchedIs DEF Leafs, OfDaemon
  <2>3. CASE Certs!Hit(h)
    <3>. DEFINE leaf == lru[Certs!Cached(h)]
    <3>1. Certs!Fly(h, "done", leaf)
      BY <1>1, <2>3 DEF Certs!FlightCache
    <3>2. leaf \in Leaf /\ leaf.host = h /\ OfDaemon(leaf) /\ Certs!fresh(leaf)
      BY <1>0, <2>3, CachedIs DEF Certs!Hit, Leafs
    <3>. HIDE DEF leaf
    <3>3. Certs!Serves(leaf, h)
      BY <3>2 DEF Certs!Serves, Certs!fresh, OfDaemon
    <3>. QED  BY <1>0, <2>2, <3>1, <3>2, <3>3, FlightMoves
  <2>4. CASE ~Certs!Hit(h)
    <3>1. Certs!Fly(h, "disk", None)
      BY <1>1, <2>4 DEF Certs!FlightCache
    <3>. QED  BY <1>0, <2>2, <2>4, <3>1, FlightMoves
  <2>. QED  BY <2>3, <2>4
<1>2. CASE Certs!FlightDisk(h)
  <2>1. lru' = lru /\ Certs!Flying(h, "disk")
    BY <1>2 DEF Certs!FlightDisk
  <2>2. NotIn(h, lru) /\ Leafs(lru)'
    BY <1>0, <2>1 DEF FlightInv, Leafs, OfDaemon
  <2>3. CASE Certs!diskGet(h) # None
    <3>. DEFINE leaf == dir[h]
    <3>1. Certs!Fly(h, "put", leaf)
      BY <1>2, <2>3 DEF Certs!FlightDisk, Certs!diskGet
    <3>2. h \in DOMAIN dir /\ Certs!fresh(leaf) /\ leaf.root = ca.root.id /\ leaf.key = ca.leafKey
      BY <2>3 DEF Certs!diskGet
    <3>3. KnownLeaf(leaf, h, ends)
      BY <3>2 DEF FilesInv, Known
    <3>. HIDE DEF leaf
    <3>4. leaf \in Leaf /\ Certs!Serves(leaf, h)
      BY <1>r, <3>2, <3>3 DEF KnownLeaf, KnownRoot, Certs!Serves, Certs!fresh
    <3>. QED  BY <1>0, <2>1, <2>2, <3>1, <3>4, FlightMoves
  <2>4. CASE Certs!diskGet(h) = None
    <3>1. Certs!Fly(h, "issue", None)
      BY <1>2, <2>4 DEF Certs!FlightDisk
    <3>. QED  BY <1>0, <2>1, <2>2, <3>1, FlightMoves
  <2>. QED  BY <2>3, <2>4
<1>3. CASE Certs!Issue(h)
  <2>1. lru' = lru /\ Leafs(lru)'
    BY <1>0, <1>3 DEF Certs!Issue, Leafs, OfDaemon
  <2>2. CASE Certs!Fly(h, "write", Certs!Issued(h))
    <3>. DEFINE u == Certs!Least(now + LeafTTL, ca.root.until)
                leaf == [host |-> h, root |-> ca.root.id, key |-> ca.leafKey, until |-> u]
    <3>1. u \in Nat /\ u <= ca.root.until /\ (u > now + FreshFor \/ u = ca.root.until)
      BY <1>r, <1>t, IssuedEnd
    <3>. HIDE DEF u
    <3>2. leaf \in Leaf /\ Certs!Serves(leaf, h)
      BY <1>r, <1>t, <3>1 DEF Leaf, Certs!Serves
    <3>3. Certs!Fly(h, "write", leaf)
      BY <2>2 DEF Certs!Issued, u
    <3>. HIDE DEF leaf
    <3>. QED  BY <1>0, <2>1, <3>2, <3>3, FlightMoves
  <2>3. CASE Certs!Fly(h, "done", None)
    BY <1>0, <2>1, <2>3, FlightMoves
  <2>. QED  BY <1>3, <2>2, <2>3 DEF Certs!Issue
<1>4. CASE Certs!diskPut(h)
  <2>. DEFINE leaf == flight[h].leaf
  <2>1. lru' = lru /\ Leafs(lru)' /\ Certs!Flying(h, "write") /\ Certs!Fly(h, "put", leaf)
    BY <1>0, <1>4 DEF Certs!diskPut, Leafs, OfDaemon
  <2>2. leaf \in Leaf /\ Certs!Serves(leaf, h)
    BY <1>0, <2>1 DEF FlightInv
  <2>. HIDE DEF leaf
  <2>. QED  BY <1>0, <2>1, <2>2, FlightMoves
<1>5. CASE Certs!FlightPut(h)
  <2>. DEFINE leaf == flight[h].leaf
  <2>1. lru' = Certs!cachePut(leaf) /\ Certs!Flying(h, "put") /\ Certs!Fly(h, "done", leaf)
    BY <1>5 DEF Certs!FlightPut
  <2>2. leaf \in Leaf /\ Certs!Serves(leaf, h)
    BY <1>0, <2>1 DEF FlightInv
  <2>. HIDE DEF leaf
  <2>3. leaf.host = h /\ OfDaemon(leaf)
    BY <2>2 DEF Certs!Serves, OfDaemon
  <2>4. Leafs(lru)' /\ Len(lru') <= MemCache /\ \A g : NotIn(g, lru) /\ g # h => NotIn(g, lru')
    BY <1>0, <2>1, <2>2, <2>3, PutIs DEF Leafs, OfDaemon
  <2>. QED  BY <1>0, <2>1, <2>2, <2>4, FlightMoves
<1>6. CASE Certs!Land(h)
  <2>1. flight' = [flight EXCEPT ![h] = None] /\ lru' = lru
    BY <1>6 DEF Certs!Land
  <2>2. DOMAIN flight = Hosts
    BY DEF ServingInv
  <2>3. /\ flight' = [g \in Hosts |-> flight'[g]]
        /\ flight'[h] = None /\ \A g \in Hosts \ {h} : flight'[g] = flight[g]
    BY <2>1, <2>2
  <2>4. \A g \in Hosts : FlightInv(g)'
    BY <1>0, <2>1, <2>3 DEF ServingInv, FlightInv, Certs!Flying, Certs!Serves, NotIn
  <2>. QED  BY <1>0, <2>1, <2>3, <2>4 DEF ServingInv, Leafs, OfDaemon
<1>. QED  BY <1>1, <1>2, <1>3, <1>4, <1>5, <1>6

\* No root, nothing in memory: the invariant holds,
LEMMA CertsInvInit == Certs!Init => CertsInv
<1>. SUFFICES ASSUME Certs!Init PROVE CertsInv
  OBVIOUS
<1>1. /\ now = 0 /\ made = 0 /\ cert = None /\ leafKey = None /\ dir = <<>> /\ ca = None /\ lru = <<>>
      /\ load = [p \in Certs!Process |-> Certs!Idle]
      /\ flight = [h \in Hosts |-> None] /\ asking = [h \in Hosts |-> 0]
  BY DEF Certs!Init
<1>2. PICK ends : ends = [k \in 1..0 |-> 0]
  OBVIOUS
<1>3. ends \in [1..made -> Nat] /\ DOMAIN dir = {} /\ "daemon" \in Certs!Process
  BY <1>1, <1>2 DEF Certs!Process
<1>4. LoadInv(ends)
  BY <1>1, Ways DEF LoadInv, StepInv
<1>5. FilesInv(ends)
  BY <1>1, <1>3, <1>4 DEF FilesInv, Known
<1>6. Leafs(lru) /\ Len(lru) <= MemCache
  BY <1>1, SizesAssumption DEF Leafs
<1>7. \A h \in Hosts : FlightInv(h)
  BY <1>1 DEF FlightInv, Certs!Flying
<1>8. ServingInv
  BY <1>1, <1>6, <1>7 DEF ServingInv
<1>. QED  BY <1>3, <1>5, <1>8 DEF CertsInv

\* every step keeps it,
LEMMA CertsNext == CertsInv /\ Certs!Next => CertsInv'
<1>. SUFFICES ASSUME CertsInv, Certs!Next PROVE CertsInv'
  OBVIOUS
<1>1. PICK ends \in [1..made -> Nat] : FilesInv(ends)
  BY DEF CertsInv
<1>2. ServingInv
  BY DEF CertsInv
<1>3. ServingInv'
  BY <1>1, <1>2, ServingLoad, ServingOther, ServingGet, ServingFlight DEF Certs!Next
<1>4. FilesInv(ends)' \/ \E more \in [1..made' -> Nat] : FilesInv(more)'
  BY <1>1, <1>2, FilesLoad, FilesWriteKey, FilesLeafKey, FilesOther, FilesCertFor DEF Certs!Next
<1>5. \E more \in [1..made' -> Nat] : FilesInv(more)'
  BY <1>4 DEF FilesInv
<1>. QED  BY <1>3, <1>5 DEF CertsInv

\* and so does a step of something else.
LEMMA CertsSame == CertsInv /\ UNCHANGED authority => CertsInv'
<1>. SUFFICES ASSUME CertsInv, UNCHANGED authority PROVE CertsInv'
  OBVIOUS
<1>1. PICK ends \in [1..made -> Nat] : FilesInv(ends)
  BY DEF CertsInv
<1>2. FilesInv(ends)' /\ ends \in [1..made' -> Nat]
  BY <1>1 DEF authority, FilesInv, Known, LoadInv
<1>3. ServingInv'
  BY ServingSame DEF CertsInv, authority
<1>. QED  BY <1>2, <1>3 DEF CertsInv

\* The invariant gives what a handshake is served.
LEMMA CertsServe == CertsInv => CertsHold
<1>. SUFFICES ASSUME CertsInv PROVE CertsHold
  OBVIOUS
<1>0. ServingInv /\ Leafs(lru) /\ Len(lru) <= MemCache /\ DOMAIN lru = 1..Len(lru)
  BY DEF CertsInv, ServingInv, Leafs
<1>1. ASSUME NEW h \in Hosts, Certs!Hit(h) PROVE Certs!Serves(lru[Certs!Cached(h)], h)
  <2>. DEFINE leaf == lru[Certs!Cached(h)]
  <2>1. leaf.host = h /\ OfDaemon(leaf) /\ Certs!fresh(leaf)
    BY <1>0, <1>1, CachedIs DEF Certs!Hit, Leafs
  <2>. HIDE DEF leaf
  <2>2. Certs!Serves(leaf, h)
    BY <2>1 DEF Certs!Serves, Certs!fresh, OfDaemon
  <2>. QED  BY <2>2 DEF leaf
<1>2. Certs!LeafServes
  BY <1>0, <1>1 DEF Certs!LeafServes, ServingInv, FlightInv
<1>3. Certs!CacheBounded
  BY <1>0 DEF Certs!CacheBounded, Leafs
<1>4. Certs!MintsOnce
  <2>. SUFFICES ASSUME NEW h \in Hosts, Certs!Flying(h, "issue"), Certs!Hit(h) PROVE FALSE
    BY DEF Certs!MintsOnce
  <2>1. NotIn(h, lru)
    BY <1>0 DEF ServingInv, FlightInv
  <2>2. Certs!Cached(h) \in 1..Len(lru) /\ lru[Certs!Cached(h)].host = h
    BY <1>0, CachedIs DEF Certs!Hit
  <2>. QED  BY <2>1, <2>2 DEF NotIn
<1>. QED  BY <1>2, <1>3, <1>4 DEF CertsHold

\* A handshake is given a leaf for its host that the daemon's own root signed for its
\* own key, fresh and not outliving the root; memory is bounded, and a host that has a
\* fresh leaf there is not minted for: for any hosts, days and keys, whatever other
\* processes do to the files and wherever they end (ca/authority.go).
THEOREM CertsHoldAlways == TerminalSpec => []CertsHold
<1>1. TerminalInit => CertsInv
  BY CertsInvInit DEF TerminalInit, TerminalStart
<1>2. CertsInv /\ [TerminalNext]_<<side, list, view, authority>> => CertsInv'
  BY CertsNext, CertsSame DEF TerminalNext
<1>. QED  BY <1>1, <1>2, CertsServe, PTL DEF TerminalSpec
=============================================================================
