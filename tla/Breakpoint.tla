----------------------------- MODULE Breakpoint -----------------------------
(***************************************************************************)
(* Breakpoints (internal/rules/hold.go): exchanges parked by a rule, the   *)
(* clients that resume or drop them, the hold timer, the client that goes  *)
(* away, and the daemon that stops (internal/daemon, internal/proxy).      *)
(*                                                                         *)
(* The registry and each parked exchange's channel are shared: Resume      *)
(* claims an entry under the lock and sends after unlocking, so between    *)
(* the two the exchange may give up on its own account.                    *)
(***************************************************************************)
EXTENDS Naturals, Sequences, FiniteSets

CONSTANTS
  Exchange,   \* requests going through the proxy; the flow ids
  Caller,     \* control handlers serving `bp resume` and `bp drop`
  Hits,       \* the breakpoints each exchange runs into: bound
  Nobody

ASSUME ConstantsAssumption ==
  /\ Hits \in [Exchange -> Nat]

\* The n-th time exchange x is parked: one heldEntry.
Entry  == UNION {{x} \X (1..Hits[x]) : x \in Exchange}
Answer == {"resume", "drop", "release"}       \* release: a resume by releaseAll

ASSUME NobodyAssumption == Nobody \notin [to : Entry, act : Answer]

Ending == Answer \cup {"timeout", "client gone"}

\* How the client's connection reaches pano: plain requests on the proxy
\* port, HTTP/1.1 or HTTP/2 inside a decrypted tunnel.
Wire == {"front", "h1", "h2"}

\* Daemon.shutdown, once the control server is down.
Stage == <<"up", "drain", "tunnels", "front", "releasing", "released", "exit">>
Stages == {Stage[i] : i \in DOMAIN Stage}

VARIABLES
  wire,     \* of each exchange
  at,       \* where its goroutine is
  holds,    \* how often it has been parked
  over,     \* its request context: "client" or "cut" once it is done
  held,     \* the registry: which entry is listed under x, 0 if none
  box,      \* channel of each entry
  call,     \* the entry and answer a caller has claimed and not sent
  claimed,  \* history: the answer Resume or releaseAll accepted for an entry
  ending,   \* history: how each hold ended
  stage, forced, \* of the shutdown; front.Shutdown ran into its deadline
  todo      \* entries releaseAll has claimed and not sent to

exchange == <<wire, at, holds, over>>
stop == <<stage, forced, todo>>
vars == <<exchange, held, box, call, claimed, ending, stop>>

Where == {"new", "running", "parked", "owed", "done", "reset"}

TypeOK ==
  /\ wire \in [Exchange -> Wire]
  /\ at \in [Exchange -> Where]
  /\ holds \in [Exchange -> Nat] /\ \A x \in Exchange : holds[x] <= Hits[x]
  /\ over \in [Exchange -> {"no", "client", "cut"}]
  /\ held \in [Exchange -> Nat] /\ \A x \in Exchange : held[x] <= Hits[x]
  /\ box \in [Entry -> Seq(Answer)]
  /\ call \in [Caller -> [to : Entry, act : Answer] \cup {Nobody}]
  /\ claimed \in [Entry -> Answer \cup {"none"}]
  /\ ending \in [Entry -> Ending \cup {"none"}]
  /\ stage \in Stages /\ forced \in BOOLEAN
  /\ todo \subseteq Entry

Init ==
  /\ wire \in [Exchange -> Wire]
  /\ at = [x \in Exchange |-> "new"]
  /\ holds = [x \in Exchange |-> 0]
  /\ over = [x \in Exchange |-> "no"]
  /\ held = [x \in Exchange |-> 0]
  /\ box = [e \in Entry |-> <<>>]
  /\ call = [c \in Caller |-> Nobody]
  /\ claimed = [e \in Entry |-> "none"]
  /\ ending = [e \in Entry |-> "none"]
  /\ stage = "up" /\ forced = FALSE /\ todo = {}

Alive == stage # "exit"
Upto(s) == \E i, j \in DOMAIN Stage : i <= j /\ Stage[i] = stage /\ Stage[j] = s
Open(x) == at[x] \in {"running", "parked", "owed"}
Current(x) == <<x, holds[x]>>
Listed == {e \in Entry : held[e[1]] = e[2]}

-----------------------------------------------------------------------------
(* The exchange.                                                           *)

\* The proxy port closes first, then the HTTP/1.1 tunnels; HTTP/2 tunnels
\* take new requests until the process ends.
Arrive(x) ==
  /\ at[x] = "new" /\ Alive
  /\ wire[x] = "front" => stage = "up"
  /\ wire[x] = "h1" => Upto("drain")
  /\ at' = [at EXCEPT ![x] = "running"]
  /\ UNCHANGED <<wire, holds, over, held, box, call, claimed, ending, stop>>

\* A breakpoint rule fires: register, publish, start the timer.
Park(x) ==
  /\ at[x] = "running" /\ Alive /\ holds[x] < Hits[x]
  /\ at' = [at EXCEPT ![x] = "parked"]
  /\ holds' = [holds EXCEPT ![x] = @ + 1]
  /\ held' = [held EXCEPT ![x] = holds'[x]]
  /\ UNCHANGED <<wire, over, box, call, claimed, ending, stop>>

\* Answered, or failed with its context: no further breakpoint.
Finish(x) ==
  /\ at[x] = "running" /\ Alive
  /\ at' = [at EXCEPT ![x] = "done"]
  /\ UNCHANGED <<wire, holds, over, held, box, call, claimed, ending, stop>>

Ends(x, how) ==
  /\ ending' = [ending EXCEPT ![Current(x)] = how]
  /\ at' = [at EXCEPT ![x] = IF how \in {"drop", "client gone"} THEN "reset" ELSE "running"]

\* Received from its channel, in the select or after losing to a claim.
Hear(x) ==
  /\ at[x] \in {"parked", "owed"} /\ Alive
  /\ LET b == box[Current(x)] IN
     /\ b # <<>>
     /\ Ends(x, Head(b))
     /\ box' = [box EXCEPT ![Current(x)] = Tail(b)]
  /\ UNCHANGED <<wire, holds, over, held, call, claimed, stop>>

\* Mutants: the caller's claim is not looked at; the entry stays listed.
GiveUpAnyway(x, how) ==
  /\ at[x] = "parked" /\ Alive
  /\ held' = [held EXCEPT ![x] = 0] /\ Ends(x, how)
  /\ UNCHANGED <<wire, holds, over, box, call, claimed, stop>>
GiveUpListed(x, how) ==
  /\ at[x] = "parked" /\ Alive
  /\ held[x] = holds[x] /\ UNCHANGED held /\ Ends(x, how)
  /\ UNCHANGED <<wire, holds, over, box, call, claimed, stop>>
\* Mutant: an exchange that lost to a claim does not wait for the answer.
GiveUpDeaf(x, how) ==
  /\ at[x] = "parked" /\ Alive
  /\ IF held[x] = holds[x]
     THEN held' = [held EXCEPT ![x] = 0] /\ Ends(x, how)
     ELSE at' = [at EXCEPT ![x] = "running"] /\ UNCHANGED <<held, ending>>
  /\ UNCHANGED <<wire, holds, over, box, call, claimed, stop>>

\* unregister: give up, or wait for the caller that claimed the entry first.
GiveUp(x, how) ==
  /\ at[x] = "parked" /\ Alive
  /\ IF held[x] = holds[x]
     THEN held' = [held EXCEPT ![x] = 0] /\ Ends(x, how)
     ELSE at' = [at EXCEPT ![x] = "owed"] /\ UNCHANGED <<held, ending>>
  /\ UNCHANGED <<wire, holds, over, box, call, claimed, stop>>

\* The timer fires, sooner or later.
TimedOut(x)   == GiveUp(x, "timeout")
ClientGone(x) == over[x] # "no" /\ GiveUp(x, "client gone")

Over(x, why) ==
  /\ Open(x) /\ over[x] = "no" /\ Alive
  /\ over' = [over EXCEPT ![x] = why]
  /\ UNCHANGED <<wire, at, holds, held, box, call, claimed, ending, stop>>

Leaves(x) == Over(x, "client")

\* The connection has been closed under the request: closing the listener of
\* its tunnel ends handleConnect, whose deferred Close cuts it; Server.Close
\* cuts the proxy port.
Cut(x) ==
  /\ \/ wire[x] = "h1" /\ ~Upto("drain")
     \/ wire[x] = "front" /\ forced /\ ~Upto("tunnels")
  /\ Over(x, "cut")

-----------------------------------------------------------------------------
(* Engine.Resume, for as long as the control server takes requests.        *)

\* Mutant: the entry is not taken off the registry with the lookup.
ClaimListed(c, x, a) ==
  /\ stage = "up" /\ call[c] = Nobody /\ held[x] # 0
  /\ call' = [call EXCEPT ![c] = [to |-> <<x, held[x]>>, act |-> a]]
  /\ claimed' = [claimed EXCEPT ![<<x, held[x]>>] = a]
  /\ UNCHANGED <<exchange, held, box, ending, stop>>

\* Mutant: the entry is looked up after it has been deleted.
ClaimLate(c, x, a) ==
  /\ stage = "up" /\ call[c] = Nobody /\ held[x] # 0
  /\ held' = [held EXCEPT ![x] = 0]
  /\ call' = [call EXCEPT ![c] = [to |-> <<x, held'[x]>>, act |-> a]]
  /\ UNCHANGED <<exchange, box, claimed, ending, stop>>

Claim(c, x, a) ==
  /\ stage = "up" /\ call[c] = Nobody /\ held[x] # 0
  /\ held' = [held EXCEPT ![x] = 0]
  /\ call' = [call EXCEPT ![c] = [to |-> <<x, held[x]>>, act |-> a]]
  /\ claimed' = [claimed EXCEPT ![<<x, held[x]>>] = a]
  /\ UNCHANGED <<exchange, box, ending, stop>>

\* The channel has room for one answer.
Put(e, a) == box[e] = <<>> /\ box' = [box EXCEPT ![e] = <<a>>]

Send(c) ==
  /\ call[c] # Nobody /\ Alive
  /\ Put(call[c].to, call[c].act)
  /\ call' = [call EXCEPT ![c] = Nobody]
  /\ UNCHANGED <<exchange, held, claimed, ending, stop>>

-----------------------------------------------------------------------------
(* Daemon.shutdown.                                                        *)

\* ctl.Shutdown has returned: no handler is left.
Stop ==
  /\ stage = "up" /\ \A c \in Caller : call[c] = Nobody
  /\ stage' = "drain"
  /\ UNCHANGED <<exchange, held, box, call, claimed, ending, forced, todo>>

\* Mutant: the drain has no deadline.
DrainPatiently ==
  /\ stage = "drain" /\ stage' = "tunnels"
  /\ \A x \in Exchange : wire[x] = "front" => ~Open(x)
  /\ forced' = FALSE
  /\ UNCHANGED <<exchange, held, box, call, claimed, ending, todo>>

\* front.Shutdown waits for the proxy port's own requests, but not for long;
\* mitm.Shutdown then closes the tunnels' listeners.
Drain ==
  /\ stage = "drain" /\ stage' = "tunnels"
  /\ \/ forced' = TRUE
     \/ /\ \A x \in Exchange : wire[x] = "front" => ~Open(x)
        /\ forced' = FALSE
  /\ UNCHANGED <<exchange, held, box, call, claimed, ending, todo>>

\* Server.Close, only when front.Shutdown failed.
Close ==
  /\ stage = "tunnels" /\ stage' = "front"
  /\ UNCHANGED <<exchange, held, box, call, claimed, ending, forced, todo>>

\* releaseAll: collect and clear under the lock ...
ReleaseAll ==
  /\ stage = "front" /\ stage' = "releasing"
  /\ todo' = Listed
  /\ held' = [x \in Exchange |-> 0]
  /\ claimed' = [e \in Entry |-> IF e \in Listed THEN "release" ELSE claimed[e]]
  /\ UNCHANGED <<exchange, box, call, ending, forced>>

\* ... then send to each; the last send ends it.
Release(e) ==
  /\ stage = "releasing" /\ e \in todo
  /\ Put(e, "release")
  /\ todo' = todo \ {e}
  /\ UNCHANGED <<exchange, held, call, claimed, ending, stage, forced>>

Released ==
  /\ stage = "releasing" /\ todo = {} /\ stage' = "released"
  /\ UNCHANGED <<exchange, held, box, call, claimed, ending, forced, todo>>

\* The process ends with whatever is still parked.
Exit ==
  /\ stage = "released" /\ stage' = "exit"
  /\ UNCHANGED <<exchange, held, box, call, claimed, ending, forced, todo>>

Shutdown == Drain \/ Close \/ ReleaseAll \/ Released \/ Exit \/ \E e \in Entry : Release(e)

-----------------------------------------------------------------------------
Goroutine(x) == Hear(x) \/ TimedOut(x) \/ ClientGone(x)

Next ==
  \/ \E x \in Exchange :
       \/ Arrive(x) \/ Park(x) \/ Finish(x)
       \/ Goroutine(x) \/ Leaves(x) \/ Cut(x)
  \/ \E c \in Caller :
       \/ \E x \in Exchange, a \in {"resume", "drop"} : Claim(c, x, a)
       \/ Send(c)
  \/ Stop \/ Shutdown

Spec == Init /\ [][Next]_vars

\* Goroutines run and timers fire; nobody has to answer, leave or stop.
Fairness ==
  /\ \A x \in Exchange : WF_vars(Goroutine(x))
  /\ \A c \in Caller : WF_vars(Send(c))
  /\ WF_vars(Shutdown)

FairSpec == Spec /\ Fairness

-----------------------------------------------------------------------------
(* Properties.                                                             *)

\* Whoever has claimed an entry is alone and finds its channel empty: neither
\* Resume nor the daemon's shutdown can block on `ent.resume <- req`.
SendNeverBlocks ==
  /\ \A c \in Caller : call[c] # Nobody =>
       /\ box[call[c].to] = <<>> /\ call[c].to \notin todo
       /\ \A d \in Caller \ {c} : call[d] # Nobody => call[d].to # call[c].to
  /\ \A e \in todo : box[e] = <<>>

\* Nobody can be told of, or resume, an exchange that is no longer waiting.
OnlyParkedListed ==
  \A x \in Exchange : held[x] # 0 => at[x] = "parked" /\ held[x] = holds[x]

\* Callers, timer, departing client and shutdown agree on one ending of each
\* hold, and it is the one an accepted Resume asked for.
Promise == INSTANCE BreakpointPromise
  WITH open <- Listed, decided <- claimed, ended <- ending
KeepsPromise == Promise!Spec

\* No hold outlives its timer, whatever the callers do: it ends, or the
\* process does.
HoldEnds ==
  \A e \in Entry :
    e \in Listed ~> (ending[e] # "none" \/ stage = "exit")

\* Stopping the daemon does not hang on an exchange that is held.
Stops == stage = "drain" ~> stage = "exit"
=============================================================================
