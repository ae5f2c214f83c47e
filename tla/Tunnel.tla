------------------------------- MODULE Tunnel -------------------------------
(***************************************************************************)
(* The connections to the proxy's port (internal/proxy/server.go,          *)
(* connect.go and conn.go): CONNECT tunnels, each with a place in a        *)
(* semaphore, spliced to their origin or decrypted and served as HTTP/1.1  *)
(* or HTTP/2; plain requests; the policy; the stop of the server.          *)
(*                                                                         *)
(* A handler has its place until it returns, so that what keeps it from    *)
(* returning keeps others out.                                             *)
(***************************************************************************)
EXTENDS Naturals, FiniteSets

CONSTANTS
  Conn,      \* connections, each used once
  Own,       \* those that ask for a tunnel to pano's own site
  MaxConns   \* tunnels at a time

ASSUME ConstantsAssumption ==
  IsFiniteSet(Conn) /\ Own \subseteq Conn /\ MaxConns \in Nat \ {0}

VARIABLES
  at,        \* the handler of each connection
  client,    \* its client: it may stop sending before it stops reading
  origin,    \* likewise what a tunnel is spliced to
  copying,   \* the directions in which a splice copies
  serving,   \* connections that net/http serves
  slots,     \* places taken in sem
  active,    \* ActiveConns
  flow,      \* what the sink has heard of a tunnel that is not decrypted
  decrypts,  \* the policy
  server

vars == <<at, client, origin, copying, serving, slots, active, flow, decrypts, server>>

InTunnel == {"hijacked", "dial", "splice", "handshake", "http1", "http2"}
Stages   == InTunnel \cup {"none", "plain", "refused", "returned"}
Ends     == {"open", "quiet", "gone"}

TypeOK ==
  /\ at \in [Conn -> Stages]
  /\ client \in [Conn -> Ends] /\ origin \in [Conn -> Ends]
  /\ copying \in [Conn -> SUBSET {"up", "down"}]
  /\ serving \subseteq Conn
  /\ slots \in 0..MaxConns /\ active \in Nat
  /\ flow \in [Conn -> {"none", "started", "done"}]
  /\ decrypts \in BOOLEAN
  /\ server \in {"up", "draining", "drained", "closed"}

Init ==
  /\ at = [c \in Conn |-> "none"]
  /\ client = [c \in Conn |-> "open"] /\ origin = [c \in Conn |-> "open"]
  /\ copying = [c \in Conn |-> {}] /\ serving = {}
  /\ slots = 0 /\ active = 0
  /\ flow = [c \in Conn |-> "none"]
  /\ decrypts \in BOOLEAN /\ server = "up"

Go(c, from, to) == at[c] = from /\ at' = [at EXCEPT ![c] = to]

-----------------------------------------------------------------------------
(* Requests to the port.  A connection accepted before the stop may send    *)
(* its request until it is closed.                                         *)

\* Mutant: a place too many.
RoomForOneMore == slots <= MaxConns
Room == slots < MaxConns

Connect(c) ==
  /\ server # "closed" /\ Room
  /\ Go(c, "none", "hijacked")
  /\ slots' = slots + 1 /\ active' = active + 1
  /\ UNCHANGED <<client, origin, copying, serving, flow, decrypts, server>>

Refuse(c) ==
  /\ server # "closed" /\ ~Room
  /\ Go(c, "none", "refused")
  /\ UNCHANGED <<client, origin, copying, serving, slots, active, flow, decrypts, server>>

Plain(c) ==
  /\ server # "closed"
  /\ Go(c, "none", "plain") /\ active' = active + 1
  /\ UNCHANGED <<client, origin, copying, serving, slots, flow, decrypts, server>>

PlainDone(c) ==
  /\ Go(c, "plain", "returned") /\ active' = active - 1
  /\ UNCHANGED <<client, origin, copying, serving, slots, flow, decrypts, server>>

\* What is deferred: the connection is closed, the place given back.
Return(c, from) ==
  /\ Go(c, from, "returned")
  /\ slots' = slots - 1 /\ active' = active - 1
  /\ client' = [client EXCEPT ![c] = "gone"]
  /\ UNCHANGED <<decrypts, server>>

-----------------------------------------------------------------------------
(* A tunnel: the answer to CONNECT, and the policy at that moment.  Pano's *)
(* own site is always decrypted.                                           *)

Opens(c) == decrypts \/ c \in Own

NotEstablished(c) ==
  /\ client[c] = "gone" /\ Return(c, "hijacked")
  /\ UNCHANGED <<origin, copying, serving, flow>>

Established(c) ==
  /\ Go(c, "hijacked", IF Opens(c) THEN "handshake" ELSE "dial")
  /\ flow' = [flow EXCEPT ![c] = IF Opens(c) THEN "none" ELSE "started"]
  /\ UNCHANGED <<client, origin, copying, serving, slots, active, decrypts, server>>

\* Mutant: a handshake that fails gives nothing back.
HandshakeFailsHolding(c) ==
  /\ Go(c, "handshake", "returned")
  /\ client' = [client EXCEPT ![c] = "gone"]
  /\ flow' = [flow EXCEPT ![c] = IF c \in Own THEN "none" ELSE "done"]
  /\ UNCHANGED <<origin, copying, serving, slots, active, decrypts, server>>
\* The handshake fails, times out, or settles the protocol.  A failure is
\* recorded, unless the tunnel is to pano's own site.
HandshakeFails(c) ==
  /\ Return(c, "handshake")
  /\ flow' = [flow EXCEPT ![c] = IF c \in Own THEN "none" ELSE "done"]
  /\ UNCHANGED <<origin, copying, serving>>

\* A server that is stopped takes no listener.
Stopped == server \in {"drained", "closed"}

Decrypted(c, protocol) ==
  /\ Go(c, "handshake", protocol)
  /\ serving' = IF protocol = "http1" /\ Stopped THEN serving ELSE serving \cup {c}
  /\ UNCHANGED <<client, origin, copying, slots, active, flow, decrypts, server>>

\* net/http is through with a connection: its client has gone, or it was idle.
Served(c) ==
  /\ c \in serving /\ serving' = serving \ {c}
  /\ client' = [client EXCEPT ![c] = "gone"]
  /\ UNCHANGED <<at, origin, copying, slots, active, flow, decrypts, server>>

\* Mutant: it returns when the server stops.
HTTP2ReturnsAtStop(c) ==
  /\ server # "up" /\ Return(c, "http2")
  /\ UNCHANGED <<origin, copying, serving, flow>>
\* ServeConn returns with the connection.
HTTP2Returns(c) ==
  /\ c \notin serving /\ Return(c, "http2")
  /\ UNCHANGED <<origin, copying, serving, flow>>

\* Mutant: only Close closes the listeners.
HTTP1ReturnsAtClose(c) ==
  /\ server = "closed" /\ Return(c, "http1")
  /\ UNCHANGED <<origin, copying, serving, flow>>
\* Serve returns when Accept does, which it does a second time only when the
\* server closes its listeners.
HTTP1Returns(c) ==
  /\ Stopped /\ Return(c, "http1")
  /\ UNCHANGED <<origin, copying, serving, flow>>

-----------------------------------------------------------------------------
(* A splice.                                                               *)

DialFails(c) ==
  /\ Return(c, "dial")
  /\ flow' = [flow EXCEPT ![c] = "done"]
  /\ UNCHANGED <<origin, copying, serving>>

Dialed(c) ==
  /\ Go(c, "dial", "splice")
  /\ copying' = [copying EXCEPT ![c] = {"up", "down"}]
  /\ UNCHANGED <<client, origin, serving, slots, active, flow, decrypts, server>>

From(c, d) == IF d = "up" THEN client[c] ELSE origin[c]
Onto(c, d) == IF d = "up" THEN origin[c] ELSE client[c]

\* There is nothing more to read, ...
CopyEnds(c, d) ==
  /\ d \in copying[c] /\ From(c, d) # "open"
  /\ copying' = [copying EXCEPT ![c] = @ \ {d}]
  /\ UNCHANGED <<at, client, origin, serving, slots, active, flow, decrypts, server>>

\* ... or something was read and cannot be written.
CopyFails(c, d) ==
  /\ d \in copying[c] /\ From(c, d) = "open" /\ Onto(c, d) = "gone"
  /\ copying' = [copying EXCEPT ![c] = @ \ {d}]
  /\ UNCHANGED <<at, client, origin, serving, slots, active, flow, decrypts, server>>

\* Mutant: one direction is enough.
BothEndedEither(c) == copying[c] # {"up", "down"}
BothEnded(c) == copying[c] = {}

Spliced(c) ==
  /\ BothEnded(c) /\ Return(c, "splice")
  /\ flow' = [flow EXCEPT ![c] = "done"]
  /\ origin' = [origin EXCEPT ![c] = "gone"]
  /\ UNCHANGED <<copying, serving>>

-----------------------------------------------------------------------------
(* Both ends, the policy, the stop.                                        *)

ClientLeaves(c) ==
  /\ at[c] # "none"
  /\ client' \in {[client EXCEPT ![c] = e] : e \in IF client[c] = "open" THEN {"quiet", "gone"} ELSE {"gone"}}
  /\ UNCHANGED <<at, origin, copying, serving, slots, active, flow, decrypts, server>>

OriginLeaves(c) ==
  /\ at[c] = "splice"
  /\ origin' \in {[origin EXCEPT ![c] = e] : e \in IF origin[c] = "open" THEN {"quiet", "gone"} ELSE {"gone"}}
  /\ UNCHANGED <<at, client, copying, serving, slots, active, flow, decrypts, server>>

SetDecrypt ==
  /\ decrypts' = ~decrypts
  /\ UNCHANGED <<at, client, origin, copying, serving, slots, active, flow, server>>

Shutdown ==
  /\ server = "up" /\ server' = "draining"
  /\ UNCHANGED <<at, client, origin, copying, serving, slots, active, flow, decrypts>>

\* Plain requests are through, or the deadline is over.
Drained ==
  /\ server = "draining" /\ server' = "drained"
  /\ UNCHANGED <<at, client, origin, copying, serving, slots, active, flow, decrypts>>

\* What net/http has in its own hands is cut: hijacked connections are not.
Close ==
  /\ server = "drained" /\ server' = "closed"
  /\ client' = [c \in Conn |-> IF at[c] = "plain" \/ at[c] = "http1" THEN "gone" ELSE client[c]]
  /\ UNCHANGED <<at, origin, copying, serving, slots, active, flow, decrypts>>

-----------------------------------------------------------------------------
Handler(c) ==
  \/ NotEstablished(c) \/ Established(c)
  \/ HandshakeFails(c) \/ \E p \in {"http1", "http2"} : Decrypted(c, p)
  \/ HTTP1Returns(c) \/ HTTP2Returns(c)
  \/ DialFails(c) \/ Dialed(c) \/ Spliced(c)

Next ==
  \/ \E c \in Conn :
       \/ Connect(c) \/ Refuse(c) \/ Plain(c) \/ PlainDone(c)
       \/ Handler(c) \/ Served(c)
       \/ \E d \in {"up", "down"} : CopyEnds(c, d) \/ CopyFails(c, d)
       \/ ClientLeaves(c) \/ OriginLeaves(c)
  \/ SetDecrypt \/ Shutdown \/ Drained \/ Close

\* Handlers and copies go on; a connection without a client is noticed; a drain
\* has a deadline.  Clients and origins may stay, and be silent.
Fairness ==
  /\ \A c \in Conn :
       /\ WF_vars(Handler(c))
       /\ \A d \in {"up", "down"} : WF_vars(CopyEnds(c, d))
       /\ WF_vars(client[c] = "gone" /\ Served(c))
       /\ WF_vars(client[c] = "gone" /\ PlainDone(c))
  /\ WF_vars(Drained)

Spec == Init /\ [][Next]_vars /\ Fairness

-----------------------------------------------------------------------------
(* Properties.                                                             *)

\* Whatever way a handler takes, its place is given back once: places and counts
\* are those of the handlers that have not returned.
PlacesAreHeld ==
  LET tunnels == {c \in Conn : at[c] \in InTunnel} IN
  /\ slots = Cardinality(tunnels)
  /\ active = Cardinality(tunnels \cup {c \in Conn : at[c] = "plain"})

\* A splice goes on in one direction when the other has ended: it is over, and
\* recorded as over, only when neither end sends any more or one end is gone.
WholeSplice ==
  [][\A c \in Conn : at[c] = "splice" /\ at'[c] = "returned" =>
       /\ flow'[c] = "done" /\ copying[c] = {}
       /\ \/ client[c] # "open" /\ origin[c] # "open"
          \/ client[c] = "gone" \/ origin[c] = "gone"]_vars

\* What a tunnel without a client may still wait for: its origin to say something
\* or to leave, or, if it is served as HTTP/1.1, the stop.
Waits(c) ==
  \/ at[c] = "splice" /\ origin[c] = "open"
  \/ at[c] = "http1" /\ ~Stopped

\* Any other tunnel without a client ends and gives its place back, whatever it
\* was in the middle of.
TunnelEnds ==
  \A c \in Conn :
    at[c] \in InTunnel /\ client[c] = "gone" /\ ~Waits(c) ~> at[c] = "returned" \/ Waits(c)

\* The stop leaves no decrypted HTTP/1.1 tunnel behind, whenever it was set up.
StopCuts ==
  server = "drained" ~> \A c \in Conn : at[c] # "http1"

\* server.go: "ActiveConns is the number of open tunnels/requests".  A tunnel
\* whose connection is over is not counted for ever.
CountsOpen ==
  \A c \in Conn : at[c] = "http1" /\ c \notin serving ~> at[c] = "returned"
=============================================================================
