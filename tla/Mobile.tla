------------------------------- MODULE Mobile -------------------------------
(***************************************************************************)
(* `pano mobile`: the proxy's listener for the devices on the network      *)
(* (internal/daemon mobile.go, internal/mobile lan.go, and of the proxy    *)
(* AddListener, RemoveListener and isSelf).  A call has mobileMu from its  *)
(* first step to its last, and is one step here.  The Wi-Fi's name and     *)
(* what the pages say are left out, and so is what the listener admits.    *)
(*                                                                         *)
(* An address is [ip, port].  An interface is [name, up, rank, ips]: rank  *)
(* is ifaceRank of its name, ips its addresses as [ip, private]; those     *)
(* that Detect skips by name or flag are not up.                           *)
(***************************************************************************)
EXTENDS Naturals, FiniteSets, Sequences, SequencesExt, Functions

CONSTANTS
  Interfaces,         \* what the machine may have when it looks: sequences of interfaces
  IPs, Ports,         \* that may be asked for
  ProxyPort, Loopback,   \* of the proxy itself
  NoIPv4, NotThere,   \* asked for, but no IPv4 address; nothing
  MaxOrders            \* bound on the calls

VARIABLES
  mobileLn, mobileLAN, mobileLast, \* Daemon: the listener's address, its LAN, where it was
  listening,                       \* sockets that are open to the network
  extra, selfIPs,                  \* Server
  orders                           \* the calls: [op, addr, was], was the listener before it

mobile == <<mobileLn, mobileLAN, mobileLast, listening, extra, selfIPs, orders>>

PrivateIPs(i) == SelectSeq(i.ips, LAMBDA a : a.private)

\* The first of the interfaces of least rank, as the sort is stable.
Detect(ifaces) ==
  LET cands == SelectSeq(ifaces, LAMBDA i : i.up /\ PrivateIPs(i) # <<>>)
      best == {n \in DOMAIN cands : \A m \in DOMAIN cands :
                 cands[n].rank < cands[m].rank \/ (cands[n].rank = cands[m].rank /\ n <= m)}
  IN IF cands = <<>> THEN NotThere
     ELSE LET i == cands[CHOOSE n \in best : TRUE] IN [ip |-> PrivateIPs(i)[1].ip, name |-> i.name]

LanOf(ip, ifaces) ==
  IF ip = NotThere THEN Detect(ifaces)
  ELSE IF ip = NoIPv4 THEN NotThere ELSE [ip |-> ip, name |-> "custom"]
AddrOf(lan, port) == [ip |-> lan.ip, port |-> IF port = 0 THEN ProxyPort ELSE port]

\* What SetMobile may be asked for, and the addresses that come of it.
Asked == [ifaces : Interfaces, ip : IPs \cup {NoIPv4, NotThere}, port : Ports \cup {0}]
MobileAddrs == {AddrOf(LanOf(a.ip, a.ifaces), a.port) : a \in {b \in Asked : LanOf(b.ip, b.ifaces) # NotThere}}

ASSUME MobileAssumption == NotThere \notin MobileAddrs

\* RemoveListener of the one that is there, and AddListener of one behind it.
Removed == [ips |-> IF mobileLn = NotThere THEN selfIPs ELSE Restrict(selfIPs, DOMAIN selfIPs \ {mobileLn.ip}),
            all |-> extra \ {mobileLn}, open |-> listening \ {mobileLn}]
AddListener(addr) ==
  /\ extra' = Removed.all \cup {addr} /\ listening' = Removed.open \cup {addr}
  /\ selfIPs' = [i \in {addr.ip} \cup DOMAIN Removed.ips |->
                   IF i = addr.ip THEN addr.port ELSE Removed.ips[i]]
RemoveListener == extra' = Removed.all /\ listening' = Removed.open /\ selfIPs' = Removed.ips

Ordered(op, addr) == orders' = Append(orders, [op |-> op, addr |-> addr, was |-> mobileLn])

TurnOff ==
  /\ Ordered("off", NotThere)
  /\ RemoveListener /\ mobileLn' = NotThere
  /\ IF mobileLn = NotThere THEN UNCHANGED <<mobileLast, mobileLAN>>
     ELSE mobileLast' = mobileLn /\ mobileLAN' = NotThere

\* free: whether it could listen.
TurnOn(lan, port, free) ==
  IF lan = NotThere THEN Ordered("on", NotThere) /\ UNCHANGED <<mobileLn, mobileLAN, mobileLast, listening, extra, selfIPs>>
  ELSE LET addr == AddrOf(lan, port) IN
    /\ Ordered("on", addr)
    /\ \/ mobileLn = addr /\ UNCHANGED <<mobileLn, mobileLAN, mobileLast, listening, extra, selfIPs>>
       \/ /\ mobileLn # addr /\ free
          /\ AddListener(addr) /\ mobileLn' = addr /\ mobileLAN' = lan /\ mobileLast' = NotThere
       \/ /\ mobileLn # addr /\ ~free
          /\ RemoveListener /\ mobileLn' = NotThere /\ mobileLast' = NotThere /\ UNCHANGED mobileLAN

MobileInit ==
  /\ mobileLn = NotThere /\ mobileLAN = NotThere /\ mobileLast = NotThere
  /\ listening = {} /\ extra = {} /\ selfIPs = <<>> /\ orders = <<>>

\* SetMobile.
MobileNext ==
  /\ Len(orders) < MaxOrders
  /\ \/ TurnOff
     \/ \E a \in Asked, free \in BOOLEAN : TurnOn(LanOf(a.ip, a.ifaces), a.port, free)

-----------------------------------------------------------------------------
isSelf(a) ==
  \/ a.ip \in DOMAIN selfIPs /\ selfIPs[a.ip] = a.port
  \/ a.port = ProxyPort /\ a.ip = Loopback

\* mobileStateLast of an open listener: whether the address it has is not the one
\* the interface has by now.
Warned(ifaces) ==
  LET cur == Detect(ifaces) IN cur # NotThere /\ cur.ip # mobileLn.ip /\ cur.name = mobileLAN.name

Asks == {n \in DOMAIN orders : orders[n].op = "on" /\ orders[n].addr # NotThere}

\* Whatever was asked for and failed, the proxy is open to the network at one
\* address or none, the one that is shown; it takes that address, and no other
\* but its own, for itself; it is the one asked for last; once it was closed by
\* `off`, it is told where it was, until it is to be opened again; and it warns just
\* when its interface is not as it was when it was opened (mobile.go SetMobile,
\* mobileStateLast, server.go isSelf).
MobileTrue ==
  /\ listening = IF mobileLn = NotThere THEN {} ELSE {mobileLn}
  /\ extra = listening
  /\ \A a \in {orders[n].addr : n \in Asks} \cup {[ip |-> Loopback, port |-> ProxyPort]} :
       isSelf(a) <=> a \in listening \/ a = [ip |-> Loopback, port |-> ProxyPort]
  /\ mobileLn # NotThere => \E n \in Asks :
       /\ orders[n].addr = mobileLn
       /\ \A m \in DOMAIN orders : m > n => orders[m].op = "on" /\ (m \in Asks => orders[m].addr = mobileLn)
  /\ mobileLn = NotThere /\ mobileLast # NotThere => \E n \in DOMAIN orders :
       orders[n].op = "off" /\ orders[n].was = mobileLast /\ \A m \in Asks : m < n
  /\ mobileLn = NotThere /\ mobileLast = NotThere => \A n \in DOMAIN orders :
       orders[n].op = "off" /\ orders[n].was # NotThere => \E m \in Asks : m > n
  /\ mobileLn # NotThere => \A ifaces \in Interfaces :
       LET cur == Detect(ifaces) IN
       Warned(ifaces) <=> cur # NotThere /\ cur.name = mobileLAN.name /\ cur # mobileLAN

-----------------------------------------------------------------------------
(* What one would expect of it and TLC refutes; no run checks it. *)

\* Where the listener was is told until it is open again.
LastIsTold ==
  mobileLn = NotThere /\ (\E n \in DOMAIN orders : orders[n].was # NotThere) => mobileLast # NotThere
=============================================================================
