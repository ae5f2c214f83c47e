------------------------------ MODULE MCTerminal ------------------------------
(***************************************************************************)
(* A small instance, for TLC, of Terminal, beside one of Memory and what   *)
(* MCInspect shows of a flow; a behaviour is of one of the three.          *)
(***************************************************************************)
EXTENDS MCInspect, Terminal, Memory

\* A subdomain of another host, which is forgotten with it.
MCHost == {<<"a">>, <<"b", "a">>, <<"c">>}
MCPattern == {<<"a">>}

\* One body does not fit the budget.
MCBlob == {"a", "b", "c", "d"}
MCSize == [b \in MCBlob |-> IF b = "d" THEN 3 ELSE 1]

\* Within the limit and above it; a fragment of either may be empty.
MCPayloads == {<<"x">>, <<"x", "y", "z">>}

\* The Wi-Fi with one address or the next, and a cable; the Wi-Fi down; nothing private.
Interface(name, rank, ips) == [name |-> name, up |-> TRUE, rank |-> rank, ips |-> ips]
Public == [ip |-> "p", private |-> FALSE]
Local(ip) == [ip |-> ip, private |-> TRUE]
WiFi(ip) == Interface("en0", 0, <<Public, Local(ip)>>)
Cable == Interface("en5", 1, <<Local("d")>>)
MCInterfaces ==
  {<<Cable, WiFi("a")>>, <<WiFi("b"), Cable>>, <<Cable, [WiFi("a") EXCEPT !.up = FALSE]>>,
   <<Interface("en1", 1, <<Public>>)>>}

-----------------------------------------------------------------------------
\* The files, and the flights of a host; or the hosts that share the LRU, for
\* fewer days and keys.
OneHost ==
  \E h \in Hosts : \A i \in Hosts \ {h} :
    /\ asking'[i] = 0 /\ flight'[i] = None
    /\ i \notin DOMAIN dir' /\ \A m \in DOMAIN lru' : lru'[m].host # i
Small == now' <= 1 /\ made' <= 2 /\ Certs!Misses' <= 1

\* Two answers for the list are under way: one that is late, and one that counts.
TwoAnswers == Cardinality(asked') + Cardinality(pages') <= 2

\* Of the times of a device only the order counts.
Evenly == Clock(touches') = Len(touches')

NoTerminal == side = "none" /\ TerminalStart
NoMemory == memory = "none" /\ MemoryStart

terminal == <<side, list, view, authority>>
remembered == <<memory, tables, splice, mobile>>

MCInit ==
  \/ InspectInit /\ NoTerminal /\ NoMemory
  \/ NoInspect /\ TerminalInit /\ NoMemory
  \/ NoInspect /\ NoTerminal /\ MemoryInit

MCNext ==
  \/ InspectNext /\ UNCHANGED <<terminal, remembered>>
  \/ TerminalNext /\ (OneHost \/ Small) /\ TwoAnswers /\ UNCHANGED <<part, inspect, remembered>>
  \/ MemoryNext /\ Evenly /\ UNCHANGED <<part, inspect, terminal>>

MCSpec == MCInit /\ [][MCNext]_<<part, inspect, terminal, remembered>>
=============================================================================
