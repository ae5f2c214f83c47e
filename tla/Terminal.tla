------------------------------ MODULE Terminal ------------------------------
(***************************************************************************)
(* What a user sees of pano and what a browser sees of it: the flow list   *)
(* (TuiList) and the detail view (TuiDetail) of the terminal UI, and the   *)
(* certificate authority (Authority).  They share no state, so a behaviour *)
(* is of one of them, side, and the others stay as they began.             *)
(***************************************************************************)
EXTENDS Naturals, FiniteSets

CONSTANTS
  None,       \* nothing there yet; of TuiList and Authority, Nil
  MaxFlows, MaxRows, PageLimit, MaxStream, MaxLoads, Tagged,          \* TuiList
  MaxAsked, Llm,                                                      \* TuiDetail
  Hosts, Addresses, MaxMisses, RootTTL, LeafTTL, FreshFor, MemCache,  \* Authority
  MaxDays, MaxKeys

\* A subscriber's queue holds an event at least (bus.go Subscribe); a leaf is made
\* for longer than fresh asks for (authority.go DefaultLeafTTL: nothing sets another).
ASSUME SizesAssumption ==
  /\ MaxFlows \in Nat /\ MaxRows \in Nat /\ PageLimit \in Nat
  /\ MaxStream \in Nat \ {0} /\ MaxLoads \in Nat /\ MaxAsked \in Nat
  /\ RootTTL \in Nat /\ LeafTTL \in Nat /\ FreshFor \in Nat /\ FreshFor < LeafTTL
  /\ MemCache \in Nat /\ MaxDays \in Nat /\ MaxKeys \in Nat /\ MaxMisses \in Nat

\* What is not there is none of the things there are.
ASSUME NoneAssumption ==
  /\ None \notin Nat
  /\ None \notin [id : Nat, part : {"both", "request"}, secret : BOOLEAN]

VARIABLES side,
  ring, live, last, stream, asked, pages, clear, rows, filter, hits, watermark, gen, paused,
  missed, cleared,
  flows, cursor, follow, mode, open, tab, secret, detail, explain, diff, marked, pane,
  loading, screen, requests,
  now, made, cert, key, leafKey, dir, load, ca, lru, flight, asking

list == <<ring, live, last, stream, asked, pages, clear, rows, filter, hits, watermark, gen,
          paused, missed, cleared>>
view == <<flows, cursor, follow, mode, open, tab, secret, detail, explain, diff, marked,
          pane, loading, screen, requests>>
authority == <<now, made, cert, key, leafKey, dir, load, ca, lru, flight, asking>>

List == INSTANCE TuiList WITH Nil <- None, kept <- ring, answers <- pages
Detail == INSTANCE TuiDetail WITH n <- flows, part <- tab, asked <- requests
Certs == INSTANCE Authority WITH Nil <- None

TerminalStart == List!Init /\ Detail!Init /\ Certs!Init

TerminalInit == side \in {"list", "detail", "ca"} /\ TerminalStart

TerminalNext ==
  \/ side = "list" /\ List!Next /\ UNCHANGED <<side, view, authority>>
  \/ side = "detail" /\ Detail!Next /\ UNCHANGED <<side, list, authority>>
  \/ side = "ca" /\ Certs!Next /\ UNCHANGED <<side, list, view>>

TerminalSpec == TerminalInit /\ [][TerminalNext]_<<side, list, view, authority>>

-----------------------------------------------------------------------------
(* Properties. *)

\* The list shows no row that the answered filter does not hold, and forgets no
\* row of a flow it was told of (tui/model.go setFilter, flowsMsg; data.go put), a flow
\* recorded again after a clear included (daemon.go Done);
\* a body on screen is of the open flow or an answer for it is under way, and a
\* closed view is empty and stays so (model.go detailMsg, closeDetail).
ScreenHolds ==
  /\ List!FilterHolds /\ List!NothingForgotten
  /\ Detail!BodyCatchesUp /\ Detail!ClosedStaysEmpty

\* No answer brings back what the user has seen cleared, unless the daemon has
\* recorded it again since (tui/model.go clearedMsg).
ClearedStaysAway == List!ClearedStaysAway

\* A handshake is given a leaf for its host, of the root and key the daemon
\* loaded, that is fresh and does not outlive the root, whatever other processes
\* do to the files; a host with a fresh leaf in memory is not minted for again,
\* and the memory is bounded (ca/authority.go).
CertsHold == Certs!LeafServes /\ Certs!CacheBounded /\ Certs!MintsOnce
=============================================================================
