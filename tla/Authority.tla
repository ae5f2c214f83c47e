------------------------------ MODULE Authority ------------------------------
(***************************************************************************)
(* The certificate authority (internal/ca authority.go): Load, which the   *)
(* daemon calls when it starts and every `pano ca` command calls in a      *)
(* process of its own, on the same files; and CertFor, which the daemon's  *)
(* handshakes call at once, behind an LRU, the files of CacheDir, and one  *)
(* flight per host.                                                        *)
(*                                                                         *)
(* Time is in days.  A key is a number; the root made with it has it as    *)
(* its id.  Hosts are in the form CertFor gives them, and each has a file  *)
(* name of its own.  A process may end between any two operations on       *)
(* files, and does where one fails; a file is written whole or not at all. *)
(***************************************************************************)
EXTENDS Naturals, FiniteSets, Sequences, SequencesExt

CONSTANTS
  Hosts, Addresses,   \* hosts that are asked for; those that are an IP
  MaxMisses,          \* bound on the flights, and the handshakes about to join one
  RootTTL, LeafTTL, FreshFor, MemCache,
  MaxDays, MaxKeys,   \* bounds on the clock and on the keys ever made
  Nil

VARIABLES
  now, made,          \* the clock; keys made so far
  cert, key, leafKey, \* CertFile, KeyFile, LeafKeyFile, or Nil
  dir,                \* CacheDir: leafs, by host
  load,               \* [process -> where it is in Load]
  ca,                 \* the daemon's Authority: [root, leafKey], Nil while it is down
  lru,                \* a.lru, the front first
  flight,             \* a.sf, by host: Nil, or how far its function has come
  asking              \* handshakes that cacheGet has failed, by host, before sf.Do

Process == {"daemon", "cli"}
files == <<cert, key, leafKey, dir>>
serving == <<lru, flight, asking>>
authority == <<now, made, files, load, ca, serving>>

Idle == [at |-> "idle", root |-> Nil, todo |-> <<>>, then |-> "idle"]
Least(a, b) == IF a < b THEN a ELSE b

Init ==
  /\ now = 0 /\ made = 0
  /\ cert = Nil /\ key = Nil /\ leafKey = Nil /\ dir = <<>>
  /\ load = [p \in Process |-> Idle] /\ ca = Nil
  /\ lru = <<>> /\ flight = [h \in Hosts |-> Nil] /\ asking = [h \in Hosts |-> 0]

\* A Load and a handshake take milliseconds.
Tick ==
  /\ now < MaxDays /\ now' = now + 1
  /\ (\A p \in Process : load[p] = Idle) /\ (\A h \in Hosts : flight[h] = Nil /\ asking[h] = 0)
  /\ UNCHANGED <<made, files, load, ca, serving>>

-----------------------------------------------------------------------------
(* Load, one operation on the files at a time. *)

At(p, step) == load[p].at = step
Go(p, step, root) == load' = [load EXCEPT ![p] = [Idle EXCEPT !.at = step, !.root = root]]
Clear(p, todo, then) ==
  load' = [load EXCEPT ![p] = [Idle EXCEPT !.at = "clear", !.todo = todo, !.then = then]]
Over(p) == load' = [load EXCEPT ![p] = Idle]

Start(p) ==
  /\ load[p] = Idle
  /\ p = "daemon" => ca = Nil
  /\ Go(p, "cert", Nil)
  /\ UNCHANGED <<now, made, files, ca, serving>>

\* `ca reset`, after the Load that it makes and whose error it drops.
Reset ==
  /\ load["cli"] = Idle /\ Clear("cli", <<"cert", "key", "leafKey", "dir">>, "cert")
  /\ UNCHANGED <<now, made, files, ca, serving>>

ReadCert(p) ==
  /\ At(p, "cert") /\ Go(p, "key", cert)
  /\ UNCHANGED <<now, made, files, ca, serving>>

\* loadOrCreateRoot with both files read; parseRoot.
ReadKey(p) ==
  /\ At(p, "key")
  /\ LET root == load[p].root  pair == root # Nil /\ key = root.id IN
     \/ pair /\ now < root.until /\ Go(p, "leaf", root)
     \/ pair /\ now >= root.until /\ Clear(p, <<"cert", "key", "dir">>, "create")    \* rotateRoot
     \/ root = Nil /\ key = Nil /\ Go(p, "create", Nil)
     \/ ~pair /\ (root # Nil \/ key # Nil) /\ Over(p)
  /\ UNCHANGED <<now, made, files, ca, serving>>

Without(file, f, v, empty) == IF file = f THEN empty ELSE v

\* The removals of rotateRoot, and of `ca reset`.
RemoveNext(p) ==
  /\ At(p, "clear")
  /\ LET file == Head(load[p].todo)  rest == Tail(load[p].todo) IN
     /\ cert' = Without(file, "cert", cert, Nil) /\ key' = Without(file, "key", key, Nil)
     /\ leafKey' = Without(file, "leafKey", leafKey, Nil) /\ dir' = Without(file, "dir", dir, <<>>)
     /\ IF rest = <<>> THEN Go(p, load[p].then, Nil) ELSE Clear(p, rest, load[p].then)
  /\ UNCHANGED <<now, made, ca, serving>>

\* createRoot: the key is written first.
WriteKey(p) ==
  /\ At(p, "create") /\ made < MaxKeys
  /\ made' = made + 1 /\ key' = made'
  /\ Go(p, "root", [id |-> made', until |-> now + RootTTL])
  /\ UNCHANGED <<now, cert, leafKey, dir, ca, serving>>

WriteCert(p) ==
  /\ At(p, "root") /\ cert' = load[p].root
  /\ Go(p, "leaf", load[p].root)
  /\ UNCHANGED <<now, made, key, leafKey, dir, ca, serving>>

\* Load returns: a process of the CLI has no use for the leaf key.
Loaded(p, k) ==
  /\ Over(p)
  /\ ca' = IF p = "daemon" THEN [root |-> load[p].root, leafKey |-> k] ELSE ca

\* loadOrCreateLeafKey
ReadLeafKey(p) ==
  /\ At(p, "leaf")
  /\ \/ leafKey # Nil /\ Loaded(p, leafKey)
     \/ leafKey = Nil /\ Go(p, "leafKey", load[p].root) /\ UNCHANGED ca
  /\ UNCHANGED <<now, made, files, serving>>

WriteLeafKey(p) ==
  /\ At(p, "leafKey") /\ made < MaxKeys
  /\ made' = made + 1 /\ leafKey' = made' /\ Loaded(p, made')
  /\ UNCHANGED <<now, cert, key, dir, serving>>

\* The process ends, wherever it is.
Quit(p) ==
  /\ load[p] # Idle \/ (p = "daemon" /\ ca # Nil)
  /\ load' = [load EXCEPT ![p] = Idle]
  /\ IF p = "cli" THEN UNCHANGED <<ca, serving>> ELSE
     /\ ca' = Nil /\ lru' = <<>>
     /\ flight' = [h \in Hosts |-> Nil] /\ asking' = [h \in Hosts |-> 0]
  /\ UNCHANGED <<now, made, files>>

-----------------------------------------------------------------------------
(* CertFor. *)

fresh(leaf) ==
  \/ leaf.until > now + FreshFor
  \/ leaf.until > now /\ leaf.until = ca.root.until

\* Where the leaf of a host is, 0 for nowhere.
Cached(h) ==
  IF \E n \in DOMAIN lru : lru[n].host = h THEN CHOOSE n \in DOMAIN lru : lru[n].host = h ELSE 0

\* a.lru after a cacheGet of h: to the front if fresh, out if not.
Touched(h) ==
  LET n == Cached(h) IN
  IF n = 0 THEN lru ELSE IF fresh(lru[n]) THEN <<lru[n]>> \o RemoveAt(lru, n) ELSE RemoveAt(lru, n)
Hit(h) == Cached(h) # 0 /\ fresh(lru[Cached(h)])

cachePut(leaf) ==
  LET n == Cached(leaf.host)  l == <<leaf>> \o (IF n = 0 THEN lru ELSE RemoveAt(lru, n))
  IN SubSeq(l, 1, IF n = 0 THEN Least(MemCache, Len(l)) ELSE Len(l))

\* GetCertificate: the CONNECT target, if it is a name or the ClientHello has none.
ServerName(sni, target) ==
  IF target # Nil /\ (sni = Nil \/ target \notin Addresses) THEN target ELSE sni

\* asking is a bag; a bound for TLC.
Misses == SumFunction(asking) + Cardinality({h \in Hosts : flight[h] # Nil})

\* GetCertificate, and the first cacheGet of CertFor.
GetCertificate ==
  /\ ca # Nil
  /\ \E sni, target \in Hosts \cup {Nil} : LET h == ServerName(sni, target) IN
     /\ h # Nil /\ lru' = Touched(h)
     /\ Hit(h) \/ Misses < MaxMisses
     /\ asking' = IF Hit(h) THEN asking ELSE [asking EXCEPT ![h] = @ + 1]
  /\ UNCHANGED <<now, made, files, load, ca, flight>>

\* sf.Do: the call begins the flight of its host, or waits for the one there is.
Join(h) ==
  /\ asking[h] > 0 /\ asking' = [asking EXCEPT ![h] = @ - 1]
  /\ flight' = [flight EXCEPT ![h] = IF @ = Nil THEN [at |-> "cache", leaf |-> Nil] ELSE @]
  /\ UNCHANGED <<now, made, files, load, ca, lru>>

Fly(h, step, leaf) == flight' = [flight EXCEPT ![h] = [at |-> step, leaf |-> leaf]]
Flying(h, step) == flight[h] # Nil /\ flight[h].at = step

\* The second cacheGet, under the flight.
FlightCache(h) ==
  /\ Flying(h, "cache") /\ lru' = Touched(h)
  /\ IF Hit(h) THEN Fly(h, "done", lru[Cached(h)]) ELSE Fly(h, "disk", Nil)
  /\ UNCHANGED <<now, made, files, load, ca, asking>>

\* Mutant: a leaf is good whoever signed it.
diskGetAny(h) == IF h \in DOMAIN dir /\ fresh(dir[h]) THEN dir[h] ELSE Nil

diskGet(h) ==
  IF h \in DOMAIN dir /\ fresh(dir[h]) /\ dir[h].root = ca.root.id /\ dir[h].key = ca.leafKey
  THEN dir[h] ELSE Nil

FlightDisk(h) ==
  /\ Flying(h, "disk")
  /\ IF diskGet(h) # Nil THEN Fly(h, "put", diskGet(h)) ELSE Fly(h, "issue", Nil)
  /\ UNCHANGED <<now, made, files, load, ca, lru, asking>>

Issued(h) ==
  [host |-> h, root |-> ca.root.id, key |-> ca.leafKey, until |-> Least(now + LeafTTL, ca.root.until)]

\* issue: not every name can be signed for.
Issue(h) ==
  /\ Flying(h, "issue")
  /\ Fly(h, "write", Issued(h)) \/ Fly(h, "done", Nil)
  /\ UNCHANGED <<now, made, files, load, ca, lru, asking>>

\* diskPut: the error is dropped.
diskPut(h) ==
  /\ Flying(h, "write")
  /\ dir' = [i \in {h} \cup DOMAIN dir |-> IF i = h THEN flight[h].leaf ELSE dir[i]] \/ UNCHANGED dir
  /\ Fly(h, "put", flight[h].leaf)
  /\ UNCHANGED <<now, made, cert, key, leafKey, load, ca, lru, asking>>

FlightPut(h) ==
  /\ Flying(h, "put") /\ lru' = cachePut(flight[h].leaf)
  /\ Fly(h, "done", flight[h].leaf)
  /\ UNCHANGED <<now, made, files, load, ca, asking>>

\* The flight is over: all who wait are given its leaf, or its error.
Land(h) ==
  /\ Flying(h, "done") /\ flight' = [flight EXCEPT ![h] = Nil]
  /\ UNCHANGED <<now, made, files, load, ca, lru, asking>>

Next ==
  \/ Tick
  \/ \E p \in Process :
       \/ Start(p) \/ ReadCert(p) \/ ReadKey(p) \/ RemoveNext(p) \/ WriteKey(p) \/ WriteCert(p)
       \/ ReadLeafKey(p) \/ WriteLeafKey(p) \/ Quit(p)
  \/ Reset \/ GetCertificate
  \/ \E h \in Hosts :
       Join(h) \/ FlightCache(h) \/ FlightDisk(h) \/ Issue(h) \/ diskPut(h) \/ FlightPut(h) \/ Land(h)

-----------------------------------------------------------------------------
(* Properties. *)

\* What a handshake is given, from memory or from a flight, is a leaf for its
\* host that the daemon's own root signed for its own key, whatever the files
\* hold by then; it is fresh, or as fresh as the root lets it be, and does not
\* outlive it (authority.go CertFor, diskGet, issue).
Serves(leaf, h) ==
  /\ leaf.host = h /\ leaf.root = ca.root.id /\ leaf.key = ca.leafKey
  /\ leaf.until > now + FreshFor \/ leaf.until = ca.root.until
  /\ leaf.until <= ca.root.until

LeafServes ==
  \A h \in Hosts :
    /\ ca # Nil /\ Hit(h) => Serves(lru[Cached(h)], h)
    /\ Flying(h, "done") /\ flight[h].leaf # Nil => Serves(flight[h].leaf, h)

\* One entry of the LRU per host, and no more than its size.
CacheBounded == Len(lru) <= MemCache /\ \A m, n \in DOMAIN lru : m # n => lru[m].host # lru[n].host

\* Nothing is about to be minted for a host that has a fresh leaf in memory.
MintsOnce == \A h \in Hosts : Flying(h, "issue") => ~Hit(h)
=============================================================================
