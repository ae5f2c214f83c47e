# Verification of pano

`pano` is a macOS debugging proxy: a daemon decrypts and records HTTP(S)
traffic, applies rules to it, and puts itself in the path by changing the
system proxy settings. This directory holds TLA+ models of the daemon's core
logic, of what is made of the traffic it holds, and of the terminal UI; TLC
configurations that check them on small instances; and proofs that TLAPS checks
for instances of any size. Paths below are relative to the repository.

## Reading order

| Component | Module | Abstract specification | Instances | Proofs |
|---|---|---|---|---|
| System proxy and its watchdog | `SysProxy` | `SysProxyPromise` | `MCSysProxy` | `SysProxyProofs` |
| Breakpoints | `Breakpoint` | `BreakpointPromise` | `MCBreakpoint` | `BreakpointProofs` |
| Event bus | `Bus` | `BusPromise` | `MCBus` | `BusMemoryProofs` |
| Rule engine | `RuleEngine` | | `MCRuleEngine` | `RuleEngineProofs` |
| Flow store and `Tail` | `FlowStore` | | `MCFlowStore` | `FlowStoreProofs` |
| Proxy server and tunnels | `Tunnel` | | `Tunnel` | `TunnelTerminalProofs` |
| Exchanges and their captures | `Capture` | | `MCCapture` | `CaptureProofs` |
| Windows and the life of the daemon | `Attach` | | `MCEndings` | `SysProxyProofs` |
| Terminal UI: flow list, detail view | `TuiList`, `TuiDetail` | | `MCTerminal` | `TunnelTerminalProofs` |
| Certificate authority | `Authority` | | `MCTerminal` | `TunnelTerminalProofs` |
| What is remembered of those pano talks to: hosts that refused, devices, bodies; WebSocket messages; the listener for the network | `Memory`: `Tables`, `Frames`, `Mobile` | | `MCTerminal` | `BusMemoryProofs` |
| Digests of LLM traffic | `Explain`, `LlmStream`, `LlmDigest` | | `MCInspect` | |
| Showing a flow: diff, rendering, redaction, summaries | `Diff`, `View`, `Summary` | | `MCInspect` | |
| What rules mean | `Rules` | | `MCInspect` | |
| Queries; HAR files | `Query`, `Har` | | `MCInspect` | `FlowStoreProofs` (`Har`) |

Parts that share no state are put side by side; a behaviour is of one of them,
chosen at its start. `Terminal` has the list, the detail view and the authority
(`side` says of which a behaviour is), `Memory` the three tables, the frames and the
listener, `Endings` the system proxy and the windows. `MCTerminal` extends
`MCInspect`, `Terminal` and `Memory` and is the run `terminal`;
`MCEndings` extends `MCSysProxy` and `Endings` and is the run `endings`. The proofs
are about the composed modules, so those of `Attach` are in `SysProxyProofs`, and
`FlowStoreProofs` has also those of the files flows are exported to (`Har`),
`TunnelTerminalProofs` has those of `Tunnel` and of the parts of `Terminal`, what pano's
users are in front of, and `BusMemoryProofs` those of `Bus` and of the parts of `Memory`,
what the daemon passes on and what it keeps. `Sums` has the facts about sums that the
proofs of the flow store, of the captures and of the bodies rest on.

`PROJECT.json` lists the runs, which lines of the source every definition
stands for, the hazards of the code with the properties that cover them, the
mutants that show each property can fail, the findings and the theorems.

To repeat a run: `tlc -workers 2 -config Bus.cfg MCBus`. To check the proofs:
`tlapm BreakpointProofs.tla`.

## Inventory

What the system consists of, the state each part keeps, and where it is hard.

### Core of the daemon

**System proxy manager** (`internal/sysproxy`). State: macOS's own settings,
reached only through `networksetup` commands, and `sysproxy.json`, the snapshot
of how every service looked before pano. Operations: `Enable` (capture, write
the file, five commands per service), `Disable` and `RestoreStale` (read the
file, six commands per service, delete it). Callers: control handlers, the
daemon's start and shutdown, the watchdog process. Hard: a process may die
between two commands; commands fail one by one; services vanish; the mutex is
per process and the settings are not. Correct when a service that points at
pano can always be put back, and is.

**Crash-restore watchdog** (`internal/watchdog`). A detached process per daemon
that waits for its pid and calls `RestoreStale` once. Correct when a killed
daemon's proxy settings come back.

**Daemon lifecycle** (`internal/daemon/daemon.go`, `lifecycle.go`). Start
(`RestoreStale`, ports, control socket), stop (restore, drain, cut, release
held exchanges), attached UIs with their `off_on_quit`. Hard: the order of the
shutdown, requests that never end, deadlines derived from one another.

**Breakpoints** (`internal/rules/hold.go`). State: the registry of held flows
and one channel per hold. An exchange parks; a control handler, the hold timer,
its own client or the shutdown decides. Hard: `Resume` sends after it has
unlocked. Correct when each hold has one decision, obeyed, and nothing blocks.

**Event bus** (`internal/bus`). State: subscribers with bounded channels and a
count of losses. Publishers are exchanges; readers are control streams and
`Tail`. Hard: readers take from the channel without the lock, between the steps
of a push. Correct when publishing never waits and losses are announced.

**Rule engine** (`internal/rules/engine.go`, `apply.go`). State: the ordered
rules with an atomic hit count and enabled flag each, the set compiled for the
proxy (an atomic pointer), `rules.json`. Operations: add, update, remove, fire
(on the proxy's path, without the lock), disable when `max_hits` is reached (in
a goroutine), reap what has expired, load, save. Hard: a rule fires on an old
compiled set while it is replaced. Correct when a rule with `max_hits` fires at
most that often, and what is on disk is what is in memory when nothing runs.

**Rule compilation, matching, bodies, throttle, presets**
(`internal/rules/compile.go`, `match.go`, `body.go`, `throttle.go`,
`presets.go`). Pure functions but for the throttle's clock. Hard: which phases a
rule is for, lengths and encodings after several actions on one message. Correct
when what compiles can be applied and the message agrees with itself after it.

**Proxy exchange and capture** (`internal/proxy/handler.go`, `capture.go`).
State: a flow under construction, the byte budget shared by all captures. Hard:
bodies are still being copied when the exchange is over. Correct when the
budget returns to zero and `Done` comes once per flow.

**Proxy server and tunnels** (`internal/proxy/server.go`, `connect.go`,
`conn.go`). State: a semaphore and a count of open connections, listeners,
one-connection listeners per tunnel, the h2 server. Hard: who closes a
connection, and when `handleConnect` returns. Correct when every place taken is
given back once, and in time.

**WebSocket proxying** (`internal/proxy/websocket.go`). Two copying goroutines
and an incremental frame parser on each direction. Hard: bytes are cut anywhere.
Correct when each message is logged once, in order, with its true length.

**Decrypt policy, rejected hosts, devices** (`internal/proxy/decrypt.go`,
`devices.go`). A decision per CONNECT; a table of hosts that refused the
certificate, with counts and expiry; a capped table of devices. Correct when what
a table says happened, and only what had to go has gone.

**Flow store** (`internal/store`). State: a ring of flows by id, a blob cache
with a byte limit, a WebSocket log with a byte limit, sessions. Operations:
upsert (in place, or at the end), evict, delete a session, query, tail. Hard:
flows are inserted in the order they start or finish, not of their ids; a flow
evicted while active comes back when done.

**Daemon backend** (`internal/daemon/backend.go`). The control API's
implementation: queries, `Tail` (a long poll on store and bus with a cursor),
capture, sessions, replay, system proxy.

**Mobile setup** (`internal/mobile`, `internal/daemon/mobile.go`). A second
listener on the LAN address, switched on and off; a small site.

**Control server and client** (`internal/control`, `internal/client`). HTTP on
a Unix socket; event and attach streams.

**Certificate authority** (`internal/ca`). Root and leaf certificates; a leaf
cache in memory and in files, with coalesced generation; the keychain. Hard: every
process that loads it reads, creates, rotates and resets the same files. Correct
when a leaf that is served was signed by the root the daemon has, for its key and
the host, and is in time.

### What is made of a flow

**Explain** (`internal/explain`) puts streamed answers of four LLM APIs together
and tells them in a digest. **View** (`internal/view`) decodes, cuts, renders,
compares, summarises and redacts. **Queries** (`internal/store/filter.go`,
`row.go`, `decode.go`) filter, page and search. **HAR** (`internal/har`) exports
and imports. None keeps state. Hard: input that is cut off, spoilt or too large,
bytes against runes, terms of another format. Correct when what is shown is the
truth, whole or marked as not whole, and what is known for a secret is masked.

### Clients and tools

**Terminal UI** (`internal/tui`). State: a copy of the newest rows, a filter and
the daemon's last answer to it, what the detail view shows. Operations: keys, the
answers to its calls, events. Hard: answers come in any order, over another
connection than events. **Attachments** (`internal/control/server.go` hAttach,
`internal/daemon/lifecycle.go`, `internal/tui/quit.go`, `internal/cli/ui.go`): a
window's connection whose end is the end of a daemon it owns. **CLI**
(`internal/cli`): `on`, `off`, `start`, `stop` and the query commands. **MCP
server** (`internal/mcpserver`): the same API for agents. **Self-update**
(`internal/update`): asks at most once a day whether there is a newer release.
**Simulator trust** (`internal/simulator`), **config**, and helpers.

### How they interact

```
   CLI / TUI / MCP --control socket--> handlers --> backend --> sysproxy --> networksetup
                                          |            |           ^
                                          |            |           | RestoreStale
   client --proxy port--> exchange --> rules --> hold  |       watchdog process
                             |  \                  ^   |
                             v   \--- Resume ------+---+
                           store --> bus --> event streams, Tail
```

## Plan

1. `SysProxy`: what outlives the process and breaks the user's network.  Done,
   proved.
2. `Breakpoint`: the one place where an exchange waits for somebody.  Done,
   proved.
3. `Bus`: what every client sees passes through it.  Done, proved.
4. `RuleEngine`: rules firing against edits of the rule set; `max_hits`, expiry,
   the file and its crash states.  Done, proved.  Left: an abstract
   specification (a durable rule set whose rules fire a bounded number of
   times), and that edits end.
5. `FlowStore`: ring, in-place update, eviction, sessions, the WebSocket log and
   the cursors of `Tail`.  Done, proved.  Left: the bus in place of the plain signal
   that wakes a poller.
6. `Capture`: the byte budget against exchanges that end while bodies are
   copied.  Done, proved.  Left: the calls of the sink composed with `FlowStore`'s.
7. `Tunnel`: CONNECT, the one-connection listener and the h2 hand-over.  Done,
   its safety properties proved.  Left: its stop composed with `Breakpoint`'s
   stages.
8. The windows and the daemon (`Attach`), the list and the detail view (`TuiList`,
   `TuiDetail`).  Done, their safety properties proved.  Left: the drawers of rules
   and of held exchanges, the offer to trust simulators.
9. `Authority`.  Done, proved.  Left: the keychain.
10. What is made of a flow, as operators against reference definitions: `Explain`,
    `LlmDigest`, `Diff`, `View`, `Summary`, `Rules`, `Query`, `Har`.  Done, `Har` proved.  Left: the
    merge of the bypass list, the configuration.
11. `Tables`, `Frames`, `Mobile`.  Done, proved.  Left: clients that the listener for
    the network turns away; the two directions of a WebSocket against its end.
12. Lemmas about the other functions of 10 that need no induction over their data: what
    one event or one edit leaves.

Each step is a module, its instances in a passing run, a mutant for each
property, and, for those that others rest on, a proof module.

## System proxy: `SysProxy`

### State and actions

| Variable | Code |
|---|---|
| `live` | the settings of each service, as `networksetup` shows them |
| `present` | the services `-listallnetworkservices` lists as enabled |
| `file` | `sysproxy.json` |
| `phase`, `req` | life of each daemon process; handlers waiting for the manager's mutex |
| `wd` | the watchdog each daemon has spawned |
| `job` | what a process that holds its manager's mutex is doing: the snapshot it works from, services left, the next command, errors so far |

`BeginEnable`, `EnableCommand`, `EndEnable` and `SpawnWatchdog` are `Enable` and
what the handler does after it; `BeginRestore`, `RestoreCommand` and
`EndRestore` are `restoreLocked`, called by `Start`, `Disable`, `ExitRestore`
and `WatchdogWakes`. Each `networksetup` command is a step, so that `Die` and
`WatchdogKilled` may come between any two.

Abstractions. Setting a proxy's address and switching it on is one command here
(networksetup's `-setwebproxy` switches on). The retry of a command with
administrator rights is part of the command. A capture is one step. Snapshots
written by versions that did not record PAC are left out. Whether the exit
restore runs (`restore_on_exit`) is a choice at each stop. A termination signal
during boot, and a `Listen` that fails for other reasons, are `Die`. The user
changes settings, or creates a service, only while no pano process is at work;
a service may disappear at any moment. A `networksetup` child that survives its
killed parent is left out.

`Overlap` says whether two processes may work at the same moment. The code does
not prevent it; the properties that hold without it fail with it, see the
findings.

### Properties and runs

* `sysproxy` (two daemon lives, one service, one fault, one edit): `WriteAhead`,
  a service that points at pano is in the file on disk, across every command,
  crash, retry and restore; `SnapshotPredatesPano`, the file never records pano
  itself; `KeepsPromise`, the refinement of `SysProxyPromise`: the snapshot is
  taken when the proxy is not owned, kept while it is, and given up only when
  every service still there behaves as it did.
* `endings`, its part "proxy" (two services, one life, where one service fails and
  the other does not): `WatchdogRecovers`, under the fairness of the watchdog alone.
* `sysproxy_overlap`: finding 1.

Bounds. Two lives are the least with a restart over a crash, which exercises
each of start, enable, restore and watchdog against the leavings of an earlier
process. One fault reaches every single point of failure, including a killed
watchdog; two services are the least for a partial failure. One waiting handler
per daemon is enough because a handler does nothing until it has the mutex. The
theorems have no such bounds.

Fairness. Only the watchdog is fair: it is a process of its own that waits for a
pid and then runs commands that end. Daemons may hang or die and users do as
they like, so nothing is assumed of them.

### Proofs

`TypeCorrect` needs no assumption beyond those on the constants. `WriteAheadHolds`,
`SnapshotPredatesPanoHolds` and `ImplementsPromise` assume `~Overlap`. The
properties are not inductive: in the middle of an `Enable` or a restore, that a
service is covered depends on what the job has yet to do. The invariant
`SafeInv` adds that at most one process works, that it works on the snapshot
that is on disk, and, for a restore without a failure so far, that the services
it has finished look as the snapshot says and the current one as far as the
commands it has run. `PromiseIsSafe` draws from the promise alone that nothing is
ever stranded.

## Breakpoints: `Breakpoint`

### State and actions

| Variable | Code |
|---|---|
| `at`, `holds`, `over`, `wire` | the exchange's goroutine, how often it was held, its request context, and the kind of connection it came by |
| `held` | `Engine.held`: which hold is listed under the flow's id |
| `box` | the channel of each `heldEntry` |
| `call` | a control handler between claiming an entry and sending to it |
| `stage`, `forced`, `todo` | `Daemon.shutdown`, whether the drain hit its deadline, what `releaseAll` has claimed |
| `claimed`, `ending` | history: the accepted answer, and how the hold ended |

`Park` is `hold` up to its `select`, `Hear`, `TimedOut` and `ClientGone` its
branches, `GiveUp` is `unregister` with the wait for a claimed answer; `Claim`
and `Send` are the halves of `Resume`; `Stop` to `Exit` are the shutdown.

Abstractions. A timer may fire at any time while an exchange is parked and must
at some point. Registering, publishing `held` and starting the timer is one
step. What an edit does to the request or response is the answer; an edit that
does not validate, and a flow that is not held, change no state. Handlers act
only until the control server has shut down. HTTP/1.1 tunnels are cut when their
listener closes, which happens some time after; HTTP/2 tunnels live until the
process ends; the proxy port is cut only if its drain ran into the deadline.

### Properties and runs

* `breakpoint`: `SendNeverBlocks`, whoever has claimed an entry is alone and
  finds room in its channel; `OnlyParkedListed`, what can be listed or resumed is
  parked and in its current hold; `KeepsPromise`, one decision per hold and it is
  obeyed; `HoldEnds` and `Stops`, no hold and no shutdown hangs.

Bounds: one exchange that is held twice (request and response), so that an entry
of an earlier hold can be mistaken for the current one; a second exchange so that
the shutdown has several to release; two callers, which race for one entry.

Fairness: goroutines run, timers fire, the channel send and the steps of the
shutdown go on. Nobody has to answer, leave or stop.

### Proofs

The invariant ties each entry's channel, registry slot, claim and goroutine
together: an entry is listed, or owed an answer by exactly one claimer, or its
answer is in the channel, or it is over. `TypeCorrect`, `SendNeverBlocksHolds`,
`OnlyParkedListedHolds`, `ImplementsPromise` and `PromiseIsObeyed` follow, for any
number of exchanges, holds and callers.

## Event bus: `Bus`

### State and actions

| Variable | Code |
|---|---|
| `seq` | `Bus.seq` |
| `at`, `stamp`, `to` | each publisher: its place in `Publish` and `push`, its event, the subscribers left |
| `lock` | who holds each `Subscriber.mu` |
| `status`, `queue`, `dropped` | a subscriber's registration, channel and count |
| `last`, `told` | history: what a reader has received |

`Stamp`, `FanOut` and `Published` are `Publish`; `Filtered`, `Enter`, `Mark`,
`Try`, `Pop` and `Retry` are the statements of `push`, one `select` each, because
`Receive` takes from the channel without a lock and may come between them.

Abstractions. A writer of the bus's lock (`Subscribe`, `Close`) waits for every
fan-out, so it is one step; nothing is pushed to a subscriber that has been
unsubscribed, so closing its channel is the same step and the `closed` flag has
nothing left to do. An event is its sequence number and its exchange. A flow of a
WebSocket has two goroutines that publish (`websocket.go:130-139`): for it, each of them
is an exchange, and what is said of order is said of each.

### Properties and runs

* `bus`: `MadeRoom`, the second try of a push finds the room the first one made;
  `KeepsPromise`, a loss stays on record until a marker for it is in the queue,
  a marker that is dropped puts it back on record, and the events of one exchange
  arrive in order; `PublishEnds`, a publisher is never stalled.

Bounds: a queue of one is where marker and event compete for a place, a queue of
two has an event between them; four events are the least for a loss, a marker, a
lost marker and one more; two exchanges push to the same queue in the other order
than they were stamped.

Fairness: publishers run. Readers are not fair, on purpose.

### Proofs

The invariant says that whoever holds a subscriber's mutex is in the middle of a
push to it and to no other, that a push at its second try has room, and that an
event on its way to a reader is newer than everything of its exchange the reader
has or has had. `TypeCorrect`, `MadeRoomHolds` and `ImplementsPromise` follow.

## Rule engine: `RuleEngine`

### State and actions

| Variable | Code |
|---|---|
| `made`, `terms`, `on`, `hits`, `reaped` | every `compiledRule`: an id and the number of its edition, its immutable part and its atomics |
| `rules` | `Engine.rules`: the edition in force |
| `editing` | a handler holds `Engine.mu`, its edit made and not yet saved |
| `saver`, `image`, `waiting` | the holder of `saveMu`, what it is going to write, goroutines on their way to `save` |
| `reapers` | rules a goroutine has been sent to remove |
| `at`, `left`, `cur`, `seen` | each exchange: its place in `Request` or `Response`, the rules left, the one it fires, its `now` |
| `disk`, `failed` | `rules.json`, and whether the last write of it failed |
| `fired`, `inherited` | history: how often an edition has fired, and the hits it began with |

`Begin` to `End` are `Request` and `Response`: `Skip`, `Expire` and `Choose` are
`eligible` and the match, `Count`, `TakeBack` and `Disable` the atomic operations
of `fire`. `Add`, `Update` and `Remove` are the edits, `Reap` the goroutine of
`reap`, `Lock`, `Read` and `Write` the steps of `save`, whoever calls it; `Crash`
and `Stop` end the process and load the file in the next.

An edit never changes a `compiledRule`: it compiles a new one, and exchanges that
have begun go on with the old one. That is why counters, limits and expiry
belong to editions here, and only `rules` says which is in force.

Abstractions. The set compiled for the proxy is derived from `rules`, as both
change under the same mutex; every rule acts in every phase, and the order of
evaluation is left open. A rule's terms are its limit and its expiry. Whether a
rule matches, and the probability gate, are choices; actions matter only in that
one may end the phase. A handler's edit is one step, its save three. The image of
a save is read in one step, and what `Close` does, one more save and the exit, is
one. An edit that does not validate changes nothing. The clock may stand still.

### Properties and runs

* `rules`: `LimitKept`, no edition fires more often than its limit leaves it;
  `AckedIsDurable`, after a handler's answer the file has the rules there are, on
  their terms: a save of an older set never comes after it; `RestIsDurable`, when
  the goroutines are through as well it says which are on; `RulesStay`, a rule is
  taken away only by a handler, its own expiry, or a crash before its edit was
  saved, and not by a goroutine sent for an edition that has been renewed since.

Bounds: one rule with two editions is the least for an exchange that works with an
edition no longer in force; two exchanges race past a limit of
one; one tick lets a rule expire; one failed write or one restart
(`MaxTrouble` bounds the two together) reaches a file that is behind.

Fairness: none is assumed, all properties are of safety. The instance may stop,
as editions are bounded.

### Proofs

No property but `TypeOK` is close to inductive. `Inv` adds `Compiled`, nobody works
with an edition that is yet to be compiled, so an edit starts from a clean
counter; `Counted`, a counter is what its edition began with, what it has fired
and one for each exchange that has yet to take its hit back, which gives
`LimitKept` and keeps counters from falling below zero; `Timely`, goroutines are
sent only after what has expired; and `Saves`, whatever a save has read agrees
with every edit that has been answered, since an edit that came after the read
has its own save still to do. `TypeCorrect`, `LimitHolds`, `AckedHolds`, `RestHolds`
and `StayHolds` follow, for any rules, exchanges, limits, editions and faults.

## Flow store and `Tail`: `FlowStore`

### State and actions

| Variable | Code |
|---|---|
| `last` | `IDGen.last` |
| `at`, `of` | each flow's exchange: which call of the sink comes next; `Flow.Session` |
| `place`, `count` | `Mem`: where a flow is in the ring, counted from the oldest |
| `msgs`, `order` | `WSLog`: how many messages it keeps of a flow, and its place in the log's list |
| `owes` | flows that have left the ring and for which a goroutine has yet to call `OnEvict` |
| `sessions`, `current`, `begun` | `Sessions`, and the ids ever given out |
| `doing`, `target` | each control handler in `DeleteSession` or `Capture` |
| `tail`, `since`, `cursor` | each client: its call of `Tail`, the cursor it passed, the one it was given last |
| `late`, `given` | history: in flight when its session was deleted; how often a client got a flow |

`Started`, `Updated` and `Done` are the sink's calls up to the upsert, `Drop` the
callback that follows without the ring's lock, `Published` the end of `Done`. `Add`
and `Wipe` are the log's own operations. `Forget`, `DeleteFlows` and `Deleted` are
the steps of `DeleteSession`, `Clear` and `Wipe` those of `clear`. `Call` to
`LookAgain` are `Tail`: it looks, subscribes, waits for a flow, and looks again.

Abstractions. A ring is an order: `head`, the array and the index by id are the
places; an upsert in place changes nothing of it. A flow takes its id and its
session in one step. Messages are of one size, and only flows in `WebSockets` have
any. A deletion calls back in any order. The counters that are only displayed
(`total`, `dropped`), blobs and what a query filters are left out. The bus is a
signal to whoever has subscribed: events a poller may lose on a full queue cost it
a wait, not a flow, as it looks at the ring again. `Tail`'s filter lets everything
pass; a client that goes away is one that times out and never calls again. A
handshake failure is recorded complete by its first upsert already, here by its
second.

### Properties and runs

* `flows`: `RingInOrder`, every place of the ring is taken once and none too many;
  `LogFollowsRing`, messages belong to a flow that is listed or whose exchange goes
  on, or somebody is about to drop them; `LogBounded`, the log exceeds its budget by
  less than one flow's allowance; `GoneIsGone`, what is left of a deleted session
  was in flight then; `GivenOnce`, a client that follows its cursor never gets a flow
  twice, in whatever order flows begin, complete, leave the ring and come back.
* `flows_passed`: finding 9.

Bounds: a ring of two and three flows is the least for an eviction of an active
flow that comes back and evicts another; two flows that log are the least for a
budget that makes one forget the other; two sessions, one to delete and one that is
current. A poller changes nothing the others see: a behaviour of the run has either
a poller or messages and sessions (`polled`).

Fairness: none is assumed, all properties are of safety. The instances may stop.

### Proofs

`Inv` adds to `LogFollowsRing` that what has not begun has no place and that a
handler that is not calling back owes nothing, so that what it then comes to owe
hides nothing else (`Unbegun`, `Free`); it extends `GoneIsGone` from flows in the
ring to those that may still come to it (`Kept`); and it says that what a client
has been given is behind its cursor and its cursor behind what it asks for
(`Behind`). `TypeCorrect`, `FollowsHolds`, `GoneHolds` and `GivenOnceHolds` follow,
for any rings, logs, sessions, handlers and clients.

For `RingInOrderHolds` it says that the places in the ring are numbered from 1
without a gap, of which `RingInOrder` is the part that shows (`RingNumbered`). For
`LogBoundedHolds` it says the same of the log's own order (`LogNumbered`), and that
whatever has been logged since some flow was last logged to is below the budget
(`LogSlack`): a flow that is dropped is the one of the longest ago, so what is left
when the log is over its budget is that much and the flow that has just grown.

The sums are those of the community modules, which are folds. The induction
theorems of the library take an operator and cannot be used, so `Sums` proves
what it says of a fold by the smallest counterexample there would be, which
`WFMin` gives without one.

## Proxy server and tunnels: `Tunnel`

### State and actions

| Variable | Code |
|---|---|
| `at` | each connection's handler: where it is in `serveFront` and `handleConnect` |
| `client`, `origin` | both ends: open, no longer sending (a half-close), or gone |
| `copying` | the two goroutines of `splice` |
| `serving` | connections `net/http` or `http2` serves |
| `slots`, `active` | the places taken in `sem`; `ActiveConns` |
| `flow` | what the sink has heard of a tunnel that is not decrypted |
| `decrypts` | the policy, as one decision for all hosts |
| `server` | running, in `front.Shutdown`, after `mitm.Shutdown`, after `Close` |

`Connect` to `Return` are the ways in and out of a handler; `Return` is what it
has deferred. `Established` decides as the policy is at that moment; `Decrypted`
hands the connection over, `HTTP1Returns` and `HTTP2Returns` are the two calls
that then return, on different conditions. `CopyEnds` and `CopyFails` are the ends
of a copying goroutine, `Spliced` what follows both.

Abstractions. A connection is used for one request. The loop guard, a hijack that
fails, the local site and the extra listener are left out; what passes through a
decrypted tunnel, and holds, are `Breakpoint`'s. A failed handshake may be a
timeout. That the last bytes of a closed connection can still be read makes no
difference here. Bytes are not counted. `h2.Shutdown` and `h2.Close` do nothing, as
the connections of `ServeConn` are not that server's.

### Properties and runs

* `tunnel`: `PlacesAreHeld`, places and counts are those of the handlers that have
  not returned; `WholeSplice`, a splice is over only when neither side sends any
  more or one is gone; `TunnelEnds`, a tunnel whose client has gone ends, unless it
  is a splice whose origin stays silent, or served as HTTP/1.1; `StopCuts`, the stop
  leaves no HTTP/1.1 tunnel behind, whenever it was established.
* `tunnel_count`: finding 12.

Bounds: one place and three connections, so that one is refused while another has
the place, and a place given back is taken again; one of them asks for pano's own
site, which is decrypted whatever the policy says.

Fairness: handlers and copies go on, `net/http` notices a client that has gone, a
drain has a deadline. Clients and origins may stay and say nothing for ever, and
`Close` need not come.

### Proofs

`TypeOK` and `PlacesAreHeld` are inductive together: that a place can be given back
needs the count, that the count stays below the limit needs the guard. For
`WholeSplice`, `Copies` says why a direction is no longer copied, and
`EndsOnlyLeave` that the reason does not go away: who has stopped sending does not
send again. `TypeCorrect`, `PlacesHeld` and `WholeSpliceHolds` follow, for any
connections and any limit.

## Exchanges and their captures: `Capture`

### State and actions

| Variable | Code |
|---|---|
| `at`, `body` | each exchange's goroutine; whether there is more of its request to read |
| `off` | exchanges whose captures are off, as capturing was paused when they began |
| `size`, `kept`, `truncated`, `reserved` | the fields of each `capture`; `kept` is the length of `buf` |
| `write` | a `capture.Write` between `budget.take` and its end |
| `used` | `budget.used` |
| `ref` | `Flow.ReqBody` and `RespBody` |
| `late` | history: requests written to while, or after, they were stored |

`Begin` is `handleExchange` up to its hooks, `Responds` and `Copies` are
`writeResponse` and `copyStream`, `Finishes` every other way into
`finishInflight`. `SizesRequest`, `StoresRequest`, `Zeroes` and `StoresResponse`
are `storeBody` twice, by the statements another goroutine can come between;
`Deferred` is the deferred `release`. `Write`, `Denied` and `Keeps` are
`capture.Write` up to its request to the budget, and after it.

The request's body is read through a `teeReader` by whoever sends it. That is a
goroutine of the transport, which nobody waits for: `ReadsRequest` may come at any
time, also when the exchange is over. Captures have no lock, so a `Write` that
overlaps the store is a data race; `Keeps` leaves open which value of `reserved`
it adds to. `late` remembers the requests it has happened to.

Abstractions. Bytes are counted, not named. A budget of 0, which means no bound,
is left out. The stages up to the response, with hooks and holds, are one, as they
differ for captures only in who reads the request. The store of the response is
one step: only its own goroutine writes to that capture. The clone of the flow
that goes to the sink is made at `StoresResponse`.

### Properties and runs

* `capture`: `BudgetHolds`, the counter is what the captures hold and are asking
  for, and bodies not yet stored are within the limit, unless a request was written
  to too late; `RecordTruthful`, a flow that is done says that a body was cut just
  when less was kept than went through; `NoHole`, once a body is cut nothing more
  is kept of it, however much of the budget has become free.

Bounds: two exchanges with two bodies each, and a budget for less than two full
captures, so that a read is refused on account of another and the next one would
not be; a read is longer than the room one leaves. One size of read is enough: it
fits, it is too long, or there is no room.

Fairness: none is assumed, all properties are of safety. The instance stops when
its exchanges are over.

### Proofs

`Inv` adds to the types: a `Write` keeps what fits, and fills the capture if it was
too long (`Fits`); a capture that is on is marked as cut just when what it keeps,
with what is coming, is less than what went through (`Cuts`); nobody writes
before an exchange begins, and to its response only while it copies (`Quiet`); a
record is what the captures say unless the request was late (`Recorded`).
`TypeCorrect`, `RecordTruthfulHolds` and `NoHoleHolds` follow, for any exchanges,
limits and budget. `BudgetHoldsAlways` needs one more, `Accounts`: until a request is
late, what a capture has reserved is what it keeps, or nothing once it has been
stored or released; a `Write` under way has read that very number; and so the counter
is the sum of what all hold and ask for, and what has been granted is within the
budget. A step changes one term, or the counter and one term by as much (`Sums`).

## Windows and the life of the daemon: `Attach`

### State and actions

| Variable | Code |
|---|---|
| `phase`, `late` | `Daemon.run` and `shutdown`: up, in `ctl.Shutdown`, cutting, gone; the 8 s have run out |
| `owner`, `kept`, `why` | `lifecycle.owner`; a disown has been carried out; what stopped the daemon |
| `reg` | the daemon's end of each window's `hAttach` |
| `own`, `ui`, `said` | each window: `Options.Own`, how it ended, what `runUI` printed |
| `calls`, `answers` | `off` and `disown` on their way, and their answers |

`Open` to `Say` are the window, `Register` to `Refuse` the handlers, `Deadline`,
`CtlDown` and `End` the shutdown. The connection of an attachment and those of the
calls are different ones, so a window's end may be noticed before or after the
calls it sent. What the daemon does at the end of an owner is two steps: `Release`,
up to where the lock is given up with no owner on record, and `TurnOff`, after the
`networksetup` commands of `Off`; any call may be handled between them.

Abstractions. Time is kept only where the code waits: the deadline of the shutdown,
and `waitStopped`, which gives up on a daemon that has nothing left to do. A window
is opened once. What the proxy does while it is drained is `Tunnel`'s.

### Properties and runs

* `endings`, its part "windows" (two windows): `OwnerRule`, the daemon goes with its
  owner however the owner went, unless another has taken over or it was disowned,
  and once disowned it does not go with a window, unless that window's end was noticed
  before the disown (finding 31: the disown is answered with success all the same);
  `StopEnds`, a daemon that is told
  to go is gone in the end, and leaves no window on a dead screen.

Bounds: a second window is the least for an owner to be replaced, and for a viewer to
disown what another owns. The two are alike, so that of two the first is the one that
owns (`OwnerFirst`).

Fairness: handlers run, the shutdown goes on, its deadline runs out, and a window
notices that its stream was closed. Users do as they like.

### Proofs

`AttachTypeCorrect`, and `OwnerRuleHolds` for any windows. `OwnerRule` speaks of a
daemon at rest, with nothing under way. `OwnerInv` holds in between: whoever owns the
daemon is registered and asked to own it; while the daemon is up and nobody has
disowned it, it has an owner, or is about to be turned off, if the handler of any window
that asked to own it has begun; and once disowned in time it has none, is not about to
be turned off for one, and does not stop for one. `StopEnds` is liveness, and left to TLC.

## Terminal UI: `TuiList`, `TuiDetail`

`TuiList` has the daemon's ring, the flows that go on, in it or not, the events and
answers under way, and of the UI its table, filter, generation and pause. `Publish`,
`Start`, `Updated`, `Done`, `Answer` and `Clear` are the daemon: a flow under way whose
record a clear dropped is put in again, as the last one, with its next update or its end.
`Reload`, `SetFilter`, `Pause` and `PressClear` the keys, `Flows`, `Event` and
`Cleared` the messages of `Model.Update`. `TuiDetail` has the cursor, the open flow,
what each of its answers is of, and what the viewport shows; `Key` has the keys of
list, view and prompt, `Message` the answers.

* `terminal`, its parts "list" and "detail": `ScreenHolds`, no filter shows what its
  answer did not have; when nothing is under way the table has every flow of the ring
  whose last event the UI got and kept, also those that were under way at a clear; a body on screen is that of the flow in the head, or its
  answer is under way; a closed view is empty and stays so. `ClearedStaysAway`, an
  answer brings nothing back that the user has seen cleared, unless the daemon has
  recorded it again since.

Bounds: two flows, a table and a page of one row, one event under way, three loads;
two requests under way in the view, and of the list two requests and answers together
(`TwoAnswers`). The least for an answer that is late, for a row
that is pushed out, and for a filter set and left while an answer is under way.

Both modules also name properties one would expect and that TLC refutes
(`MatchesShow`, `SettledQuery`, ...); no run checks them, see the findings and the
observations behind them.

Proofs: `ScreenHoldsAlways` and `ClearedStaysAwayHolds`, for any flows, rows, queues
and tags. `ListInv`: the ring has nothing that was cleared and has not been recorded
since; an answer under way that will still count was asked for with the filter
there is now, of a ring without what has been cleared since; and each flow of the ring
is on screen or has fallen off the end of a full table, is told by an event that is on
its way, or is in `missed`: its event was lost or came while the list was paused, or its row
went with the answer to a clear.
`DetailInv`: with a flow open on its body and no answer for it on the way, the
answer held and the text on screen are of that flow; with none open nothing is held.
Of the types these say what the proofs need; `TypeOK` of the two is not a theorem.

## Certificate authority: `Authority`

| Variable | Code |
|---|---|
| `cert`, `key`, `leafKey`, `dir` | `ca.pem`, `ca.key`, `leaf.key` and `CacheDir` |
| `load` | how far the daemon, and a `pano ca` command, have come in `Load` or `ca reset` |
| `ca` | the daemon's `Authority` |
| `lru`, `flight`, `asking` | `a.lru` with its index, `a.sf`, handshakes between `cacheGet` and `sf.Do` |
| `now`, `made` | days; keys made so far |

Each operation on a file is a step, and `Quit` may end either process between any two,
or while it serves. `GetCertificate` is a handshake up to its first `cacheGet`, `Join`
its `sf.Do`, and `FlightCache` to `Land` are the statements of the flight.

Abstractions. A file is written whole or not at all. A root is the key it was made
with. The clock stands while a process loads or a flight is under way, as these take
milliseconds. A write that fails, but for that of a leaf, is a process that ends.

* `terminal`, its part "ca": `CertsHold`. What a handshake is given
  was signed by the root the daemon has, for the key it has and the host that was asked
  for, is fresh or as fresh as the root allows, and does not outlive it; a host with a
  fresh leaf in memory is not minted for again; the memory has one entry per host and
  is within its size.

Bounds: one host and two handshakes through four days and three keys, the least for a
root that lapses and is replaced while leafs of it are in the files (`OneHost`); or two
hosts, one of them an address, that share a memory of one entry, through two days and
with two keys (`Small`).

Proof: `CertsHoldAlways`, for any hosts, ages, days and keys, as long as a leaf is made
for longer than "fresh" asks for. `FilesInv` is about what a process may find in the
files, whoever wrote them: there is one number for each key ever made, the day on which
its root ends, and each root in a file or in a process has that day, each leaf is of a
key that was made and does not outlive its root. `ServingInv` is about the daemon: what
it has in memory is of the root and key it loaded, one entry per host, within the
size; and a flight that looks in the files or mints has no leaf of its host in memory
beside it, as it has just looked, only flights add one, and a host has one at a time.

## What is remembered: `Tables`, `Frames`, `Mobile`

| Variable | Code |
|---|---|
| `rejected`, `devices` | `rejectedRing.hosts`, `deviceTable.m` |
| `blobs`, `used` | `MemBlobs.lru`, the front first, and `used` |
| `refusals`, `touches`, `uses` | the calls of each, with the times at which they came |
| `frames`, `arrived` | what a WebSocket peer has sent, and how many bytes of it have come |
| `parsed`, `buf`, `msgOp`, `msg`, `msgLen` | `frameParser` |
| `sink` | what the parser has logged |
| `mobileLn`, `mobileLAN`, `mobileLast` | the same of `Daemon` |
| `listening`, `extra`, `selfIPs` | sockets that are open to the network; the same of `Server` |
| `orders` | the calls of `SetMobile`, each with the listener it found |

A call of a table, or of `SetMobile`, has the mutex from its first step to its last, and
is one action. `Reject`, `Forget` and `ListRejected` are `rejectedRing`'s, `touch` with
`Noted` is `deviceTable`'s, `PutBlob`, `GetBlob` and `ClearBlobs` are `MemBlobs`', and
`TurnOff` and `TurnOn` are `SetMobile`. In `Frames`, `Send` is the peer, which keeps to
RFC 6455 and may put control frames between the frames of a message, `Write` is what
the connection delivers, of any length, and `parseOne` is one round of the parser's loop.

* `terminal`, its parts "rejected", "devices", "blobs", "frames" and "mobile":
  `MemoryTrue` compares what is held with what the calls alone say should be left. A
  host is listed with the refusals it had, each soon after the one before, since it was
  last lost; one that refused and is not listed is too old, was forgotten, or as many
  others as there is room for have refused since. The devices are those seen last,
  each with what it did since it was let in. The bodies are those used last, within the
  budget or one alone, one that is gone did not fit with those used since, and the
  counter is their size. Each WebSocket message that has wholly arrived is logged once,
  in order, cut at the limit and with its true length, and nothing that is whole stays
  in the buffer. The proxy is open to the network at the address it shows or nowhere,
  takes that address for itself and none of those before it, tells where it was after
  `off`, and warns just when its interface is not as it was.

Bounds: four calls of a table with two places, of three hosts (one a subdomain of
another), three devices, or four bodies (one above the budget); three frames, the least
for a control frame within a message, in pieces of one or four bytes; three calls of
`SetMobile` on a machine with a Wi-Fi that changes its address and a cable. In four
calls an entry is pushed out, comes back and is counted anew. The time between two calls
is one or three, with a window of two for the hosts; of the times of devices only the
order counts (`Evenly`).

Abstractions. Calls have distinct times, so that no two entries are equally stale; a
host pattern is a bare domain; a device's name, a message's mask and what the listener
admits are left out; and the address given with `--ip` is one of an interface, not
`0.0.0.0`, which stands for all of them (`mobile.go:71-75`).

### Proofs

`MemoryIsTrue`, for any hosts, patterns, clients, bodies, payloads, header sizes,
pieces, interfaces, addresses, limits and numbers of calls. It assumes that the limits
are numbers, that of places there is at least one (`rejectedLimit` and `maxDevices` are
constants of the code), that time passes between calls, that a payload is a sequence of
its own bytes (`FramesAssumption`), and that no address is the value for none
(`MobileAssumption`).

The five parts share nothing, so `MemoryInv` is a conjunction of five invariants and
each action has its part to keep (`MemoryKeeps`). For the tables the property is
inductive once types and the order of the calls are added. The step is in what a call
does to the entries it does not touch: `LostStays`, a host that has been lost once stays
so whatever is called later, as a crowd only grows; `LostByNow`, one that is not listed,
or whose refusals are too old by the next call, has been lost by then; `GoneStays`, a
body that did not fit does not fit later; `RoomIsMade`, the device that makes room is
the one seen before all others in the table. That `PutBlob` drops the fewest (`KeptIs`) and that the counter is the sum
of what is left (`TotalIs`) rest on `Sums`.

The property of `Frames` is not inductive: it says nothing of a message that is under
way. `FramesInv` adds what each frame is of: a continuation goes on from the last data
frame before it, which was not the end of its message (`GoesOn`), and the parser has, of
the message its last data frame belongs to, as many bytes as were sent with it, cut once
at the limit (`HasRead`). `CutOnce` is why that is enough: cutting what has come, and
again with what comes, is cutting the whole.

`MobileInv` adds that `selfIPs` has just the ports of what is open and that the LAN on
record is that of the listener. That it warns rightly is then a consequence.

## What is made of a flow

Functions, translated as operators and compared, for all of a small set of inputs,
with what they should yield, said in another way. `MCInspect` makes a state of each
input; the property of a run says what holds of it.

* `Explain` reassembles and tells the streams of the four APIs. In `LlmStream` a server
  sends an answer whole or event by event, interleaved, spoilt, or cut off anywhere.
  `SameDigest`: streamed or not, it is told the same. `DigestHonest`: a loss is told,
  and nothing is told that was not sent.
* `LlmDigest` has the rest of the package; `LlmDigestIsTrue`: a digest has what was
  asked for, within its size, but for the beginning of a tool input that a stream did not
  finish, which is quoted in an error (finding 32); a stream cut anywhere loses no event before the cut; one
  conversation is summarised the same by all APIs; a documented call is recognised.
* `Diff`, `View` and `Summary` are package view; `ViewIsTrue`: a diff, applied, turns one
  side into the other; cuts are between runes and leave out what they say; a schema
  admits its body; decoding yields what was encoded, or a prefix with an error; what is
  rendered is whole or said not to be, with every secret that stands whole in it masked
  on either side of a cut; of a secret header no more is shown than a mask keeps of it,
  whatever its form, and its scheme, its cookies' names and attributes are left; masking
  twice is masking once, a masked value hides at least as much as it shows; a summary
  counts what it leaves out, and under a sensitive key of its object it shows a mask or a
  size. What the code takes for masked already, what a cut has left of a secret, and
  sensitive keys deeper in a summary are findings 33 to 35.
* `Rules` is package rules without the life of a rule; `RulesMean`: what compiles can
  act in its phase; globs; a patch sets its paths and touches nothing else, but that a
  number which no float64 has becomes one next to it (finding 36); rules act in their
  order up to the one that ends it, those of a response just where they match the request
  as it was sent, whatever others have done; and the exchange is well framed after all.
* `Query`, `Har`; `RecordIsTrue`: pages put together are the whole list; a search looks
  at the head of the text; short ids are read back; an exported flow is imported as the
  same exchange, again and again; and what is masked in its headers and texts stays
  masked. The conditions are the code's: an address survives if it is of http or https
  and reads as it is written, and one that cannot be read is kept to the letter
  (findings 37, 38); times are rounded, phase by phase (finding 20); the encoding of a
  body is looked up by its bytes, so a response that shares them with its request must
  share its encoding (finding 30); a masked text has another size, so it is not looked at
  when a file is passed on again; and nothing is masked in addresses, queries and errors
  (finding 39).

### Proofs

What `RecordIsTrue` says of a flow that is exported and imported is proved in
`FlowStoreProofs` for any flow and any options of an export. `TimesSurvive`: phases that
were measured in order are the differences of the moments in that order, each rounded to
the nearest microsecond and cut off by less than one when it is read, so that their sums
are off by no more than that for each (`OrderedPairs`). `ExchangeSurvives` is
`RoundTripTrue`: the bytes of a body are found with its own encoding (`EncodingFound`)
and read back as they were, inline or as base64 (`BodyReadBack`), and so are the headers
(`HeadersReadBack`) and an address that reads as it is written (`AddressReadBack`), while
one that cannot be read is kept to the letter. `ExportIsStable` is `StableTrue`: the flow
an entry is imported as is written out (`StoredIs`, `RequestIs`, `ResponseIs`), its bodies
have no encoding any more and are exported as their bytes (`TextStays`), its media types
were chosen and are chosen again (`FirstTwice`), its address was escaped and is not
escaped again (`AddressStays`), and its phases are whole microseconds that sum up to
themselves (`TimesStay`). They assume of a flow what the recorder makes sure of (`Flow`: a
body of which something was captured is not empty, its scheme is the one of its request,
its clock is not near the zero time), that nil is no value (`NothingIsNil`), and that a
product of floats that is cut off is the number or one less, and zero is zero
(`ShortGiven`). That masking stays (`MaskedTrue`) is left to TLC.

Abstractions are named at the head of each module. The inputs are as small as the
branches of the code allow: limits of one to four where the code has thousands, texts
of up to three runes of up to three bytes, documents of depth two or three.

Fairness: none, nothing but the stream and the parts above has steps.

## Findings

1. `sysproxy_overlap`: `sysproxy.json` is not the single source of truth when two
   processes work at once: a starting daemon restores before it finds the ports
   taken (`daemon.go:192-200`), and a watchdog does not ask whether a new daemon
   runs.
2. Read, not run: `pano off` with the daemon dead does not restore: it runs
   the watchdog for pid 0, which `WaitExit` refuses.
3. Read, not run: a proxy that was filled in but switched off keeps pano's
   address (`darwin.go:316, 323`).
4. Read, not run: stopping the daemon drops what is held inside an HTTP/1.1
   tunnel instead of releasing it (`daemon.go:269-273`).
5. Read, not run: with a loss on record a full queue drops the new event, not the
   oldest (`bus.go:86-89`).
6. Read, not run: the marker of lost events comes behind the kept ones and only
   with the next publish (`bus.go:18-19, 84`).
7. Read, not run: an attached UI uses up the whole deadline of the shutdown, so
   the drain has none left (`daemon.go:265-269`, `control/server.go:672-698`).
8. Read, not run: an update between a rule's last hit and its switching off leaves
   a rule that is on, never fires and never disables itself
   (`rules/engine.go:245-248`), although `docs/rules.md:216` says it will be `off`.
   Lowering `max_hits` under the counter does the same, and so does a crash
   between the two: the file may have the rule on with its counter full.

9. `flows_passed`: a call of `Tail` that times out on a daemon that had no flows
   yet returns a cursor beyond flows that began and completed meanwhile
   (`backend.go:646-648`); with a cursor above 0, a flow that completes after one
   with a higher id is passed over (`backend.go:600-602, 640-645`).
10. Read, not run: an exchange in flight when its session is deleted records its
    flow again, under a session that no longer exists (`backend.go:112-123`).
11. Read, not run: `Total` counts a flow again when it comes back to the ring
    (`mem.go:54, 83`), and `Newest` is the flow inserted last, not the highest id
    (`mem.go:164-169`).

12. `tunnel_count`: the handler of a decrypted HTTP/1.1 tunnel returns only when the
    server stops, because its listener waits for a close that does not come
    (`conn.go:43-51`): `ActiveConns` and the semaphore count tunnels that are over,
    and after `max_conns` of them every CONNECT is refused.
13. Read, not run: `Close` does not cut hijacked tunnels (`server.go:255-269`):
    splices and HTTP/2 tunnels end with the process.

14. Read, not run: a transport that still reads a request while its capture is
    stored or released races with it; a reservation is lost or returned twice, and
    the budget is wrong from then on (`capture.go:66, 77-78`, `handler.go:268-271`).
15. Read, not run: an origin's status below 100 makes `WriteHeader` panic
    (`handler.go:199`); the budget is returned but the flow is never done, although
    `server.go:28` says "Done is called once".

16. Read, not run: Gemini's answer is told as whole without the end of one candidate or
    with a spoilt chunk (`gemini.go:41-43, 98-100`), and of an array that was cut off
    nothing is told (`gemini.go:20-23`). `LossIsTold` exempts the first.
17. Read, not run: a text whose search cap falls behind the second or third byte of a
    rune counts as binary (`store/filter.go:160-164`).
18. Read, not run: a page's cursor goes by id and its order by insertion; where the two
    differ, a flow is on no page (`store/row.go:169-171`).
19. Read, not run: a rule with a status and an action of the request's side is refused
    instead of being made a response rule (`rules/compile.go:257-268`); a `fail_rate` of
    0 fails every request (`rules/presets.go:62`); a patch that appends eleven elements
    fails (`rules/body.go:203-209`).
20. Read, and stated by `RoundTripTrue`: times are rounded in a HAR round trip, and an
    answer that begins before its request has ended loses its time to first byte
    (`har/export.go:22, 248, 259-263`).
21. Refuted by TLC outside of the runs (`TuiList!MatchesShow`): a flow older than the
    filter that comes to match it is not shown (`tui/model.go:797-801`).
22. Refuted by TLC outside of the runs (`Attach!SaysTrue`): a viewer's disown keeps the
    daemon up while the owner's window prints "pano is off" (`daemon/lifecycle.go:56-60`).
23. Refuted by TLC outside of the runs (`Attach!ExitsPromptly`): attachments end with
    their windows, not with the daemon, so a stop waits for its deadline
    (`control/server.go:689-698`); see 7.
24. Read, and seen with TLC: a process that ends between the two files of a root, or two
    that create one at once, leave a pair that `Load` refuses until `pano ca reset`
    (`ca/authority.go:357-362, 369-373, 435-440, 498`).
25. Read, not run: a running daemon neither replaces a root that has lapsed
    (`ca/authority.go:351`) nor drops one that was reset (`cli/ca.go:108-114`).
26. Read, not run: host names that differ in `/`, `:`, `\`, `*` or `_` share a file, and
    `diskGet` does not look at the host (`ca/authority.go:299, 316-326`).
27. Read, not run: an incomplete frame is buffered whole, however large, although a
    comment says otherwise (`proxy/websocket.go:224-229`).
28. Refuted by TLC outside of the runs (`Mobile!LastIsTold`): where the listener was is not
    told once it has moved, or could not be opened again (`daemon/mobile.go:89-96`),
    although a device may still point there (`api/types.go:437`).
29. Read, not run: `pano mobile off` reads the status before it stops the daemon, and stops
    it for a `pano on` that came in between (`cli/mobile.go:106-110`, docs/cli.md:541).
30. Refuted by TLC outside of the runs (`Har!RoundTripTrue` without its condition
    `alike`): an export looks the encoding of a body up by its stored bytes, in the first
    flow that has them, and so may decode a body with the encoding of another one
    (`daemon/backend.go:896-906`, `backend.go:835`).

31. Refuted by TLC outside of the runs (`Attach!DisownInTime`): a disown that comes
    between the noticing of an owner's end and the stop is answered with success, and the
    daemon stops for that owner (`daemon/lifecycle.go:42-52`).
32. Read, and stated by `DigestTrue`: up to 120 runes of a tool input that a stream did
    not finish are quoted among the errors, which show by default
    (`explain/anthropic.go:126`).
33. Read, and stated by `HeadersTrue`: a value that has an ellipsis or `hash:` anywhere
    in it is taken for masked, and a header with such a value shown as it is
    (`view/redact.go:143-145, 266-268`).
34. Read, and stated by `RenderTrue`: a body is cut before it is looked through for
    secrets, so one that a cut leaves a part of may not be recognised
    (`view/render.go:128-139`).
35. Read, and stated by `SummaryTrue`: the sensitive keys in a notable container, or in
    the elements of an array at the top, are not looked at, only the shapes of their
    values (`view/summary.go:278-281, 304-311`).
36. Read, and stated by `PatchTrue`: a JSON patch rewrites whole numbers beyond 2^53
    anywhere in the body, as they pass through a float64 (`rules/body.go:198-202`).
37. Read, and stated by `RoundTripTrue`: an address is written decoded and so read back
    as another one, or not at all (`har/import.go:131-154`, `proxy/handler.go:251`).
38. Read, and stated by `RoundTripTrue`: an address has a port only for http and https
    (`flow/flow.go:157-162`).
39. Read, and stated by `MaskedTrue`: redaction leaves the address, the query and the
    error of a HAR entry as they are (`har/export.go:95-99, 156`).

Observations that contradict no text: hits counted on an old edition after an update has
copied the counter are lost to the new one (`rules/engine.go:245-248`); the frame parser
resumes after a corrupt frame (`proxy/websocket.go:210-213`) and drops the mark of a cut
message (`websocket.go:284`); `keepCursorOn` has no effect, so an arrival changes which
flow is selected (`tui/model.go:750`); the answer to a diff is applied whatever is open
(`model.go:324`), and one to a query whatever part of the same flow was asked for
(`model.go:297`); an answer to a reload overwrites rows that events made newer; events
that come while the list is paused are lost to it, and so are those that `EvDropped`
stands for; the answer to a clear takes away rows that came after it
(`model.go:208`); `hAttach` flushes its header before it registers
(`control/server.go:678-680`); a disown succeeds while the daemon stops; `WriteAtomic`
has one name for its temporary file (`config/config.go:322`).

## What is not modelled

The parts listed `not_modelled` in `PROJECT.json`, with the reason: conversions,
rendering and command-line parsing keep no state; external programs (`networksetup`,
`security`, `xcrun`) appear only as the commands the system proxy runs; the MCP
server and the control client carry calls to handlers that are
modelled. Of a part that is `partly` modelled, its note says what is left out.

## What is only model-checked

Liveness (`WatchdogRecovers`, `StopEnds`, `HoldEnds`, `Stops`, `PublishEnds`,
`TunnelEnds`, `StopCuts`): fairness is out of the prover's reach. `SameDigest`,
`DigestHonest`, `LlmDigestIsTrue`, `ViewIsTrue`, `RulesMean` and, but for its part about
HAR files, `RecordIsTrue`, which
are about functions of texts and documents of any length (so is `MaskedTrue`, the rest
of what is said of HAR files): that is induction over data, and several of their modules declare recursive operators, which no module with a theorem
may use. Every other property of a run is stated by a theorem. `TypeOK` of a component with a proof module is proved
(`TypeCorrect`) and left out of the runs; of those of `TuiList` and `TuiDetail` only
what `ListInv` and `DetailInv` say is.
