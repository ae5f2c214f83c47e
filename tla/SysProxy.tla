------------------------------ MODULE SysProxy ------------------------------
(***************************************************************************)
(* The macOS system-proxy manager (internal/sysproxy), the daemon start    *)
(* and shutdown around it (internal/daemon) and the crash-restore watchdog *)
(* (internal/watchdog).                                                    *)
(*                                                                         *)
(* networksetup settings and the state file sysproxy.json are shared by    *)
(* every pano process; the mutex of a manager is not, it only serialises   *)
(* the calls of one process.  Each networksetup command is one step, and a *)
(* process may die between any two.                                        *)
(***************************************************************************)
EXTENDS Integers, FiniteSets

CONSTANTS
  Service,      \* network services networksetup knows by name
  Host, Pano,   \* proxies a user may have set, and pano's own address
  NoHost,       \* an empty "Server:" field
  Url, NoUrl,   \* PAC files, and "(null)"
  Domain,       \* bypass domains
  Default,      \* DefaultBypass, \subseteq Domain
  Choice,       \* the settings a user makes, none of them pano's
  Lives,        \* daemon processes started one after the other: 1..Lives
  MaxFaults,    \* bound on failing commands, writes, spawns and killed watchdogs
  MaxEdits,     \* bound on what the user does outside pano's clients
  MaxWaiting,   \* bound on the handlers waiting for the mutex of one daemon
  Overlap,      \* may two processes drive networksetup at the same time?
  NoFile        \* sysproxy.json does not exist

Slot == [on : BOOLEAN, at : Host \cup {Pano, NoHost}]

Setting == [web : Slot, secure : Slot, bypass : SUBSET Domain,
            url : Url \cup {NoUrl}, pac : BOOLEAN, wpad : BOOLEAN]

\* A web or secure proxy of the service sends traffic to pano.
Pointing(v) == \/ v.web.on    /\ v.web.at = Pano
               \/ v.secure.on /\ v.secure.at = Pano

ASSUME ConstantsAssumption ==
  /\ Lives \in Nat /\ MaxFaults \in Nat /\ MaxEdits \in Nat
  /\ MaxWaiting \in Nat
  /\ Overlap \in BOOLEAN
  /\ Default \subseteq Domain
  /\ Pano \notin Host \cup {NoHost}
  /\ \A c \in Choice : c \in Setting /\ ~Pointing(c)

\* What a setting makes macOS do: a proxy that is off has no address, a PAC
\* that is off or has no URL is none.
Look == [web : Host \cup {Pano, NoHost}, secure : Host \cup {Pano, NoHost},
         bypass : SUBSET Domain, pac : Url \cup {NoUrl}, wpad : BOOLEAN]

Effective(v) ==
  [web    |-> IF v.web.on THEN v.web.at ELSE NoHost,
   secure |-> IF v.secure.on THEN v.secure.at ELSE NoHost,
   bypass |-> v.bypass,
   pac    |-> IF v.pac THEN v.url ELSE NoUrl,
   wpad   |-> v.wpad]

\* NoFile is not a snapshot, nor what one would look like.
ASSUME NoFileAssumption ==
  \A S \in SUBSET Service : NoFile \notin [S -> Setting] /\ NoFile \notin [S -> Look]

Life  == 1..Lives
Role  == {"daemon", "watchdog"}
Actor == Role \X Life

\* The state file: what each captured service looked like; never empty.
IsSnapshot(f) == /\ DOMAIN f \subseteq Service /\ DOMAIN f # {}
                 /\ f \in [DOMAIN f -> Setting]

Phase == {"none", "boot", "listen", "up", "stopping", "drain", "dead"}
Kind  == {"enable", "stale", "off", "quit", "exit", "watchdog"}

\* A call holding its manager's mutex.  snap: the state file as it read or
\* wrote it; todo: services not finished yet; step: the next command for the
\* current one; svcBad, bad: svcErrs, errs.
IsJob(j) ==
  /\ IsSnapshot(j.snap)
  /\ j \in [kind : Kind, snap : {j.snap}, todo : SUBSET DOMAIN j.snap,
            step : 1..6, svcBad : BOOLEAN, bad : BOOLEAN]
Idle == [kind |-> "idle"]

VARIABLES
  live,     \* networksetup's settings of every service
  present,  \* the services that exist and are enabled
  file,     \* sysproxy.json
  phase,    \* life of each daemon process
  req,      \* handlers waiting in each daemon: "on", "off", "quit", "spawn"
  wd,       \* the watchdog each daemon has spawned
  job,      \* what each process is doing to networksetup
  faults, edits  \* spent so far

vars == <<live, present, file, phase, req, wd, job, faults, edits>>
env == <<present, edits>>

TypeOK ==
  /\ live \in [Service -> Setting]
  /\ present \subseteq Service
  /\ file # NoFile => IsSnapshot(file)
  /\ phase \in [Life -> Phase]
  /\ req \in [Life -> SUBSET {"on", "off", "quit", "spawn"}]
  /\ wd \in [Life -> {"none", "waiting", "restoring", "done"}]
  /\ job = [a \in Actor |-> job[a]] /\ \A a \in Actor : job[a] = Idle \/ IsJob(job[a])
  /\ faults \in 0..MaxFaults
  /\ edits \in 0..MaxEdits

Init ==
  /\ live \in [Service -> Choice]
  /\ present \in SUBSET Service   \* a service may be switched off
  /\ file = NoFile
  /\ phase = [d \in Life |-> "none"]
  /\ req = [d \in Life |-> {}]
  /\ wd = [d \in Life |-> "none"]
  /\ job = [a \in Actor |-> Idle]
  /\ faults = 0 /\ edits = 0

-----------------------------------------------------------------------------
(* Commands.                                                               *)

\* Enable's n-th command on a service that looked like was when captured.
Enabled(v, was, n) ==
  CASE n = 1 -> [v EXCEPT !.web = [on |-> TRUE, at |-> Pano]]
    [] n = 2 -> [v EXCEPT !.secure = [on |-> TRUE, at |-> Pano]]
    [] n = 3 -> [v EXCEPT !.bypass = was.bypass \cup Default]
    [] n = 4 -> [v EXCEPT !.pac = FALSE]
    [] OTHER -> [v EXCEPT !.wpad = FALSE]

\* Mutant: the on/off state is put back, the server is not.
BackStateOnly(slot, was) == [slot EXCEPT !.on = was.on]

\* A proxy that was off is only switched off: its server is not written.
Back(slot, was) == IF was.on THEN was ELSE [slot EXCEPT !.on = FALSE]

\* Mutant: the values of the last two state commands swapped.
PacStateSwapped(was) == was.wpad
PacState(was) == was.pac /\ was.url # NoUrl

\* restoreCommands(was); n = 4, -setautoproxyurl, also switches PAC on.
Restored(v, was, n) ==
  CASE n = 1 -> [v EXCEPT !.web = Back(@, was.web)]
    [] n = 2 -> [v EXCEPT !.secure = Back(@, was.secure)]
    [] n = 3 -> [v EXCEPT !.bypass = was.bypass]
    [] n = 4 -> IF was.url = NoUrl THEN v
                ELSE [v EXCEPT !.url = was.url, !.pac = TRUE]
    [] n = 5 -> [v EXCEPT !.pac = PacState(was)]
    [] OTHER -> [v EXCEPT !.wpad = was.wpad]

Fault == faults < MaxFaults /\ faults' = faults + 1

\* The call may take its manager's mutex.
Free(a) == /\ job[a] = Idle
           /\ Overlap \/ \A b \in Actor : job[b] = Idle

Quiet == \A a \in Actor : job[a] = Idle

\* Mutant: works through the services there are, not those in the file.
BegunAll(kind, snap) ==
  [kind |-> kind, snap |-> snap, todo |-> Service,
   step |-> 1, svcBad |-> FALSE, bad |-> FALSE]
Begun(kind, snap) ==
  [kind |-> kind, snap |-> snap, todo |-> DOMAIN snap,
   step |-> 1, svcBad |-> FALSE, bad |-> FALSE]

\* Services are worked through one at a time, in a fixed order.
Cur(a) == CHOOSE s \in job[a].todo : TRUE

Working(a, kinds) == job[a].kind \in kinds /\ job[a].todo # {}
AllDone(a, kinds) == job[a].kind \in kinds /\ job[a].todo = {}

NextCommand(j, failed) == [j EXCEPT !.step = @ + 1, !.svcBad = @ \/ failed]

\* Mutant: only the last service's outcome is kept.
NextServiceForgets(j, s, bad) ==
  [j EXCEPT !.todo = @ \ {s}, !.step = 1, !.svcBad = FALSE, !.bad = bad]
NextService(j, s, bad) ==
  [j EXCEPT !.todo = @ \ {s}, !.step = 1, !.svcBad = FALSE, !.bad = @ \/ bad]

\* isMissingService: the rest of the service is skipped, its failures with it.
\* Mutant: a service that is gone is a failure like any other.
SkippedAsFailure(j, s) == NextService(j, s, TRUE)
Skipped(j, s) == NextService(j, s, FALSE)

-----------------------------------------------------------------------------
(* Enable: a handler of POST /v1/sysproxy {enabled: true}.                 *)

Daemon(d) == <<"daemon", d>>

\* Handlers run until the process ends: Shutdown does not cancel them.
Handling(d) == phase[d] \in {"up", "stopping", "drain"}

\* An existing snapshot is kept.
\* Mutant: every Enable captures afresh.
CapturesAgain == [s \in present |-> live[s]]
Captured == IF file # NoFile THEN file ELSE [s \in present |-> live[s]]

\* The file is on disk before the first command.  Capturing fails when no
\* service is there or a query fails.
BeginEnable(d) ==
  /\ "on" \in req[d] /\ Handling(d) /\ Free(Daemon(d))
  /\ req' = [req EXCEPT ![d] = @ \ {"on"}]
  /\ \/ /\ file # NoFile \/ present # {}
        /\ file' = Captured
        /\ job' = [job EXCEPT ![Daemon(d)] = Begun("enable", Captured)]
        /\ UNCHANGED faults
     \/ /\ file = NoFile /\ present = {}
        /\ UNCHANGED <<file, job, faults>>
     \/ Fault /\ UNCHANGED <<file, job>>
  /\ UNCHANGED <<live, phase, wd, env>>

\* A command that fails may have taken effect; the first failure ends the
\* work on that service and Enable goes on with the next one.
EnableCommand(a) ==
  LET j  == job[a]
      s  == Cur(a)
      to == Enabled(live[s], j.snap[s], j.step)
  IN
  /\ Working(a, {"enable"})
  /\ \/ /\ s \in present
        /\ live' = [live EXCEPT ![s] = to]
        /\ job' = [job EXCEPT ![a] = IF j.step < 5 THEN NextCommand(j, FALSE)
                                     ELSE NextService(j, s, FALSE)]
        /\ UNCHANGED faults
     \/ /\ s \in present /\ Fault
        /\ live' \in {live, [live EXCEPT ![s] = to]}
        /\ job' = [job EXCEPT ![a] = NextService(j, s, TRUE)]
     \/ /\ s \notin present
        /\ job' = [job EXCEPT ![a] = NextService(j, s, TRUE)]
        /\ UNCHANGED <<live, faults>>
  /\ UNCHANGED <<file, phase, req, wd, env>>

\* Only a complete Enable goes on to spawn the watchdog, after the mutex is
\* released.  A fault here is the second write of the file, which records
\* that administrator privileges were needed.
EndEnable(d) ==
  LET j == job[Daemon(d)] IN
  /\ AllDone(Daemon(d), {"enable"})
  /\ job' = [job EXCEPT ![Daemon(d)] = Idle]
  /\ \/ /\ req' = [req EXCEPT ![d] = IF j.bad THEN @ ELSE @ \cup {"spawn"}]
        /\ UNCHANGED faults
     \/ Fault /\ UNCHANGED req
  /\ UNCHANGED <<live, file, phase, wd, env>>

\* Once per daemon; a failed spawn is only logged.
SpawnWatchdog(d) ==
  /\ "spawn" \in req[d] /\ Handling(d)
  /\ req' = [req EXCEPT ![d] = @ \ {"spawn"}]
  /\ \/ /\ wd' = [wd EXCEPT ![d] = IF @ = "none" THEN "waiting" ELSE @]
        /\ UNCHANGED faults
     \/ wd[d] = "none" /\ Fault /\ UNCHANGED wd
  /\ UNCHANGED <<live, file, phase, job, env>>

-----------------------------------------------------------------------------
(* restoreLocked, behind Disable and RestoreStale.                         *)

\* What the caller does when it is over, whether or not it reports an error.
\* RestoreOnExit is a setting of the daemon, so a daemon told to stop goes on
\* to restore or straight to draining.
Return(a, kind) ==
  LET d == a[2] IN
  /\ phase' \in CASE kind = "stale" -> {[phase EXCEPT ![d] = "listen"]}
                  [] kind = "exit"  -> {[phase EXCEPT ![d] = "drain"]}
                  [] kind = "quit" /\ phase[d] = "up"
                       -> {[phase EXCEPT ![d] = p] : p \in {"stopping", "drain"}}
                  [] OTHER -> {phase}
  /\ wd' = IF kind = "watchdog" THEN [wd EXCEPT ![d] = "done"] ELSE wd

\* Read the state file: with none there is nothing to do.
BeginRestore(a, kind) ==
  /\ Free(a)
  /\ \/ /\ file # NoFile
        /\ job' = [job EXCEPT ![a] = Begun(kind, file)]
        /\ phase' = IF kind = "stale" THEN [phase EXCEPT ![a[2]] = "boot"] ELSE phase
        /\ wd' = IF kind = "watchdog" THEN [wd EXCEPT ![a[2]] = "restoring"] ELSE wd
        /\ UNCHANGED faults
     \/ /\ file = NoFile
        /\ Return(a, kind)
        /\ UNCHANGED <<job, faults>>
     \/ /\ file # NoFile /\ Fault
        /\ Return(a, kind)
        /\ UNCHANGED job

Restoring == Kind \ {"enable"}

\* A failed command is noted and the next one tried; a service networksetup
\* does not know is skipped and its failures forgotten.
RestoreCommand(a) ==
  LET j    == job[a]
      s    == Cur(a)
      to   == Restored(live[s], j.snap[s], j.step)
      mute == j.step = 4 /\ j.snap[s].url = NoUrl   \* no command to run
      Goes(failed) == IF j.step < 6
                      THEN NextCommand(j, failed)
                      ELSE NextService(j, s, j.svcBad \/ failed)
  IN
  /\ Working(a, Restoring)
  /\ \/ /\ s \in present
        /\ live' = [live EXCEPT ![s] = to]
        /\ job' = [job EXCEPT ![a] = Goes(FALSE)]
        /\ UNCHANGED faults
     \/ /\ s \in present /\ ~mute /\ Fault
        /\ live' \in {live, [live EXCEPT ![s] = to]}
        /\ job' = [job EXCEPT ![a] = Goes(TRUE)]
     \/ /\ s \notin present
        /\ job' = [job EXCEPT ![a] = Skipped(j, s)]
        /\ UNCHANGED <<live, faults>>
  /\ UNCHANGED <<file, phase, req, wd, env>>

\* The state file is deleted only if every command succeeded.
EndRestore(a) ==
  LET j == job[a] IN
  /\ AllDone(a, Restoring)
  /\ job' = [job EXCEPT ![a] = Idle]
  /\ \/ /\ file' = IF j.bad THEN file ELSE NoFile
        /\ UNCHANGED faults
     \/ ~j.bad /\ Fault /\ UNCHANGED file
  /\ Return(a, j.kind)
  /\ UNCHANGED <<live, req, env>>

-----------------------------------------------------------------------------
(* The daemon.                                                             *)

\* `pano on` and `pano start` launch a daemon; it first cleans up after a
\* crashed one.
Start(d) ==
  /\ phase[d] = "none" /\ \A e \in 1..(d - 1) : phase[e] # "none"
  /\ BeginRestore(Daemon(d), "stale")
  /\ UNCHANGED <<live, file, req, env>>

\* Then it binds the proxy port and the control socket; another daemon that
\* holds them makes it exit.  A draining one is about to let go.
Listen(d) ==
  LET Held(phases) == \E e \in Life \ {d} : phase[e] \in phases IN
  /\ phase[d] = "listen"
  /\ \/ ~Held({"up", "stopping"}) /\ phase' = [phase EXCEPT ![d] = "up"]
     \/ Held({"up", "stopping", "drain"}) /\ phase' = [phase EXCEPT ![d] = "dead"]
  /\ UNCHANGED <<live, file, req, wd, job, faults, env>>

\* A client calls: system proxy on or off, or off-and-stop.  The control
\* socket is still open while the exit restore runs.
Request(d, r) ==
  /\ phase[d] \in {"up", "stopping"} /\ Cardinality(req[d]) < MaxWaiting
  /\ req' = [req EXCEPT ![d] = @ \cup {r}]
  /\ UNCHANGED <<live, file, phase, wd, job, faults, env>>

\* SetSysProxy(enabled: false), and Off: Disable, then stop whatever it said.
Disable(d, r) ==
  /\ r \in req[d] /\ Handling(d)
  /\ BeginRestore(Daemon(d), r)
  /\ req' = [req EXCEPT ![d] = @ \ {r}]
  /\ UNCHANGED <<live, file, env>>

\* SIGTERM, `pano stop` or a failed listener cancels the daemon's context.
Stop(d) ==
  /\ phase[d] = "up"
  /\ phase' \in {[phase EXCEPT ![d] = p] : p \in {"stopping", "drain"}}
  /\ UNCHANGED <<live, file, req, wd, job, faults, env>>

\* shutdown with RestoreOnExit.
ExitRestore(d) ==
  /\ phase[d] = "stopping"
  /\ BeginRestore(Daemon(d), "exit")
  /\ UNCHANGED <<live, file, req, env>>

\* The process is gone: killed at any point, or at the end of draining, which
\* does not wait for a handler longer than its deadline.
Die(d) ==
  /\ phase[d] \notin {"none", "dead"}
  /\ phase' = [phase EXCEPT ![d] = "dead"]
  /\ req' = [req EXCEPT ![d] = {}]
  /\ job' = [job EXCEPT ![Daemon(d)] = Idle]
  /\ UNCHANGED <<live, file, wd, faults, env>>

-----------------------------------------------------------------------------
(* The watchdog: wait for the daemon's pid to exit, then RestoreStale once. *)

Watchdog(d) == <<"watchdog", d>>

WatchdogWakes(d) ==
  /\ wd[d] = "waiting" /\ phase[d] = "dead"
  /\ BeginRestore(Watchdog(d), "watchdog")
  /\ UNCHANGED <<live, file, req, env>>

WatchdogKilled(d) ==
  /\ wd[d] \in {"waiting", "restoring"} /\ Fault
  /\ wd' = [wd EXCEPT ![d] = "done"]
  /\ job' = [job EXCEPT ![Watchdog(d)] = Idle]
  /\ UNCHANGED <<live, file, phase, req, env>>

-----------------------------------------------------------------------------
(* The user.                                                               *)

Edit == edits < MaxEdits /\ edits' = edits + 1

\* Edits in System Settings are not made while pano is changing settings.
UserEdits(s, c) ==
  /\ Edit /\ Quiet /\ s \in present /\ live[s] # c
  /\ live' = [live EXCEPT ![s] = c]
  /\ UNCHANGED <<present, file, phase, req, wd, job, faults>>

\* A service is removed (at any moment), or one of that name is created.
ServiceGone(s) ==
  /\ Edit /\ s \in present
  /\ present' = present \ {s}
  /\ UNCHANGED <<live, file, phase, req, wd, job, faults>>

ServiceAdded(s, c) ==
  /\ Edit /\ Quiet /\ s \notin present
  /\ present' = present \cup {s}
  /\ live' = [live EXCEPT ![s] = c]
  /\ UNCHANGED <<file, phase, req, wd, job, faults>>

-----------------------------------------------------------------------------
DaemonStep(d) ==
  \/ Start(d) \/ Listen(d) \/ Stop(d) \/ ExitRestore(d) \/ Die(d)
  \/ \E r \in {"on", "off", "quit"} : Request(d, r)
  \/ \E r \in {"off", "quit"} : Disable(d, r)
  \/ BeginEnable(d) \/ EndEnable(d) \/ SpawnWatchdog(d)

Command(a) == EnableCommand(a) \/ RestoreCommand(a) \/ EndRestore(a)

User ==
  \/ \E s \in Service : ServiceGone(s)
  \/ \E s \in Service, c \in Choice : UserEdits(s, c) \/ ServiceAdded(s, c)

Next ==
  \/ \E d \in Life : DaemonStep(d) \/ WatchdogWakes(d) \/ WatchdogKilled(d)
  \/ \E a \in Actor : Command(a)
  \/ User

\* Only the watchdog must run: daemons may hang or be killed, users do as they
\* like.  It is a process of its own that nothing else waits for.
Fairness == \A d \in Life :
  /\ WF_vars(WatchdogWakes(d))
  /\ WF_vars(Command(Watchdog(d)))

Spec     == Init /\ [][Next]_vars
FairSpec == Spec /\ Fairness

-----------------------------------------------------------------------------
(* Properties.                                                             *)

\* Enable's write-ahead rule (darwin.go: "The snapshot must be durable before
\* the first change is made"), kept across every command, crash, retry and
\* restore: a service that sends traffic to pano is in a state file on disk.
WriteAhead ==
  \A s \in present : Pointing(live[s]) => file # NoFile /\ s \in DOMAIN file

\* docs/architecture.md: "The presence of sysproxy.json is the single source of
\* truth for 'pano owns the system proxy right now'."  It is not when two
\* processes work at once: the start of a second daemon, or the watchdog of a
\* dead one, deletes the file while a daemon is pointing services at itself.
SingleSourceOfTruth ==
  (\E s \in present : Pointing(live[s])) => file # NoFile

\* "If a snapshot already exists ... it is kept rather than overwritten":
\* however often Enable runs, after whatever failure, the file never records
\* pano's own setting as the one to go back to.
SnapshotPredatesPano ==
  file # NoFile => \A s \in DOMAIN file : ~Pointing(file[s])

\* The settings, and the file, as far as macOS acts on them.
Shown == [s \in present |-> Effective(live[s])]
Saved == IF file = NoFile THEN NoFile
         ELSE [s \in DOMAIN file |-> Effective(file[s])]

\* The manager implements SysProxyPromise: the snapshot is taken when the
\* proxy is not owned, is not changed while it is, services outside it are
\* not touched, and the file is deleted only when every service in it looks
\* as it did before pano (Enable, restoreLocked, through crashes and faults).
Promise == INSTANCE SysProxyPromise WITH
             shown <- Shown, saved <- Saved, Nothing <- NoFile
KeepsPromise == Promise!Spec

\* The watchdog makes up for a dead daemon: once no daemon runs and nothing
\* can fail any more, a watchdog that is still waiting gets the file restored
\* and deleted, whatever the daemon was in the middle of, unless a new daemon
\* (which restores by itself) starts first.
WatchdogRecovers ==
  (/\ \A d \in Life : phase[d] \in {"none", "dead"}
   /\ \E d \in Life : wd[d] = "waiting"
   /\ faults = MaxFaults)
  ~> \/ file = NoFile /\ \A s \in present : ~Pointing(live[s])
     \/ \E d \in Life : phase[d] \notin {"none", "dead"}
=============================================================================
