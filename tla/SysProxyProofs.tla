--------------------------- MODULE SysProxyProofs ---------------------------
(***************************************************************************)
(* Proofs about SysProxy, for every set of services, of settings and of    *)
(* daemon lives, and every bound on faults and edits.  The safety theorems *)
(* assume what the README states for the runs: two processes do not drive  *)
(* networksetup at the same moment (Overlap = FALSE).                      *)
(* Then about the windows and the daemon, which Endings puts next to it.   *)
(***************************************************************************)
EXTENDS Endings, TLAPS

-----------------------------------------------------------------------------
(* What the commands and the job helpers return.                           *)

\* A command turns a setting into a setting.
LEMMA CommandTypes ==
  ASSUME NEW v \in Setting, NEW was \in Setting, NEW n \in 1..6
  PROVE  Enabled(v, was, n) \in Setting /\ Restored(v, was, n) \in Setting
<1>1. Enabled(v, was, n) \in Setting
  <2>1. was.bypass \cup Default \in SUBSET Domain
    BY ConstantsAssumption DEF ConstantsAssumption, Setting
  <2>2. [on |-> TRUE, at |-> Pano] \in Slot
    BY DEF Slot
  <2>3. CASE n = 1
    <3>1. \A x \in Slot : [v EXCEPT !.web = x] \in Setting
      BY DEF Setting
    <3>2. Enabled(v, was, n) = [v EXCEPT !.web = [on |-> TRUE, at |-> Pano]]
      BY <2>3 DEF Enabled
    <3>. QED BY <2>2, <3>1, <3>2
  <2>4. CASE n = 2
    <3>1. \A x \in Slot : [v EXCEPT !.secure = x] \in Setting
      BY DEF Setting
    <3>2. Enabled(v, was, n) = [v EXCEPT !.secure = [on |-> TRUE, at |-> Pano]]
      BY <2>4 DEF Enabled
    <3>. QED BY <2>2, <3>1, <3>2
  <2>5. CASE n = 3
    <3>1. \A x \in SUBSET Domain : [v EXCEPT !.bypass = x] \in Setting
      BY DEF Setting
    <3>2. Enabled(v, was, n) = [v EXCEPT !.bypass = was.bypass \cup Default]
      BY <2>5 DEF Enabled
    <3>. QED BY <2>1, <3>1, <3>2
  <2>6. CASE n = 4
    <3>1. \A x \in BOOLEAN : [v EXCEPT !.pac = x] \in Setting
      BY DEF Setting
    <3>2. Enabled(v, was, n) = [v EXCEPT !.pac = FALSE]
      BY <2>6 DEF Enabled
    <3>. QED BY <3>1, <3>2
  <2>7. CASE n \in {5, 6}
    <3>1. \A x \in BOOLEAN : [v EXCEPT !.wpad = x] \in Setting
      BY DEF Setting
    <3>2. Enabled(v, was, n) = [v EXCEPT !.wpad = FALSE]
      BY <2>7 DEF Enabled
    <3>. QED BY <3>1, <3>2
  <2>. QED BY <2>3, <2>4, <2>5, <2>6, <2>7
<1>2. /\ v.web \in Slot /\ v.secure \in Slot /\ v.bypass \in SUBSET Domain
      /\ was.web \in Slot /\ was.secure \in Slot /\ was.bypass \in SUBSET Domain
      /\ v.url \in Url \cup {NoUrl} /\ was.url \in Url \cup {NoUrl}
      /\ v.pac \in BOOLEAN /\ v.wpad \in BOOLEAN
      /\ was.pac \in BOOLEAN /\ was.wpad \in BOOLEAN
  BY DEF Setting
<1>3. Back(v.web, was.web) \in Slot /\ Back(v.secure, was.secure) \in Slot
  BY <1>2 DEF Back, Slot
<1>4. PacState(was) \in BOOLEAN
  BY <1>2 DEF PacState
<1>5. Restored(v, was, n) \in Setting
  <2>1. CASE n = 1 BY <2>1, <1>2, <1>3 DEF Restored, Setting
  <2>2. CASE n = 2 BY <2>2, <1>2, <1>3 DEF Restored, Setting
  <2>3. CASE n = 3 BY <2>3, <1>2 DEF Restored, Setting
  <2>4. CASE n = 4
    <3>1. [v EXCEPT !.url = was.url] \in Setting
      BY <1>2 DEF Setting
    <3>2. [[v EXCEPT !.url = was.url] EXCEPT !.pac = TRUE] \in Setting
      BY <3>1 DEF Setting
    <3>. QED BY <2>4, <3>2 DEF Restored
  <2>5. CASE n = 5 BY <2>5, <1>2, <1>4 DEF Restored, Setting
  <2>6. CASE n = 6 BY <2>6, <1>2 DEF Restored, Setting
  <2>. QED BY <2>1, <2>2, <2>3, <2>4, <2>5, <2>6
<1>. QED BY <1>1, <1>5

\* The first n - 1 restore commands have had their effect on v.
UpTo(v, was, n) ==
  LET e == Effective(v)
      w == Effective(was)
  IN
  /\ n > 1 => e.web = w.web
  /\ n > 2 => e.secure = w.secure
  /\ n > 3 => e.bypass = w.bypass
  /\ n > 4 => was.url = NoUrl \/ v.url = was.url
  /\ n > 5 => e.pac = w.pac
  /\ n > 6 => e.wpad = w.wpad

\* Each command adds its effect and keeps those of the earlier ones ...
LEMMA RestoredAdds ==
  ASSUME NEW v \in Setting, NEW was \in Setting, NEW n \in 1..6, UpTo(v, was, n)
  PROVE  UpTo(Restored(v, was, n), was, n + 1)
<1>1. CASE n = 1 BY <1>1 DEF UpTo, Restored, Back, Effective, Setting, Slot
<1>2. CASE n = 2 BY <1>2 DEF UpTo, Restored, Back, Effective, Setting, Slot
<1>3. CASE n = 3 BY <1>3 DEF UpTo, Restored, Effective, Setting
<1>4. CASE n = 4 BY <1>4 DEF UpTo, Restored, Effective, Setting
<1>5. CASE n = 5
  <2>. DEFINE r == Restored(v, was, n)
  <2>1. r = [v EXCEPT !.pac = PacState(was)]
    BY <1>5 DEF Restored
  <2>2. /\ r.web = v.web /\ r.secure = v.secure /\ r.bypass = v.bypass
        /\ r.url = v.url /\ r.wpad = v.wpad /\ r.pac = PacState(was)
    BY <2>1 DEF Setting
  <2>3. (IF r.pac THEN r.url ELSE NoUrl) = (IF was.pac THEN was.url ELSE NoUrl)
    <3>1. was.url = NoUrl \/ v.url = was.url
      BY <1>5 DEF UpTo
    <3>2. r.pac <=> (was.pac /\ was.url # NoUrl)
      BY <2>2 DEF PacState
    <3>. QED BY <2>2, <3>1, <3>2
  <2>. HIDE DEF r
  <2>4. UpTo(r, was, 6)
    BY <1>5, <2>2, <2>3 DEF UpTo, Effective
  <2>. QED BY <1>5, <2>4 DEF r
<1>6. CASE n = 6 BY <1>6 DEF UpTo, Restored, Effective, Setting
<1>. QED BY <1>1, <1>2, <1>3, <1>4, <1>5, <1>6

\* ... and all six make the service behave as it did.
LEMMA RestoredAll ==
  ASSUME NEW v, NEW was, UpTo(v, was, 7)
  PROVE  Effective(v) = Effective(was)
BY DEF UpTo, Effective

\* A service that behaves like one that does not point at pano does not either.
LEMMA SameEffect ==
  ASSUME NEW v \in Setting, NEW was \in Setting, Effective(v) = Effective(was),
         ~Pointing(was)
  PROVE  ~Pointing(v)
BY ConstantsAssumption DEF Effective, Pointing, Setting, Slot

\* The current service of a job that has some left is one of them.
LEMMA CurInTodo ==
  ASSUME NEW a, job[a].todo # {}
  PROVE  Cur(a) \in job[a].todo
BY DEF Cur

\* A call begins as a well-formed job on every service of its snapshot.
LEMMA BegunIsJob ==
  ASSUME NEW kind \in Kind, NEW snap, IsSnapshot(snap)
  PROVE  /\ IsJob(Begun(kind, snap))
         /\ Begun(kind, snap).kind = kind /\ Begun(kind, snap).snap = snap
         /\ Begun(kind, snap).todo = DOMAIN snap
         /\ Begun(kind, snap).step = 1
BY DEF Begun, IsJob

\* Going on to the next command or service keeps a job well formed, and its
\* kind and snapshot what they were.
LEMMA NextKeepsJob ==
  ASSUME NEW j, IsJob(j), NEW s, NEW b \in BOOLEAN
  PROVE  /\ IsJob(NextService(j, s, b))
         /\ NextService(j, s, b).kind = j.kind
         /\ NextService(j, s, b).snap = j.snap
         /\ NextService(j, s, b).todo = j.todo \ {s}
         /\ NextService(j, s, b).step = 1
         /\ NextService(j, s, b).bad = (j.bad \/ b)
         /\ NextCommand(j, b).kind = j.kind
         /\ NextCommand(j, b).snap = j.snap
         /\ NextCommand(j, b).todo = j.todo
         /\ NextCommand(j, b).step = j.step + 1
         /\ NextCommand(j, b).bad = j.bad
         /\ NextCommand(j, b).svcBad = (j.svcBad \/ b)
         /\ j.step < 6 => IsJob(NextCommand(j, b))
<1>1. /\ IsSnapshot(j.snap) /\ j.todo \subseteq DOMAIN j.snap /\ j.kind \in Kind
      /\ j.step \in 1..6 /\ j.svcBad \in BOOLEAN /\ j.bad \in BOOLEAN
  BY DEF IsJob
<1>2. j = [kind |-> j.kind, snap |-> j.snap, todo |-> j.todo, step |-> j.step,
           svcBad |-> j.svcBad, bad |-> j.bad]
  BY DEF IsJob
<1>. DEFINE x == j.bad \/ b
            y == j.svcBad \/ b
<1>x. x \in BOOLEAN /\ y \in BOOLEAN
  OBVIOUS
<1>n. /\ NextService(j, s, b) = [j EXCEPT !.todo = j.todo \ {s}, !.step = 1,
                                          !.svcBad = FALSE, !.bad = x]
      /\ NextCommand(j, b) = [j EXCEPT !.step = j.step + 1, !.svcBad = y]
  BY Zenon DEF NextService, NextCommand
<1>. HIDE DEF x, y
<1>3. NextService(j, s, b) =
        [kind |-> j.kind, snap |-> j.snap, todo |-> j.todo \ {s}, step |-> 1,
         svcBad |-> FALSE, bad |-> x]
  BY <1>2, <1>n
<1>4. NextCommand(j, b) =
        [kind |-> j.kind, snap |-> j.snap, todo |-> j.todo, step |-> j.step + 1,
         svcBad |-> y, bad |-> j.bad]
  BY <1>2, <1>n
<1>5. IsJob(NextService(j, s, b))
  BY <1>1, <1>3, <1>x DEF IsJob
<1>6. j.step < 6 => IsJob(NextCommand(j, b))
  BY <1>1, <1>4, <1>x DEF IsJob
<1>. QED BY <1>3, <1>4, <1>5, <1>6 DEF x, y

-----------------------------------------------------------------------------
(* Type correctness.                                                       *)

JobsOK == /\ job = [a \in Actor |-> job[a]]
          /\ \A a \in Actor : job[a] = Idle \/ IsJob(job[a])

\* One process changes what it does.
LEMMA JobUpdate ==
  ASSUME JobsOK, NEW a \in Actor, NEW x, x = Idle \/ IsJob(x),
         job' = [job EXCEPT ![a] = x]
  PROVE  JobsOK'
BY DEF JobsOK

\* A process at work has a well-formed job.
LEMMA WorkerHasJob ==
  ASSUME JobsOK, NEW a \in Actor, NEW K \in SUBSET Kind, job[a].kind \in K
  PROVE  IsJob(job[a])
<1>1. job[a] # Idle
  BY DEF Idle, Kind
<1>. QED BY <1>1 DEF JobsOK

\* What the caller of a restore does keeps phases and watchdogs typed.
LEMMA ReturnTypes ==
  ASSUME TypeOK, NEW a \in Actor, NEW kind, Return(a, kind)
  PROVE  /\ phase' \in [Life -> Phase]
         /\ wd' \in [Life -> {"none", "waiting", "restoring", "done"}]
<1>. DEFINE d == a[2]
<1>1. phase \in [Life -> Phase]
      /\ wd \in [Life -> {"none", "waiting", "restoring", "done"}]
  BY DEF TypeOK
<1>2. \A p \in Phase : [phase EXCEPT ![d] = p] \in [Life -> Phase]
  BY <1>1
<1>3. phase' \in [Life -> Phase]
  BY <1>1, <1>2 DEF Return, Phase
<1>4. wd' \in [Life -> {"none", "waiting", "restoring", "done"}]
  BY <1>1 DEF Return
<1>. QED BY <1>3, <1>4

\* So does beginning one.
LEMMA BeginRestoreTypes ==
  ASSUME TypeOK, NEW a \in Actor, NEW kind \in Kind, BeginRestore(a, kind)
  PROVE  /\ phase' \in [Life -> Phase]
         /\ wd' \in [Life -> {"none", "waiting", "restoring", "done"}]
         /\ JobsOK'
         /\ faults' \in 0..MaxFaults
<1>0. JobsOK /\ faults \in 0..MaxFaults
  BY DEF TypeOK, JobsOK
<1>1. CASE /\ file # NoFile
           /\ job' = [job EXCEPT ![a] = Begun(kind, file)]
           /\ phase' = IF kind = "stale" THEN [phase EXCEPT ![a[2]] = "boot"] ELSE phase
           /\ wd' = IF kind = "watchdog" THEN [wd EXCEPT ![a[2]] = "restoring"] ELSE wd
           /\ UNCHANGED faults
  <2>1. IsJob(Begun(kind, file))
    BY <1>1, BegunIsJob DEF TypeOK
  <2>2. JobsOK'
    BY <1>0, <1>1, <2>1, JobUpdate
  <2>3. phase' \in [Life -> Phase]
    BY <1>1 DEF TypeOK, Phase
  <2>4. wd' \in [Life -> {"none", "waiting", "restoring", "done"}]
    BY <1>1 DEF TypeOK
  <2>. QED BY <1>0, <1>1, <2>2, <2>3, <2>4
<1>2. CASE Return(a, kind) /\ UNCHANGED job /\ (UNCHANGED faults \/ Fault)
  <2>1. JobsOK'
    BY <1>0, <1>2 DEF JobsOK
  <2>2. faults' \in 0..MaxFaults
    BY <1>0, <1>2, ConstantsAssumption DEF Fault
  <2>. QED BY <1>2, <2>1, <2>2, ReturnTypes
<1>. QED BY <1>1, <1>2 DEF BeginRestore

\* The user's settings are well typed and no process runs.
LEMMA TypeInit == Init => TypeOK
BY ConstantsAssumption DEF Init, TypeOK, Setting, Phase, Idle

\* Every step keeps the types.
LEMMA TypeNext == TypeOK /\ [Next]_vars => TypeOK'
<1>. SUFFICES ASSUME TypeOK, [Next]_vars PROVE TypeOK'
  OBVIOUS
<1>. USE ConstantsAssumption
<1>0. /\ JobsOK
      /\ faults \in 0..MaxFaults
      /\ Fault => faults' \in 0..MaxFaults
      /\ UNCHANGED faults => faults' \in 0..MaxFaults
      /\ UNCHANGED job => JobsOK'
  BY DEF TypeOK, JobsOK, Fault
<1>d. \A d \in Life : Daemon(d) \in Actor /\ Watchdog(d) \in Actor
  BY DEF Daemon, Watchdog, Actor, Role
<1>1. ASSUME NEW d \in Life, Start(d) PROVE TypeOK'
  <2>1. BeginRestore(Daemon(d), "stale") /\ "stale" \in Kind
    BY <1>1 DEF Start, Kind
  <2>. QED BY <1>1, <2>1, <1>d, BeginRestoreTypes DEF Start, TypeOK, JobsOK, env
<1>2. ASSUME NEW d \in Life, Listen(d) PROVE TypeOK'
  BY <1>2, <1>0 DEF Listen, TypeOK, Phase, env
<1>3. ASSUME NEW d \in Life, Stop(d) PROVE TypeOK'
  BY <1>3, <1>0 DEF Stop, TypeOK, Phase, env
<1>4. ASSUME NEW d \in Life, ExitRestore(d) PROVE TypeOK'
  <2>1. BeginRestore(Daemon(d), "exit") /\ "exit" \in Kind
    BY <1>4 DEF ExitRestore, Kind
  <2>. QED BY <1>4, <2>1, <1>d, BeginRestoreTypes DEF ExitRestore, TypeOK, JobsOK, env
<1>5. ASSUME NEW d \in Life, Die(d) PROVE TypeOK'
  <2>1. JobsOK'
    BY <1>5, <1>0, <1>d, JobUpdate DEF Die
  <2>. QED BY <1>5, <2>1 DEF Die, TypeOK, JobsOK, Phase, env
<1>6. ASSUME NEW d \in Life, NEW r \in {"on", "off", "quit"}, Request(d, r)
      PROVE  TypeOK'
  BY <1>6, <1>0 DEF Request, TypeOK, env
<1>7. ASSUME NEW d \in Life, NEW r \in {"off", "quit"}, Disable(d, r)
      PROVE  TypeOK'
  <2>1. BeginRestore(Daemon(d), r) /\ r \in Kind
    BY <1>7 DEF Disable, Kind
  <2>. QED BY <1>7, <2>1, <1>d, BeginRestoreTypes DEF Disable, TypeOK, JobsOK, env
<1>8. ASSUME NEW d \in Life, BeginEnable(d) PROVE TypeOK'
  <2>1. CASE /\ file # NoFile \/ present # {}
             /\ file' = Captured
             /\ job' = [job EXCEPT ![Daemon(d)] = Begun("enable", Captured)]
             /\ UNCHANGED faults
    <3>1. IsSnapshot(Captured)
      BY <2>1 DEF Captured, IsSnapshot, TypeOK
    <3>2. IsJob(Begun("enable", Captured))
      BY <3>1, BegunIsJob DEF Kind
    <3>3. JobsOK'
      BY <1>0, <1>d, <2>1, <3>2, JobUpdate
    <3>4. IsSnapshot(file')
      BY <2>1, <3>1
    <3>. QED BY <1>8, <2>1, <3>3, <3>4 DEF BeginEnable, TypeOK, JobsOK, env
  <2>2. CASE UNCHANGED <<file, job>> /\ (UNCHANGED faults \/ Fault)
    BY <1>8, <2>2, <1>0 DEF BeginEnable, TypeOK, JobsOK, env
  <2>. QED BY <1>8, <2>1, <2>2 DEF BeginEnable
<1>9. ASSUME NEW d \in Life, EndEnable(d) PROVE TypeOK'
  <2>1. JobsOK'
    BY <1>9, <1>0, <1>d, JobUpdate DEF EndEnable
  <2>2. req' \in [Life -> SUBSET {"on", "off", "quit", "spawn"}]
    BY <1>9 DEF EndEnable, TypeOK
  <2>. QED BY <1>9, <1>0, <2>1, <2>2 DEF EndEnable, TypeOK, JobsOK, env
<1>10. ASSUME NEW d \in Life, SpawnWatchdog(d) PROVE TypeOK'
  <2>1. wd' \in [Life -> {"none", "waiting", "restoring", "done"}]
    BY <1>10 DEF SpawnWatchdog, TypeOK
  <2>2. req' \in [Life -> SUBSET {"on", "off", "quit", "spawn"}]
    BY <1>10 DEF SpawnWatchdog, TypeOK
  <2>. QED BY <1>10, <1>0, <2>1, <2>2 DEF SpawnWatchdog, TypeOK, env
<1>11. ASSUME NEW d \in Life, WatchdogWakes(d) PROVE TypeOK'
  <2>1. BeginRestore(Watchdog(d), "watchdog") /\ "watchdog" \in Kind
    BY <1>11 DEF WatchdogWakes, Kind
  <2>. QED BY <1>11, <2>1, <1>d, BeginRestoreTypes DEF WatchdogWakes, TypeOK, JobsOK, env
<1>12. ASSUME NEW d \in Life, WatchdogKilled(d) PROVE TypeOK'
  <2>1. JobsOK'
    BY <1>12, <1>0, <1>d, JobUpdate DEF WatchdogKilled
  <2>. QED BY <1>12, <1>0, <2>1 DEF WatchdogKilled, TypeOK, JobsOK, env
<1>13. ASSUME NEW a \in Actor, EnableCommand(a) PROVE TypeOK'
  <2>. DEFINE j == job[a]
              s == Cur(a)
              to == Enabled(live[s], j.snap[s], j.step)
  <2>1. IsJob(j) /\ s \in j.todo
    BY <1>13, <1>0, WorkerHasJob, CurInTodo DEF EnableCommand, Working, Kind
  <2>2. j.step \in 1..6 /\ s \in DOMAIN j.snap /\ s \in Service
        /\ j.snap[s] \in Setting /\ live[s] \in Setting
    BY <2>1 DEF IsJob, IsSnapshot, TypeOK
  <2>3. to \in Setting
    BY <2>2, CommandTypes
  <2>4. live' \in [Service -> Setting]
    BY <1>13, <2>2, <2>3 DEF EnableCommand, TypeOK
  <2>5. \A b \in BOOLEAN : j.step < 6 => IsJob(NextCommand(j, b))
    BY <2>1, <2>2, NextKeepsJob
  <2>6. \A b \in BOOLEAN : IsJob(NextService(j, s, b))
    BY <2>1, NextKeepsJob
  <2>7. \/ job' = [job EXCEPT ![a] = IF j.step < 5 THEN NextCommand(j, FALSE)
                                     ELSE NextService(j, s, FALSE)]
        \/ job' = [job EXCEPT ![a] = NextService(j, s, TRUE)]
    BY <1>13 DEF EnableCommand
  <2>8. PICK x : (x = Idle \/ IsJob(x)) /\ job' = [job EXCEPT ![a] = x]
    <3>1. j.step < 5 => IsJob(NextCommand(j, FALSE))
      <4>1. j.step < 5 => j.step < 6
        BY <2>2
      <4>. QED BY <4>1, <2>5, Zenon
    <3>2. IsJob(NextService(j, s, FALSE)) /\ IsJob(NextService(j, s, TRUE))
      BY <2>6, Zenon
    <3>. QED BY <2>7, <3>1, <3>2, Zenon
  <2>9. JobsOK'
    BY <1>0, <2>8, JobUpdate
  <2>. QED BY <1>13, <1>0, <2>4, <2>9 DEF EnableCommand, TypeOK, JobsOK, env
<1>14. ASSUME NEW a \in Actor, RestoreCommand(a) PROVE TypeOK'
  <2>. DEFINE j == job[a]
              s == Cur(a)
              to == Restored(live[s], j.snap[s], j.step)
  <2>1. IsJob(j) /\ s \in j.todo
    BY <1>14, <1>0, WorkerHasJob, CurInTodo DEF RestoreCommand, Working, Restoring
  <2>2. j.step \in 1..6 /\ s \in DOMAIN j.snap /\ s \in Service
        /\ j.snap[s] \in Setting /\ live[s] \in Setting
    BY <2>1 DEF IsJob, IsSnapshot, TypeOK
  <2>3. to \in Setting
    BY <2>2, CommandTypes
  <2>4. live' \in [Service -> Setting]
    BY <1>14, <2>2, <2>3 DEF RestoreCommand, TypeOK
  <2>5. \A b \in BOOLEAN : j.step < 6 => IsJob(NextCommand(j, b))
    BY <2>1, <2>2, NextKeepsJob
  <2>6. \A b \in BOOLEAN : IsJob(NextService(j, s, b))
    BY <2>1, NextKeepsJob
  <2>7. \E b \in BOOLEAN :
          \/ j.step < 6 /\ job' = [job EXCEPT ![a] = NextCommand(j, b)]
          \/ job' = [job EXCEPT ![a] = NextService(j, s, b)]
    <3>1. j.step \in 1..6 /\ j.svcBad \in BOOLEAN
      BY <2>1 DEF IsJob
    <3>2. (j.svcBad \/ FALSE) \in BOOLEAN /\ (j.svcBad \/ TRUE) \in BOOLEAN
      OBVIOUS
    <3>3. \E f \in BOOLEAN :
            \/ job' = [job EXCEPT ![a] = IF j.step < 6 THEN NextCommand(j, f)
                                         ELSE NextService(j, s, j.svcBad \/ f)]
            \/ job' = [job EXCEPT ![a] = NextService(j, s, FALSE)]
      BY <1>14, Zenon DEF RestoreCommand, Skipped
    <3>. QED BY <3>1, <3>2, <3>3, Zenon
  <2>8. JobsOK'
    BY <1>0, <2>5, <2>6, <2>7, JobUpdate
  <2>. QED BY <1>14, <1>0, <2>4, <2>8 DEF RestoreCommand, TypeOK, JobsOK, env
<1>15. ASSUME NEW a \in Actor, EndRestore(a) PROVE TypeOK'
  <2>1. JobsOK'
    BY <1>15, <1>0, JobUpdate DEF EndRestore
  <2>2. file' # NoFile => IsSnapshot(file')
    BY <1>15 DEF EndRestore, TypeOK
  <2>3. faults' \in 0..MaxFaults
    BY <1>15, <1>0 DEF EndRestore
  <2>. QED BY <1>15, <2>1, <2>2, <2>3, ReturnTypes DEF EndRestore, TypeOK, JobsOK, env
<1>16. ASSUME NEW s \in Service, ServiceGone(s) PROVE TypeOK'
  BY <1>16, <1>0 DEF ServiceGone, Edit, TypeOK
<1>17. ASSUME NEW s \in Service, NEW c \in Choice, UserEdits(s, c) PROVE TypeOK'
  BY <1>17, <1>0 DEF UserEdits, Edit, TypeOK
<1>18. ASSUME NEW s \in Service, NEW c \in Choice, ServiceAdded(s, c) PROVE TypeOK'
  BY <1>18, <1>0 DEF ServiceAdded, Edit, TypeOK
<1>19. CASE UNCHANGED vars
  BY <1>19 DEF vars, TypeOK
<1>. QED
  BY <1>1, <1>2, <1>3, <1>4, <1>5, <1>6, <1>7, <1>8, <1>9, <1>10, <1>11, <1>12,
     <1>13, <1>14, <1>15, <1>16, <1>17, <1>18, <1>19
  DEF Next, DaemonStep, Command, User

\* Every state the processes can reach is well typed: jobs only ever work on
\* services of a snapshot, through commands that exist.
THEOREM TypeCorrect == Spec => []TypeOK
BY TypeInit, TypeNext, PTL DEF Spec

-----------------------------------------------------------------------------
(* The inductive invariant.  WriteAhead is not inductive: deleting the     *)
(* file is safe only because the restore has settled every service in it,    *)
(* and that only because no other process wrote in between.                *)

\* One process at a time works on networksetup ...
Exclusive == \A a, b \in Actor : job[a] # Idle /\ job[b] # Idle => a = b

\* ... on the snapshot that is in the file ...
WorksOnFile == \A a \in Actor : job[a] # Idle => file # NoFile /\ job[a].snap = file

\* ... and a restore has settled the services it finished, and as much of the
\* current one as its commands so far, as long as it has no error to report.
Settled(a) ==
  job[a].kind \in Restoring =>
    \A s \in present \cap DOMAIN file :
      /\ s \notin job[a].todo /\ ~job[a].bad => Effective(live[s]) = Effective(file[s])
      /\ s \in job[a].todo /\ s = Cur(a) /\ ~job[a].svcBad =>
           UpTo(live[s], file[s], job[a].step)

SafeInv ==
  /\ WriteAhead /\ SnapshotPredatesPano
  /\ Exclusive /\ WorksOnFile
  /\ \A a \in Actor : Settled(a)

\* Nothing points at pano at first.
LEMMA SafeInit == Init => SafeInv
<1>. SUFFICES ASSUME Init PROVE SafeInv
  OBVIOUS
<1>1. \A s \in Service : ~Pointing(live[s])
  BY ConstantsAssumption DEF Init
<1>2. \A a \in Actor : job[a] = Idle
  BY DEF Init
<1>3. "idle" \notin Restoring
  BY DEF Restoring, Kind
<1>. QED BY <1>1, <1>2, <1>3
     DEF Init, SafeInv, WriteAhead, SnapshotPredatesPano, Exclusive, WorksOnFile, Settled, Idle

\* The variables SafeInv speaks of.
LEMMA SafeFrame ==
  ASSUME SafeInv, UNCHANGED <<live, present, file, job>>
  PROVE  SafeInv'
BY DEF SafeInv, WriteAhead, SnapshotPredatesPano, Exclusive, WorksOnFile, Settled, Cur

\* While one process works, or one begins when none does, the others rest.
LEMMA OthersRest ==
  ASSUME JobsOK, Exclusive, NEW a \in Actor, NEW x,
         job[a] # Idle \/ Quiet, job' = [job EXCEPT ![a] = x]
  PROVE  /\ job'[a] = x
         /\ \A b \in Actor \ {a} : job'[b] = Idle
         /\ Exclusive'
BY DEF JobsOK, Exclusive, Quiet

\* A process that is at rest has settled nothing and owes nothing.
LEMMA RestingSettled ==
  ASSUME NEW a, job[a] = Idle
  PROVE  Settled(a)
BY DEF Settled, Restoring, Kind, Idle

\* A process that stops working, whatever it left undone.
LEMMA SafeStop ==
  ASSUME JobsOK, SafeInv, NEW a \in Actor,
         job' = [job EXCEPT ![a] = Idle], UNCHANGED <<live, present, file>>
  PROVE  SafeInv'
<1>1. \A b \in Actor : job'[b] = Idle \/ job'[b] = job[b]
  BY DEF JobsOK
<1>2. Exclusive' /\ WorksOnFile'
  BY <1>1 DEF SafeInv, Exclusive, WorksOnFile
<1>3. \A b \in Actor : Settled(b)'
  BY <1>1 DEF SafeInv, Settled, Restoring, Kind, Idle, Cur
<1>. QED BY <1>2, <1>3 DEF SafeInv, WriteAhead, SnapshotPredatesPano

\* A process that begins to work on the file, none of whose services it has
\* touched.
LEMMA SafeBegin ==
  ASSUME JobsOK, Exclusive, Quiet, NEW a \in Actor, NEW kind \in Kind,
         WriteAhead', SnapshotPredatesPano', file' # NoFile,
         job' = [job EXCEPT ![a] = Begun(kind, file')]
  PROVE  SafeInv'
<1>1. /\ job'[a] = Begun(kind, file') /\ Exclusive'
      /\ \A b \in Actor \ {a} : job'[b] = Idle
  BY OthersRest
<1>2. WorksOnFile'
  BY <1>1 DEF WorksOnFile, Begun
<1>3. Settled(a)'
  <2>1. \A v, w : UpTo(v, w, 1)
    BY DEF UpTo
  <2>. QED BY <1>1, <2>1 DEF Settled, Begun
<1>4. \A b \in Actor \ {a} : Settled(b)'
  BY <1>1 DEF Settled, Restoring, Kind, Idle
<1>. QED BY <1>1, <1>2, <1>3, <1>4 DEF SafeInv

\* Reading the state file changes no setting.
LEMMA SafeBeginRestore ==
  ASSUME JobsOK, SafeInv, ~Overlap, NEW a \in Actor, NEW kind \in Kind,
         BeginRestore(a, kind), UNCHANGED <<live, present, file>>
  PROVE  SafeInv'
<1>1. CASE file # NoFile /\ job' = [job EXCEPT ![a] = Begun(kind, file)]
  <2>1. Quiet
    BY DEF BeginRestore, Free, Quiet
  <2>2. WriteAhead' /\ SnapshotPredatesPano'
    BY DEF SafeInv, WriteAhead, SnapshotPredatesPano
  <2>. QED BY <1>1, <2>1, <2>2, SafeBegin DEF SafeInv
<1>2. CASE UNCHANGED job
  BY <1>2, SafeFrame
<1>. QED BY <1>1, <1>2 DEF BeginRestore

\* A command of Enable changes a service the file records.
LEMMA SafeEnableCommand ==
  ASSUME TypeOK, SafeInv, NEW a \in Actor, EnableCommand(a)
  PROVE  SafeInv'
<1>. DEFINE j == job[a]
            s == Cur(a)
<1>0. JobsOK /\ j.kind = "enable"
  BY DEF TypeOK, JobsOK, EnableCommand, Working
<1>1. IsJob(j) /\ s \in j.todo
  BY <1>0, WorkerHasJob, CurInTodo DEF EnableCommand, Working, Kind
<1>2. j # Idle
  BY <1>0 DEF Idle
<1>3. file # NoFile /\ j.snap = file /\ s \in DOMAIN file
  BY <1>1, <1>2 DEF SafeInv, WorksOnFile, IsJob
<1>4. UNCHANGED <<file, present>> /\ \A t \in Service \ {s} : live'[t] = live[t]
  BY DEF EnableCommand, env, TypeOK
<1>5. WriteAhead' /\ SnapshotPredatesPano'
  BY <1>3, <1>4 DEF SafeInv, WriteAhead, SnapshotPredatesPano, TypeOK
<1>6. PICK x : /\ job' = [job EXCEPT ![a] = x]
               /\ x \in {NextCommand(j, FALSE), NextService(j, s, FALSE),
                         NextService(j, s, TRUE)}
  BY DEF EnableCommand
<1>7. x.kind = "enable" /\ x.snap = file
  BY <1>0, <1>1, <1>3, <1>6 DEF NextCommand, NextService, IsJob
<1>8. job'[a] = x /\ Exclusive' /\ \A b \in Actor \ {a} : job'[b] = Idle
  BY <1>0, <1>2, <1>6, OthersRest DEF SafeInv
<1>9. WorksOnFile'
  BY <1>3, <1>4, <1>7, <1>8 DEF WorksOnFile
<1>10. \A b \in Actor : Settled(b)'
  BY <1>7, <1>8 DEF Settled, Restoring, Kind, Idle
<1>. QED BY <1>5, <1>8, <1>9, <1>10 DEF SafeInv

\* A command of a restore that succeeds settles one more field; one that fails
\* is remembered; a service that is gone is not there to point anywhere.
LEMMA SafeRestoreCommand ==
  ASSUME TypeOK, SafeInv, NEW a \in Actor, RestoreCommand(a)
  PROVE  SafeInv'
<1>. DEFINE j  == job[a]
            s  == Cur(a)
            to == Restored(live[s], j.snap[s], j.step)
<1>0. JobsOK /\ j.kind \in Restoring
  BY DEF TypeOK, JobsOK, RestoreCommand, Working
<1>1. IsJob(j) /\ s \in j.todo
  BY <1>0, WorkerHasJob, CurInTodo DEF RestoreCommand, Working, Restoring
<1>2. j # Idle
  BY <1>0 DEF Idle, Restoring, Kind
<1>3. file # NoFile /\ j.snap = file /\ s \in DOMAIN file
  BY <1>1, <1>2 DEF SafeInv, WorksOnFile, IsJob
<1>4. UNCHANGED <<file, present>> /\ \A t \in Service \ {s} : live'[t] = live[t]
  BY DEF RestoreCommand, env, TypeOK
<1>5. WriteAhead' /\ SnapshotPredatesPano'
  BY <1>3, <1>4 DEF SafeInv, WriteAhead, SnapshotPredatesPano, TypeOK
<1>6. /\ s \in Service /\ j.step \in 1..6 /\ j.svcBad \in BOOLEAN /\ j.bad \in BOOLEAN
      /\ live[s] \in Setting /\ file[s] \in Setting /\ ~Pointing(file[s])
      /\ DOMAIN file \subseteq Service
  BY <1>1, <1>3 DEF IsJob, IsSnapshot, TypeOK, SafeInv, SnapshotPredatesPano
<1>7. UpTo(live[s], file[s], j.step) => UpTo(to, file[s], j.step + 1)
  BY <1>3, <1>6, RestoredAdds
<1>8. Settled(a)
  BY DEF SafeInv
<1>. DEFINE Good(x) ==
       /\ x.kind = j.kind /\ x.snap = j.snap
       /\ \A t \in present \cap DOMAIN file :
            /\ t \notin x.todo /\ ~x.bad => Effective(live'[t]) = Effective(file[t])
            /\ t \in x.todo /\ t = (CHOOSE u \in x.todo : TRUE) /\ ~x.svcBad =>
                 UpTo(live'[t], file[t], x.step)
<1>9. /\ \A t \in present \cap DOMAIN file :
           t \notin j.todo /\ ~j.bad =>
             t # s /\ live'[t] = live[t] /\ Effective(live'[t]) = Effective(file[t])
      /\ s \in present /\ ~j.svcBad => UpTo(live[s], file[s], j.step)
  BY <1>0, <1>1, <1>3, <1>4, <1>6, <1>8 DEF Settled
<1>u. \A v, w : UpTo(v, w, 1)
  BY DEF UpTo
\* The command succeeds, or fails and is remembered.
<1>10. ASSUME NEW f \in BOOLEAN,
              f \/ (s \in present /\ live' = [live EXCEPT ![s] = to])
       PROVE  /\ j.step < 6 => Good(NextCommand(j, f))
              /\ \A g \in BOOLEAN : j.step = 6 /\ (g <=> (j.svcBad \/ f)) =>
                   Good(NextService(j, s, g))
  <2>1. ~f => live'[s] = to
    BY <1>6, <1>10 DEF TypeOK
  <2>2. ASSUME j.step < 6 PROVE Good(NextCommand(j, f))
    <3>. DEFINE x == NextCommand(j, f)
    <3>1. /\ x.kind = j.kind /\ x.snap = j.snap /\ x.todo = j.todo
          /\ x.step = j.step + 1 /\ x.bad = j.bad /\ x.svcBad = (j.svcBad \/ f)
      BY <1>1, NextKeepsJob
    <3>. HIDE DEF x
    <3>2. \A t \in present \cap DOMAIN file :
            t \notin x.todo /\ ~x.bad => Effective(live'[t]) = Effective(file[t])
      BY <1>9, <3>1
    <3>3. s \in present /\ ~x.svcBad => UpTo(live'[s], file[s], x.step)
      BY <1>7, <1>9, <2>1, <3>1
    <3>4. (CHOOSE u \in x.todo : TRUE) = s
      BY <3>1 DEF Cur
    <3>5. Good(x)
      BY <3>1, <3>2, <3>3, <3>4
    <3>. QED BY <3>5 DEF x
  <2>3. ASSUME NEW g \in BOOLEAN, j.step = 6, g <=> (j.svcBad \/ f)
        PROVE  Good(NextService(j, s, g))
    <3>. DEFINE x == NextService(j, s, g)
    <3>1. /\ x.kind = j.kind /\ x.snap = j.snap /\ x.todo = j.todo \ {s}
          /\ x.step = 1 /\ x.bad = (j.bad \/ g)
      BY <1>1, NextKeepsJob
    <3>. HIDE DEF x
    <3>2. ASSUME s \in present, ~x.bad PROVE Effective(live'[s]) = Effective(file[s])
      <4>1. ~f /\ ~j.svcBad
        BY <2>3, <3>1, <3>2
      <4>2. UpTo(live'[s], file[s], 7)
        BY <1>7, <1>9, <2>1, <2>3, <3>2, <4>1
      <4>. QED BY <4>2, RestoredAll
    <3>3. \A t \in present \cap DOMAIN file :
            t \notin x.todo /\ ~x.bad => Effective(live'[t]) = Effective(file[t])
      BY <1>9, <3>1, <3>2
    <3>4. Good(x)
      BY <3>1, <3>3, <1>u
    <3>. QED BY <3>4 DEF x
  <2>. QED BY <2>2, <2>3
\* The service is gone.
<1>11. ASSUME s \notin present, NEW f \in BOOLEAN PROVE Good(NextService(j, s, f))
  <2>. DEFINE x == NextService(j, s, f)
  <2>1. /\ x.kind = j.kind /\ x.snap = j.snap /\ x.todo = j.todo \ {s}
        /\ x.step = 1 /\ x.bad = (j.bad \/ f)
    BY <1>1, NextKeepsJob
  <2>. HIDE DEF x
  <2>2. \A t \in present \cap DOMAIN file :
          t \notin x.todo /\ ~x.bad => Effective(live'[t]) = Effective(file[t])
    BY <1>9, <1>11, <2>1
  <2>3. Good(x)
    BY <2>1, <2>2, <1>u
  <2>. QED BY <2>3 DEF x
<1>12. \/ \E f \in BOOLEAN :
            /\ f \/ (s \in present /\ live' = [live EXCEPT ![s] = to])
            /\ job' = [job EXCEPT ![a] = IF j.step < 6 THEN NextCommand(j, f)
                                         ELSE NextService(j, s, j.svcBad \/ f)]
       \/ s \notin present /\ job' = [job EXCEPT ![a] = NextService(j, s, FALSE)]
  BY Zenon DEF RestoreCommand, Skipped
<1>13. \E x : job' = [job EXCEPT ![a] = x] /\ Good(x)
  <2>. HIDE DEF Good
  <2>1. CASE s \notin present /\ job' = [job EXCEPT ![a] = NextService(j, s, FALSE)]
    BY <1>11, <2>1, Zenon
  <2>2. ASSUME NEW f \in BOOLEAN,
               f \/ (s \in present /\ live' = [live EXCEPT ![s] = to]),
               job' = [job EXCEPT ![a] = IF j.step < 6 THEN NextCommand(j, f)
                                         ELSE NextService(j, s, j.svcBad \/ f)]
        PROVE  \E x : job' = [job EXCEPT ![a] = x] /\ Good(x)
    <3>1. CASE j.step < 6
      BY <1>10, <2>2, <3>1
    <3>2. CASE ~(j.step < 6)
      <4>1. j.step = 6
        BY <1>6, <3>2
      <4>2. (j.svcBad \/ f) \in BOOLEAN
        OBVIOUS
      <4>3. Good(NextService(j, s, j.svcBad \/ f))
        BY <1>10, <2>2, <4>1, <4>2, Zenon
      <4>. QED BY <2>2, <3>2, <4>3, Zenon
    <3>. QED BY <3>1, <3>2
  <2>. QED BY <1>12, <2>1, <2>2
<1>14. PICK x : job' = [job EXCEPT ![a] = x] /\ Good(x)
  BY <1>13
<1>15. job'[a] = x /\ Exclusive' /\ \A b \in Actor \ {a} : job'[b] = Idle
  BY <1>0, <1>2, <1>14, OthersRest DEF SafeInv
<1>16. WorksOnFile'
  BY <1>3, <1>4, <1>14, <1>15 DEF WorksOnFile
<1>17. Settled(a)'
  BY <1>4, <1>14, <1>15 DEF Settled, Cur
<1>18. \A b \in Actor \ {a} : Settled(b)'
  BY <1>15 DEF Settled, Restoring, Kind, Idle
<1>. QED BY <1>5, <1>15, <1>16, <1>17, <1>18 DEF SafeInv

\* The file is deleted when the restore has settled everything in it.
LEMMA SafeEndRestore ==
  ASSUME TypeOK, SafeInv, NEW a \in Actor, EndRestore(a)
  PROVE  SafeInv'
<1>0. JobsOK /\ job[a].kind \in Restoring /\ job[a].todo = {}
  BY DEF TypeOK, JobsOK, EndRestore, AllDone
<1>1. job[a] # Idle
  BY <1>0 DEF Idle, Restoring, Kind
<1>2. job' = [job EXCEPT ![a] = Idle] /\ UNCHANGED <<live, present>>
  BY DEF EndRestore, env
<1>3. CASE UNCHANGED file
  BY <1>0, <1>2, <1>3, SafeStop
<1>4. CASE file' = NoFile /\ ~job[a].bad
  <2>1. ASSUME NEW s \in present PROVE ~Pointing(live[s])
    <3>1. CASE s \notin DOMAIN file
      BY <3>1 DEF SafeInv, WriteAhead
    <3>2. CASE s \in DOMAIN file
      <4>1. Effective(live[s]) = Effective(file[s])
        BY <1>0, <1>4, <3>2 DEF SafeInv, Settled
      <4>2. live[s] \in Setting /\ file[s] \in Setting /\ ~Pointing(file[s])
        BY <1>0, <1>1, <3>2 DEF TypeOK, IsSnapshot, SafeInv, WorksOnFile, SnapshotPredatesPano
      <4>. QED BY <4>1, <4>2, SameEffect
    <3>. QED BY <3>1, <3>2
  <2>2. WriteAhead' /\ SnapshotPredatesPano'
    BY <1>2, <1>4, <2>1 DEF WriteAhead, SnapshotPredatesPano
  <2>3. /\ \A b \in Actor : job'[b] = Idle
        /\ Exclusive'
    BY <1>0, <1>1, <1>2, OthersRest DEF SafeInv
  <2>4. WorksOnFile' /\ \A b \in Actor : Settled(b)'
    BY <2>3 DEF WorksOnFile, Settled, Restoring, Kind, Idle
  <2>. QED BY <2>2, <2>3, <2>4 DEF SafeInv
<1>. QED BY <1>3, <1>4 DEF EndRestore

\* Enable begins: the snapshot written holds what was captured while nothing
\* pointed at pano, or is the one already there.
LEMMA SafeBeginEnable ==
  ASSUME TypeOK, SafeInv, ~Overlap, NEW d \in Life, BeginEnable(d)
  PROVE  SafeInv'
<1>0. JobsOK /\ Quiet /\ UNCHANGED <<live, present>>
  BY DEF TypeOK, JobsOK, BeginEnable, Free, Quiet, env
<1>1. CASE /\ file # NoFile \/ present # {}
           /\ file' = Captured
           /\ job' = [job EXCEPT ![Daemon(d)] = Begun("enable", Captured)]
  <2>1. Daemon(d) \in Actor /\ "enable" \in Kind
    BY DEF Daemon, Actor, Role, Kind
  <2>2. CASE file # NoFile
    <3>1. file' = file
      BY <1>1, <2>2 DEF Captured
    <3>2. WriteAhead' /\ SnapshotPredatesPano'
      BY <1>0, <3>1 DEF SafeInv, WriteAhead, SnapshotPredatesPano
    <3>. QED BY <1>0, <1>1, <2>1, <2>2, <3>1, <3>2, SafeBegin DEF SafeInv
  <2>3. CASE file = NoFile
    <3>1. file' = [s \in present |-> live[s]]
      BY <1>1, <2>3 DEF Captured
    <3>2. \A s \in present : ~Pointing(live[s])
      BY <2>3 DEF SafeInv, WriteAhead
    <3>3. WriteAhead' /\ SnapshotPredatesPano'
      BY <1>0, <3>1, <3>2 DEF WriteAhead, SnapshotPredatesPano
    <3>4. file' # NoFile
      BY <3>1, NoFileAssumption DEF TypeOK
    <3>. QED BY <1>0, <1>1, <2>1, <3>3, <3>4, SafeBegin DEF SafeInv
  <2>. QED BY <2>2, <2>3
<1>2. CASE UNCHANGED <<file, job>>
  BY <1>0, <1>2, SafeFrame
<1>. QED BY <1>1, <1>2 DEF BeginEnable

\* The user never chooses pano's address, and acts while no process works.
LEMMA SafeUser ==
  ASSUME TypeOK, SafeInv, User
  PROVE  SafeInv'
<1>1. ASSUME NEW s \in Service, ServiceGone(s) PROVE SafeInv'
  BY <1>1 DEF ServiceGone, SafeInv, WriteAhead, SnapshotPredatesPano, Exclusive,
     WorksOnFile, Settled, Cur
<1>2. ASSUME NEW s \in Service, NEW c \in Choice, UserEdits(s, c) \/ ServiceAdded(s, c)
      PROVE  SafeInv'
  <2>1. Quiet /\ UNCHANGED <<file, job>>
    BY <1>2 DEF UserEdits, ServiceAdded
  <2>2. /\ live' = [live EXCEPT ![s] = c] /\ ~Pointing(c)
        /\ present' \subseteq present \cup {s}
    BY <1>2, ConstantsAssumption DEF UserEdits, ServiceAdded
  <2>3. WriteAhead' /\ SnapshotPredatesPano'
    BY <2>1, <2>2 DEF SafeInv, WriteAhead, SnapshotPredatesPano, TypeOK
  <2>4. \A a \in Actor : job'[a] = Idle
    BY <2>1 DEF Quiet
  <2>5. Exclusive' /\ WorksOnFile' /\ \A a \in Actor : Settled(a)'
    BY <2>4 DEF Exclusive, WorksOnFile, Settled, Restoring, Kind, Idle
  <2>. QED BY <2>3, <2>5 DEF SafeInv
<1>. QED BY <1>1, <1>2 DEF User

\* Every step, in the middle of a job or not, keeps the invariant.
LEMMA SafeNext == ~Overlap /\ TypeOK /\ SafeInv /\ [Next]_vars => SafeInv'
<1>. SUFFICES ASSUME ~Overlap, TypeOK, SafeInv, [Next]_vars PROVE SafeInv'
  OBVIOUS
<1>0. JobsOK
  BY DEF TypeOK, JobsOK
<1>d. \A d \in Life : Daemon(d) \in Actor /\ Watchdog(d) \in Actor
  BY DEF Daemon, Watchdog, Actor, Role
<1>1. ASSUME NEW d \in Life, DaemonStep(d) PROVE SafeInv'
  <2>1. CASE Listen(d) \/ Stop(d) \/ SpawnWatchdog(d)
             \/ \E r \in {"on", "off", "quit"} : Request(d, r)
    BY <2>1, SafeFrame DEF Listen, Stop, SpawnWatchdog, Request, env
  <2>2. CASE Start(d) \/ ExitRestore(d) \/ \E r \in {"off", "quit"} : Disable(d, r)
    <3>1. \E k \in Kind : BeginRestore(Daemon(d), k)
      BY <2>2 DEF Start, ExitRestore, Disable, Kind
    <3>2. UNCHANGED <<live, present, file>>
      BY <2>2 DEF Start, ExitRestore, Disable, env
    <3>. QED BY <1>0, <1>d, <3>1, <3>2, SafeBeginRestore
  <2>3. CASE Die(d) \/ EndEnable(d)
    BY <1>0, <1>d, <2>3, SafeStop DEF Die, EndEnable, env
  <2>4. CASE BeginEnable(d)
    BY <2>4, SafeBeginEnable
  <2>. QED BY <1>1, <2>1, <2>2, <2>3, <2>4 DEF DaemonStep
<1>2. ASSUME NEW d \in Life, WatchdogWakes(d) PROVE SafeInv'
  BY <1>0, <1>d, <1>2, SafeBeginRestore DEF WatchdogWakes, Kind, env
<1>3. ASSUME NEW d \in Life, WatchdogKilled(d) PROVE SafeInv'
  BY <1>0, <1>d, <1>3, SafeStop DEF WatchdogKilled, env
<1>4. ASSUME NEW a \in Actor, Command(a) PROVE SafeInv'
  BY <1>4, SafeEnableCommand, SafeRestoreCommand, SafeEndRestore DEF Command
<1>5. CASE User
  BY <1>5, SafeUser
<1>6. CASE UNCHANGED vars
  BY <1>6, SafeFrame DEF vars
<1>. QED BY <1>1, <1>2, <1>3, <1>4, <1>5, <1>6 DEF Next

\* The invariant holds in every reachable state.
LEMMA SafeAlways == ~Overlap => (Spec => []SafeInv)
<1>. SUFFICES ASSUME ~Overlap PROVE Spec => []SafeInv
  OBVIOUS
<1>1. TypeOK /\ SafeInv /\ [Next]_vars => SafeInv'
  BY SafeNext
<1>. QED BY <1>1, SafeInit, TypeCorrect, PTL DEF Spec

\* No crash, failing command, retry or restart, at any point of any number of
\* daemon lives, leaves a service sending traffic to pano that is not in a
\* state file on disk.
THEOREM WriteAheadHolds == ~Overlap => (Spec => []WriteAhead)
<1>1. SafeInv => WriteAhead
  BY DEF SafeInv
<1>. QED BY <1>1, SafeAlways, PTL

\* And what that file would put back never points at pano.
THEOREM SnapshotPredatesPanoHolds == ~Overlap => (Spec => []SnapshotPredatesPano)
<1>1. SafeInv => SnapshotPredatesPano
  BY DEF SafeInv
<1>. QED BY <1>1, SafeAlways, PTL

-----------------------------------------------------------------------------
(* SysProxy implements SysProxyPromise.                                    *)

\* A setting points at pano just when its effect does.
LEMMA InnocentLook ==
  ASSUME NEW v \in Setting
  PROVE  /\ Effective(v) \in Look
         /\ Promise!Innocent(Effective(v)) <=> ~Pointing(v)
<1>1. Effective(v) \in Look
  BY DEF Effective, Look, Setting, Slot
<1>2. Promise!Innocent(Effective(v)) <=> ~Pointing(v)
  BY ConstantsAssumption DEF Promise!Innocent, Effective, Pointing, Setting, Slot
<1>. QED BY <1>1, <1>2

\* The proxy is owned while there is a file.
LEMMA OwnedIsFile ==
  ASSUME TypeOK
  PROVE  Promise!Owned <=> file # NoFile
<1>1. ASSUME file # NoFile PROVE Saved # NoFile
  <2>1. IsSnapshot(file)
    BY <1>1 DEF TypeOK
  <2>2. \A s \in DOMAIN file : Effective(file[s]) \in Look
    BY <2>1, InnocentLook DEF IsSnapshot
  <2>3. Saved \in [DOMAIN file -> Look]
    BY <1>1, <2>2 DEF Saved
  <2>. QED BY <2>1, <2>3, NoFileAssumption DEF IsSnapshot
<1>2. file = NoFile => Saved = NoFile
  BY DEF Saved
<1>. QED BY <1>1, <1>2 DEF Promise!Owned

\* Pano owns nothing at first.
LEMMA PromiseInit == Init => Promise!Init
<1>. SUFFICES ASSUME Init PROVE Promise!Init
  OBVIOUS
<1>1. \A s \in Service : Promise!Innocent(Effective(live[s]))
  BY InnocentLook, ConstantsAssumption DEF Init
<1>. QED BY <1>1 DEF Promise!Init, Init, Shown, Saved

\* A command is a Fiddle: it changes a service of the file, if any.
LEMMA PromiseCommand ==
  ASSUME TypeOK, SafeInv, NEW a \in Actor, job[a] # Idle, job[a].todo # {},
         UNCHANGED <<file, present>>,
         \A t \in Service \ {Cur(a)} : live'[t] = live[t]
  PROVE  Promise!Fiddle
<1>1. file # NoFile /\ Cur(a) \in DOMAIN file
  <2>1. JobsOK /\ IsJob(job[a])
    BY DEF TypeOK, JobsOK
  <2>. QED BY <2>1, CurInTodo DEF SafeInv, WorksOnFile, IsJob
<1>2. Promise!Owned
  BY <1>1, OwnedIsFile
<1>3. Saved' = Saved /\ DOMAIN Saved = DOMAIN file
  BY <1>1 DEF Saved
<1>4. DOMAIN Shown = present /\ DOMAIN Shown' = present
  BY DEF Shown
<1>5. \A s \in present \ DOMAIN file : Shown'[s] = Shown[s]
  BY <1>1 DEF Shown, TypeOK
<1>. QED BY <1>2, <1>3, <1>4, <1>5 DEF Promise!Fiddle

\* Deleting the file is a Release.
LEMMA PromiseEndRestore ==
  ASSUME TypeOK, SafeInv, NEW a \in Actor, EndRestore(a)
  PROVE  Promise!Release \/ UNCHANGED <<Shown, Saved>>
<1>1. job[a].kind \in Restoring /\ job[a].todo = {} /\ UNCHANGED <<live, present>>
  BY DEF EndRestore, AllDone, env
<1>2. job[a] # Idle
  BY <1>1 DEF Idle, Restoring, Kind
<1>3. file # NoFile
  BY <1>2 DEF SafeInv, WorksOnFile
<1>4. CASE UNCHANGED file
  BY <1>1, <1>4 DEF Shown, Saved
<1>5. CASE file' = NoFile /\ ~job[a].bad
  <2>1. \A s \in present \cap DOMAIN file : Effective(live[s]) = Effective(file[s])
    BY <1>1, <1>5 DEF SafeInv, Settled
  <2>2. /\ Promise!Owned /\ Saved' = NoFile /\ UNCHANGED Shown
        /\ DOMAIN Shown = present /\ DOMAIN Saved = DOMAIN file
    BY <1>1, <1>3, <1>5, OwnedIsFile DEF Shown, Saved
  <2>3. \A s \in present \cap DOMAIN file : Shown[s] = Saved[s]
    BY <1>3, <2>1 DEF Shown, Saved
  <2>. QED BY <2>2, <2>3 DEF Promise!Release
<1>. QED BY <1>4, <1>5 DEF EndRestore

\* Enable takes ownership with the file it writes, or keeps the one there is.
LEMMA PromiseBeginEnable ==
  ASSUME TypeOK, SafeInv, NEW d \in Life, BeginEnable(d)
  PROVE  Promise!Acquire \/ UNCHANGED <<Shown, Saved>>
<1>1. UNCHANGED <<live, present>>
  BY DEF BeginEnable, env
<1>2. CASE UNCHANGED file
  BY <1>1, <1>2 DEF Shown, Saved
<1>3. CASE file # NoFile /\ file' = Captured
  BY <1>1, <1>3 DEF Shown, Saved, Captured
<1>4. CASE file = NoFile /\ present # {} /\ file' = Captured
  <2>1. file' = [s \in present |-> live[s]]
    BY <1>4 DEF Captured
  <2>2. file' # NoFile
    BY <2>1, NoFileAssumption DEF TypeOK
  <2>3. Saved' = Shown /\ UNCHANGED Shown
    BY <1>1, <2>1, <2>2 DEF Saved, Shown
  <2>4. ~Promise!Owned /\ DOMAIN Shown # {}
    BY <1>4, OwnedIsFile DEF Shown
  <2>. QED BY <2>3, <2>4 DEF Promise!Acquire
<1>. QED BY <1>2, <1>3, <1>4 DEF BeginEnable

\* What the user does is allowed by the promise.
LEMMA PromiseUser ==
  ASSUME TypeOK, User
  PROVE  Promise!Next \/ UNCHANGED <<Shown, Saved>>
<1>1. ASSUME NEW s \in Service, ServiceGone(s) PROVE Promise!UserRemoves(s)
  <2>1. UNCHANGED <<live, file>> /\ present' = present \ {s}
    BY <1>1 DEF ServiceGone
  <2>. QED BY <2>1 DEF Promise!UserRemoves, Shown, Saved
<1>2. ASSUME NEW s \in Service, NEW c \in Choice, UserEdits(s, c) \/ ServiceAdded(s, c)
      PROVE  Promise!UserSets(s)
  <2>1. /\ UNCHANGED file /\ live' = [live EXCEPT ![s] = c]
        /\ present' = present \cup {s}
    BY <1>2 DEF UserEdits, ServiceAdded
  <2>2. Promise!Innocent(Effective(c))
    BY InnocentLook, ConstantsAssumption
  <2>3. live'[s] = c /\ \A t \in Service \ {s} : live'[t] = live[t]
    BY <2>1 DEF TypeOK
  <2>4. Saved' = Saved
    BY <2>1 DEF Saved
  <2>5. DOMAIN Shown = present /\ DOMAIN Shown' = present \cup {s}
    BY <2>1 DEF Shown
  <2>6. Shown'[s] = Effective(c)
    BY <2>1, <2>3 DEF Shown
  <2>7. \A t \in present \ {s} : Shown'[t] = Shown[t]
    BY <2>1, <2>3 DEF Shown, TypeOK
  <2>. QED BY <2>2, <2>4, <2>5, <2>6, <2>7 DEF Promise!UserSets
<1>. QED BY <1>1, <1>2 DEF User, Promise!Next

\* Every step is one of the promise or leaves what is shown and saved alone.
LEMMA PromiseNext ==
  TypeOK /\ SafeInv /\ [Next]_vars => [Promise!Next]_<<Shown, Saved>>
<1>. SUFFICES ASSUME TypeOK, SafeInv, [Next]_vars
              PROVE  Promise!Next \/ UNCHANGED <<Shown, Saved>>
  OBVIOUS
<1>0. UNCHANGED <<live, present, file>> => UNCHANGED <<Shown, Saved>>
  BY DEF Shown, Saved
<1>1. ASSUME NEW d \in Life, DaemonStep(d) \/ WatchdogWakes(d) \/ WatchdogKilled(d)
      PROVE  Promise!Next \/ UNCHANGED <<Shown, Saved>>
  <2>1. CASE BeginEnable(d)
    BY <2>1, PromiseBeginEnable DEF Promise!Next
  <2>2. CASE ~BeginEnable(d)
    <3>1. UNCHANGED <<live, present, file>>
      BY <1>1, <2>2 DEF DaemonStep, Start, Listen, Stop, ExitRestore, Die, Request,
         Disable, EndEnable, SpawnWatchdog, WatchdogWakes, WatchdogKilled, env
    <3>. QED BY <1>0, <3>1
  <2>. QED BY <2>1, <2>2
<1>2. ASSUME NEW a \in Actor, EnableCommand(a) \/ RestoreCommand(a)
      PROVE  Promise!Fiddle
  <2>1. /\ UNCHANGED <<file, present>>
        /\ \A t \in Service \ {Cur(a)} : live'[t] = live[t]
    BY <1>2 DEF EnableCommand, RestoreCommand, env, TypeOK
  <2>2. job[a].todo # {} /\ job[a] # Idle
    <3>1. job[a].kind \in Kind /\ job[a].todo # {}
      BY <1>2 DEF EnableCommand, RestoreCommand, Working, Restoring, Kind
    <3>2. Idle.kind \notin Kind
      BY DEF Idle, Kind
    <3>. QED BY <3>1, <3>2
  <2>. QED BY <2>1, <2>2, PromiseCommand
<1>3. ASSUME NEW a \in Actor, EndRestore(a)
      PROVE  Promise!Release \/ UNCHANGED <<Shown, Saved>>
  BY <1>3, PromiseEndRestore
<1>4. CASE User
  BY <1>4, PromiseUser
<1>5. CASE UNCHANGED vars
  BY <1>0, <1>5 DEF vars
<1>. QED BY <1>1, <1>2, <1>3, <1>4, <1>5 DEF Next, Command, Promise!Next

\* The manager, its daemons and watchdogs, crashing and failing as they may,
\* implement the promise: pano takes the proxy over from the settings it
\* remembers, and gives it back only when every service behaves as it did.
THEOREM ImplementsPromise == ~Overlap => (Spec => KeepsPromise)
<1>. SUFFICES ASSUME ~Overlap PROVE Spec => KeepsPromise
  OBVIOUS
<1>1. TypeOK /\ SafeInv /\ [Next]_vars => [Promise!Next]_<<Shown, Saved>>
  BY PromiseNext
<1>2. Spec => []SafeInv
  BY SafeAlways
<1>. QED BY <1>1, <1>2, PromiseInit, TypeCorrect, PTL DEF Spec, KeepsPromise, Promise!Spec

\* What the promise is worth: it leaves no service that exists sending traffic
\* to a pano that does not know how the service looked, and no memory that
\* would put pano's own address back.
THEOREM PromiseIsSafe == Promise!Spec => []Promise!NeverStranded
<1>. USE DEF Promise!NeverStranded
<1>1. Promise!Init => Promise!NeverStranded
  BY DEF Promise!Init, Promise!Owned
<1>2. Promise!NeverStranded /\ [Promise!Next]_<<Shown, Saved>> => Promise!NeverStranded'
  <2>. SUFFICES ASSUME Promise!NeverStranded, [Promise!Next]_<<Shown, Saved>>
       PROVE  Promise!NeverStranded'
    OBVIOUS
  <2>1. CASE Promise!Acquire
    BY <2>1 DEF Promise!Acquire, Promise!Owned, Promise!Innocent
  <2>2. CASE Promise!Fiddle
    BY <2>2 DEF Promise!Fiddle, Promise!Owned, Promise!Innocent
  <2>3. CASE Promise!Release
    BY <2>3 DEF Promise!Release, Promise!Owned, Promise!Innocent
  <2>4. ASSUME NEW s \in Service, Promise!UserSets(s) PROVE Promise!NeverStranded'
    BY <2>4 DEF Promise!UserSets, Promise!Owned, Promise!Innocent
  <2>5. ASSUME NEW s \in Service, Promise!UserRemoves(s) PROVE Promise!NeverStranded'
    BY <2>5 DEF Promise!UserRemoves, Promise!Owned, Promise!Innocent
  <2>6. CASE UNCHANGED <<Shown, Saved>>
    BY <2>6 DEF Promise!Owned, Promise!Innocent
  <2>. QED BY <2>1, <2>2, <2>3, <2>4, <2>5, <2>6 DEF Promise!Next
<1>. QED BY <1>1, <1>2, PTL DEF Promise!Spec

-----------------------------------------------------------------------------
(* The windows and the daemon. *)

LEMMA AttachTypeInit == A!Init => A!TypeOK
<1>. SUFFICES ASSUME A!Init PROVE A!TypeOK
  OBVIOUS
<1>1. /\ reg \in [Windows -> {"no", "yes", "off", "out"}] /\ own \in [Windows -> BOOLEAN]
      /\ ui \in [Windows -> {"closed", "open", "killed"} \cup A!Exits]
  BY DEF A!Init
<1>2. /\ said \in [Windows -> {"", "off", "gone", "on"}]
      /\ calls \in [Windows -> SUBSET A!Kinds] /\ answers \in [Windows -> SUBSET A!Answer]
  BY DEF A!Init
<1>. QED  BY <1>1, <1>2 DEF A!Init, A!TypeOK

\* Handled answers a call of a window that is still there to hear it.
LEMMA HandledTypes ==
  ASSUME A!TypeOK, NEW w \in Windows, NEW kind \in A!Kinds, NEW ok \in BOOLEAN,
         A!Handled(w, kind, ok)
  PROVE  /\ calls' \in [Windows -> SUBSET A!Kinds]
         /\ answers' \in [Windows -> SUBSET A!Answer]
<1>1. calls' = [calls EXCEPT ![w] = @ \ {kind}]
  BY DEF A!Handled
<1>2. \/ answers' = answers
      \/ answers' = [answers EXCEPT ![w] = @ \cup {<<kind, ok>>}]
  BY DEF A!Handled
<1>3. <<kind, ok>> \in A!Answer
  BY DEF A!Answer
<1>4. calls \in [Windows -> SUBSET A!Kinds] /\ answers \in [Windows -> SUBSET A!Answer]
  BY DEF A!TypeOK
<1>5. calls' \in [Windows -> SUBSET A!Kinds]
  BY <1>1, <1>4
<1>6. answers' \in [Windows -> SUBSET A!Answer]
  BY <1>2, <1>3, <1>4
<1>. QED  BY <1>5, <1>6

LEMMA LeaveTypes ==
  ASSUME A!TypeOK, NEW w \in Windows, NEW how \in A!Exits \cup {"killed"}, A!Leave(w, how)
  PROVE  A!TypeOK'
BY DEF A!TypeOK, A!Leave, A!daemon

LEMMA AttachTypeNext == A!TypeOK /\ [A!Next]_attach => A!TypeOK'
<1>. SUFFICES ASSUME A!TypeOK, [A!Next]_attach PROVE A!TypeOK'
  OBVIOUS
<1>1. ASSUME NEW w \in Windows, A!WindowStep(w) PROVE A!TypeOK'
  <2>1. CASE A!Open(w)
    BY <2>1 DEF A!TypeOK, A!Open, A!daemon
  <2>2. ASSUME NEW kind \in A!Kinds, A!Choose(w, kind) PROVE A!TypeOK'
    BY <2>2 DEF A!TypeOK, A!Choose, A!daemon, A!window
  <2>3. ASSUME NEW kind \in A!Kinds, A!Answered(w, kind) PROVE A!TypeOK'
    <3>1. (IF kind = "off" THEN "off" ELSE "detach") \in A!Exits
      BY DEF A!Exits
    <3>2. CASE A!Leave(w, IF kind = "off" THEN "off" ELSE "detach")
      BY <3>1, <3>2, LeaveTypes
    <3>3. CASE /\ answers' = [answers EXCEPT ![w] = @ \ {<<kind, FALSE>>}]
               /\ UNCHANGED <<A!daemon, A!window, calls>>
      BY <3>3 DEF A!TypeOK, A!daemon, A!window
    <3>. QED  BY <2>3, <3>2, <3>3 DEF A!Answered
  <2>4. CASE A!Interrupt(w) \/ A!Kill(w) \/ A!Lost(w)
    BY <2>4, LeaveTypes DEF A!Interrupt, A!Kill, A!Lost, A!Exits
  <2>5. CASE A!Say(w)
    BY <2>5 DEF A!TypeOK, A!Say, A!daemon, A!Exits
  <2>. QED  BY <1>1, <2>1, <2>2, <2>3, <2>4, <2>5 DEF A!WindowStep
<1>2. ASSUME NEW w \in Windows, A!Serve(w) PROVE A!TypeOK'
  <2>0. "off" \in A!Kinds /\ "disown" \in A!Kinds
    BY DEF A!Kinds
  <2>1. CASE A!Register(w)
    BY <2>1 DEF A!TypeOK, A!Register, A!window
  <2>2. CASE A!Release(w)
    BY <2>2 DEF A!TypeOK, A!Release, A!window
  <2>6. CASE A!TurnOff(w)
    BY <2>6 DEF A!TypeOK, A!TurnOff, A!Stopped, A!window
  <2>3. CASE A!HandleOff(w)
    BY <2>0, <2>3, HandledTypes DEF A!TypeOK, A!HandleOff, A!Stopped, A!window
  <2>4. CASE A!HandleDisown(w)
    BY <2>0, <2>4, HandledTypes DEF A!TypeOK, A!HandleDisown, A!window
  <2>5. CASE A!Refuse(w)
    <3>1. PICK kind \in calls[w] : A!Handled(w, kind, FALSE)
      BY <2>5 DEF A!Refuse
    <3>2. kind \in A!Kinds
      BY DEF A!TypeOK
    <3>3. /\ calls' \in [Windows -> SUBSET A!Kinds]
          /\ answers' \in [Windows -> SUBSET A!Answer]
      BY <3>1, <3>2, HandledTypes
    <3>. QED  BY <2>5, <3>3 DEF A!TypeOK, A!Refuse, A!daemon, A!window
  <2>. QED  BY <1>2, <2>1, <2>2, <2>3, <2>4, <2>5, <2>6 DEF A!Serve
<1>3. CASE A!Signal
  BY <1>3 DEF A!TypeOK, A!Signal, A!Stopped, A!window
<1>4. CASE A!Shutdown
  BY <1>4 DEF A!TypeOK, A!Shutdown, A!Deadline, A!CtlDown, A!End, A!window
<1>5. CASE UNCHANGED attach
  BY <1>5 DEF A!TypeOK, attach
<1>. QED  BY <1>1, <1>2, <1>3, <1>4, <1>5 DEF A!Next

\* The owner is a window whose attachment is open; a daemon that is up has an
\* owner from the first own window on, or is being turned off for one, unless a
\* disown was carried out; and a disown that was carried out in time leaves no
\* owner whose end could stop the daemon, and none whose end is about to.
OwnerInv ==
  /\ kept => owner = Nobody /\ why # "owner" /\ \A w \in Windows : reg[w] # "off"
  /\ \A w \in Windows : reg[w] = "off" => A!Ended(w)
  /\ stage = "up" => why = ""
  /\ \A w \in Windows : ui[w] = "closed" => reg[w] = "no"
  /\ owner # Nobody => reg[owner] = "yes" /\ own[owner]
  /\ stage = "up" /\ ~kept /\ (\E w \in Windows : own[w] /\ reg[w] # "no")
       => owner # Nobody \/ \E w \in Windows : reg[w] = "off"

LEMMA OwnerInit == A!Init => OwnerInv
BY DEF A!Init, OwnerInv

LEMMA OwnerNext == A!TypeOK /\ OwnerInv /\ [A!Next]_attach => OwnerInv'
<1>. SUFFICES ASSUME A!TypeOK, OwnerInv, [A!Next]_attach PROVE OwnerInv'
  OBVIOUS
<1>1. ASSUME NEW w \in Windows, A!WindowStep(w) PROVE OwnerInv'
  <2>1. CASE A!Open(w)
    BY <2>1 DEF A!TypeOK, OwnerInv, A!Open, A!daemon, A!Ended, A!Exits
  <2>2. CASE UNCHANGED <<A!daemon, own, ui>>
    BY <2>2 DEF OwnerInv, A!daemon, A!Ended
  <2>3. ASSUME NEW how, how # "closed", A!Leave(w, how) PROVE OwnerInv'
    BY <2>3 DEF A!TypeOK, OwnerInv, A!Leave, A!Running, A!daemon, A!Ended, A!Exits
  <2>4. ASSUME NEW kind \in A!Kinds, A!Choose(w, kind) \/ A!Answered(w, kind)
        PROVE  OwnerInv'
    <3>1. \/ UNCHANGED <<A!daemon, own, ui>>
          \/ A!Leave(w, IF kind = "off" THEN "off" ELSE "detach")
      BY <2>4 DEF A!Choose, A!Answered, A!window
    <3>2. (IF kind = "off" THEN "off" ELSE "detach") # "closed"
      OBVIOUS
    <3>. QED  BY <2>2, <2>3, <3>1, <3>2
  <2>5. CASE A!Interrupt(w) \/ A!Kill(w) \/ A!Lost(w)
    BY <2>3, <2>5 DEF A!Interrupt, A!Kill, A!Lost
  <2>6. CASE A!Say(w)
    BY <2>2, <2>6 DEF A!Say
  <2>. QED  BY <1>1, <2>1, <2>4, <2>5, <2>6 DEF A!WindowStep
<1>2. ASSUME NEW w \in Windows, A!Serve(w) PROVE OwnerInv'
  <2>1. CASE A!Register(w)
    <3>1. CASE own[w]
      BY <2>1, <3>1, NobodyAssumption DEF A!TypeOK, OwnerInv, A!Ended, A!Register, A!window
    <3>2. CASE ~own[w]
      BY <2>1, <3>2 DEF A!TypeOK, OwnerInv, A!Ended, A!Register, A!window
    <3>. QED  BY <3>1, <3>2
  <2>2. CASE A!Release(w)
    <3>1. CASE owner = w
      BY <2>2, <3>1, NobodyAssumption DEF A!TypeOK, OwnerInv, A!Ended, A!Release, A!window
    <3>2. CASE owner # w
      BY <2>2, <3>2 DEF A!TypeOK, OwnerInv, A!Ended, A!Release, A!window
    <3>. QED  BY <3>1, <3>2
  <2>6. CASE A!TurnOff(w)
    BY <2>6 DEF A!TypeOK, OwnerInv, A!Ended, A!TurnOff, A!Stopped, A!window
  <2>3. CASE A!HandleOff(w)
    BY <2>3 DEF A!TypeOK, OwnerInv, A!Ended, A!HandleOff, A!Stopped, A!window
  <2>4. CASE A!HandleDisown(w)
    BY <2>4 DEF A!TypeOK, OwnerInv, A!Ended, A!HandleDisown, A!window
  <2>5. CASE A!Refuse(w)
    BY <2>5 DEF OwnerInv, A!Ended, A!Refuse, A!daemon, A!window
  <2>. QED  BY <1>2, <2>1, <2>2, <2>3, <2>4, <2>5, <2>6 DEF A!Serve
<1>3. CASE A!Signal
  BY <1>3 DEF A!TypeOK, OwnerInv, A!Ended, A!Signal, A!Stopped, A!window
<1>4. CASE A!Shutdown
  <2>1. stage' # "up" /\ UNCHANGED <<owner, reg, kept, why, own, ui>>
    BY <1>4 DEF A!Shutdown, A!Deadline, A!CtlDown, A!End, A!window
  <2>. QED  BY <2>1 DEF OwnerInv, A!Ended
<1>5. CASE UNCHANGED attach
  BY <1>5 DEF OwnerInv, A!Ended, attach
<1>. QED  BY <1>1, <1>2, <1>3, <1>4, <1>5 DEF A!Next

\* At rest an owner's end has been noticed, so an owner is still running.
LEMMA OwnerInvRules == A!TypeOK /\ OwnerInv => OwnerRule
<1>. SUFFICES ASSUME A!TypeOK, OwnerInv PROVE OwnerRule
  OBVIOUS
<1>1. ASSUME A!Resting, stage = "up", ~kept, NEW w \in Windows, own[w], A!Ended(w)
      PROVE  owner # Nobody /\ A!Running(owner)
  <2>1. owner # Nobody /\ owner \in Windows
    BY <1>1 DEF A!TypeOK, OwnerInv, A!Resting
  <2>2. ui[owner] # "closed" /\ ~A!Ended(owner)
    BY <1>1, <2>1 DEF A!Resting, OwnerInv
  <2>. QED  BY <2>1, <2>2 DEF A!TypeOK, A!Ended, A!Running
<1>2. A!DisownKeeps
  BY DEF OwnerInv, A!DisownKeeps
<1>. QED  BY <1>1, <1>2 DEF OwnerRule, A!AppMode

\* The state of windows and daemon is well typed in every reachable state, for
\* any number of windows (daemon/lifecycle.go, tui/quit.go).
THEOREM AttachTypeCorrect == EndingsSpec => []A!TypeOK
<1>1. EndingsInit => A!TypeOK
  BY AttachTypeInit DEF EndingsInit
<1>2. A!TypeOK /\ [EndingsNext]_<<part, vars, attach>> => A!TypeOK'
  BY AttachTypeNext DEF EndingsNext
<1>. QED  BY <1>1, <1>2, PTL DEF EndingsSpec

\* The daemon goes with its owner's window, however that went, unless it was
\* disowned; once disowned, no window's end stops it (daemon/lifecycle.go).
THEOREM OwnerRuleHolds == EndingsSpec => []OwnerRule
<1>1. EndingsInit => OwnerInv
  BY OwnerInit DEF EndingsInit
<1>2. A!TypeOK /\ OwnerInv /\ [EndingsNext]_<<part, vars, attach>> => OwnerInv'
  BY OwnerNext DEF EndingsNext
<1>. QED  BY <1>1, <1>2, OwnerInvRules, AttachTypeCorrect, PTL DEF EndingsSpec
=============================================================================
