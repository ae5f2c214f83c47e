------------------------------ MODULE Endings ------------------------------
(***************************************************************************)
(* How things end: the system proxy behind a daemon that died (SysProxy),  *)
(* and the daemon behind its windows (Attach).  The two share no state, so *)
(* a behaviour is of one of them, part, and the other stays as it began.   *)
(***************************************************************************)
EXTENDS SysProxy

CONSTANTS
  Windows,  \* terminal UIs that may be opened, each once
  Nobody    \* the owner of a daemon in background mode

\* An owner's token is never 0 (lifecycle.go Attach).
ASSUME NobodyAssumption == Nobody \notin Windows

VARIABLES part, stage, late, owner, reg, kept, why, own, ui, said, calls, answers

attach == <<stage, late, owner, reg, kept, why, own, ui, said, calls, answers>>

A == INSTANCE Attach WITH phase <- stage

EndingsInit ==
  /\ Init /\ A!Init
  /\ part = "proxy" \/ (part = "windows" /\ present = Service)

EndingsNext ==
  \/ part = "proxy" /\ Next /\ UNCHANGED <<part, attach>>
  \/ part = "windows" /\ A!Next /\ UNCHANGED <<part, vars>>

\* The daemon goes with its owner's window, however that went, unless it was
\* disowned; once disowned, before an owner's end was noticed, no window's end
\* stops it (daemon/lifecycle.go).
OwnerRule == A!AppMode /\ A!DisownKeeps

\* A daemon that is stopping comes to its end whatever its windows do, and
\* leaves none of them behind (daemon.go run, tui/model.go attachLostMsg).
StopEnds == A!StopEnds

EndingsSpec ==
  EndingsInit /\ [][EndingsNext]_<<part, vars, attach>> /\ Fairness /\ A!Fairness
=============================================================================
