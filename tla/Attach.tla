------------------------------- MODULE Attach -------------------------------
(***************************************************************************)
(* Terminal UIs and the life of the daemon: control hAttach, hDisown and   *)
(* hOff, daemon/lifecycle.go, the tail of daemon.run, and on the other     *)
(* side the quit overlay of tui/quit.go, the messages that end the UI, and *)
(* the line cli/ui.go prints when it has ended.                            *)
(*                                                                         *)
(* Time is kept only where the code waits: the 8 s of shutdown run out     *)
(* while an attachment is open, and waitStopped gives up on a daemon that  *)
(* has nothing left to do.                                                 *)
(***************************************************************************)
CONSTANTS Windows,    \* terminal UIs that may be opened, each once
          Nobody      \* owner = 0: background mode

VARIABLES
  phase,      \* of daemon.run: "up", "stopping" (ctl.Shutdown), "cutting", "gone"
  late,       \* sctx, the 8 s of shutdown, has expired
  owner,      \* lifecycle.owner, by window instead of by token
  reg,        \* [window -> "no" | "yes" | "off" | "out"] the daemon's end of
              \* hAttach; "off": an owner's end was noticed and Off is under way
  kept,       \* a disown was carried out before any owner's end was noticed,
              \* and no owner has attached since
  why,        \* what stopped the daemon: "" | "asked" | "owner"
  own,        \* [window -> BOOLEAN] Options.Own
  ui,         \* [window -> "closed" | "open" | an Exit, or "killed"]
  said,       \* [window -> what runUI printed: "" | "off" | "gone" | "on"]
  calls,      \* [window -> SUBSET {"off", "disown"}] sent, not yet handled
  answers     \* [window -> SUBSET Answer] under way back, with success or not

daemon == <<phase, late, owner, reg, kept, why>>
window == <<own, ui, said>>
attach == <<daemon, window, calls, answers>>

Kinds == {"off", "disown"}
Answer == Kinds \X BOOLEAN
Exits == {"interrupt", "off", "detach", "gone"}

\* The connection lasts as long as the program runs.
Running(w) == ui[w] = "open"
Ended(w) == ui[w] \in Exits \cup {"killed"}

TypeOK ==
  /\ phase \in {"up", "stopping", "cutting", "gone"} /\ late \in BOOLEAN
  /\ owner \in Windows \cup {Nobody} /\ kept \in BOOLEAN
  /\ reg \in [Windows -> {"no", "yes", "off", "out"}] /\ own \in [Windows -> BOOLEAN]
  /\ ui \in [Windows -> {"closed", "open", "killed"} \cup Exits]
  /\ said \in [Windows -> {"", "off", "gone", "on"}]
  /\ calls \in [Windows -> SUBSET Kinds]
  /\ answers \in [Windows -> SUBSET Answer]
  /\ why \in {"", "asked", "owner"}

Init ==
  /\ phase = "up" /\ late = FALSE /\ owner = Nobody /\ kept = FALSE /\ why = ""
  /\ reg = [w \in Windows |-> "no"] /\ own = [w \in Windows |-> FALSE]
  /\ ui = [w \in Windows |-> "closed"] /\ said = [w \in Windows |-> ""]
  /\ calls = [w \in Windows |-> {}] /\ answers = [w \in Windows |-> {}]

-----------------------------------------------------------------------------
(* The window. *)

\* tui.Run, with openAttach in Model.Init: returns once the headers are here,
\* which hAttach flushes before it registers.
Open(w) ==
  /\ ui[w] = "closed" /\ phase = "up"
  /\ \E o \in BOOLEAN : own' = [own EXCEPT ![w] = o]
  /\ ui' = [ui EXCEPT ![w] = "open"]
  /\ UNCHANGED <<daemon, said, calls, answers>>

\* `q`, then `q` (doOff) or `b` (doDisown) in the overlay, which stays on
\* screen: the other key may follow before the answer is here.
Choose(w, kind) ==
  /\ Running(w) /\ kind \notin calls[w] /\ answers[w] \cap ({kind} \X BOOLEAN) = {}
  /\ calls' = [calls EXCEPT ![w] = @ \cup {kind}]
  /\ UNCHANGED <<daemon, window, answers>>

\* The program ends; what is still under way to it is lost.
Leave(w, how) ==
  /\ Running(w)
  /\ ui' = [ui EXCEPT ![w] = how] /\ answers' = [answers EXCEPT ![w] = {}]
  /\ UNCHANGED <<daemon, own, said, calls>>

\* offDoneMsg and disownDoneMsg: an error leaves the overlay, no more.
Answered(w, kind) ==
  \/ /\ <<kind, TRUE>> \in answers[w]
     /\ Leave(w, IF kind = "off" THEN "off" ELSE "detach")
  \/ /\ <<kind, FALSE>> \in answers[w]
     /\ answers' = [answers EXCEPT ![w] = @ \ {<<kind, FALSE>>}]
     /\ UNCHANGED <<daemon, window, calls>>

\* ctrl+c; a closed terminal or kill -9.
Interrupt(w) == Leave(w, "interrupt")
Kill(w) == Leave(w, "killed")

\* attachLostMsg: nothing but the end of the process closes the stream.
Lost(w) == phase = "gone" /\ Leave(w, "gone")

\* Nothing the daemon still has to do would change whether it is up.
Resting ==
  \A w \in Windows : calls[w] = {} /\ (Ended(w) => reg[w] = "out")

\* runUI, after tui.Run: an owner's interrupt counts as off, and waitStopped
\* ends when the daemon is gone or its patience is, and says nothing of which.
Say(w) ==
  LET meant == IF ui[w] = "interrupt" /\ own[w] THEN "off" ELSE ui[w] IN
  /\ ui[w] \in Exits /\ said[w] = ""
  /\ meant = "off" => phase = "gone" \/ (phase = "up" /\ Resting)
  /\ said' = [said EXCEPT ![w] = IF meant \in {"off", "gone"} THEN meant ELSE "on"]
  /\ UNCHANGED <<daemon, own, ui, calls, answers>>

-----------------------------------------------------------------------------
(* The daemon. *)

\* Daemon.Off and Shutdown: cancel, once.
Stopped(reason) ==
  IF phase = "up" THEN phase' = "stopping" /\ why' = reason
  ELSE UNCHANGED <<phase, why>>

\* Daemon.Attach, called after the headers are flushed.
Register(w) ==
  /\ ui[w] # "closed" /\ reg[w] = "no" /\ phase # "gone"
  /\ reg' = [reg EXCEPT ![w] = "yes"]
  /\ owner' = IF own[w] THEN w ELSE owner
  /\ kept' = (kept /\ ~own[w])
  /\ UNCHANGED <<phase, late, why, window, calls, answers>>

\* Mutant: the end of a window that came as an owner turns pano off, even
\* when it has been disowned meanwhile.
ReleaseOwn(w) ==
  /\ reg[w] = "yes" /\ Ended(w) /\ phase # "gone"
  /\ reg' = [reg EXCEPT ![w] = IF own[w] THEN "off" ELSE "out"]
  /\ owner' = (IF owner = w THEN Nobody ELSE owner)
  /\ UNCHANGED <<phase, late, kept, why, window, calls, answers>>

\* The function Attach returned, run when hAttach ends, up to its unlock: an
\* owner is no owner any more, and goes on to turn pano off.
Release(w) ==
  /\ reg[w] = "yes" /\ Ended(w) /\ phase # "gone"
  /\ reg' = [reg EXCEPT ![w] = IF owner = w THEN "off" ELSE "out"]
  /\ owner' = (IF owner = w THEN Nobody ELSE owner)
  /\ UNCHANGED <<phase, late, kept, why, window, calls, answers>>

\* Off, for the owner that has left: the commands of Disable are over, and the
\* daemon is stopped without another look at the owner.  Had it been stopping
\* already, this would change nothing.
TurnOff(w) ==
  /\ reg[w] = "off" /\ phase # "gone"
  /\ reg' = [reg EXCEPT ![w] = "out"]
  /\ Stopped("owner")
  /\ UNCHANGED <<late, owner, kept, window, calls, answers>>

Handled(w, kind, ok) ==
  /\ calls' = [calls EXCEPT ![w] = @ \ {kind}]
  /\ answers' = IF Running(w) THEN [answers EXCEPT ![w] = @ \cup {<<kind, ok>>}] ELSE answers

\* hOff.
HandleOff(w) ==
  /\ "off" \in calls[w] /\ phase # "gone"
  /\ Stopped("asked")
  /\ Handled(w, "off", TRUE)
  /\ UNCHANGED <<late, owner, reg, kept, window>>

\* hDisown: whoever asks, and whatever the daemon is about.
HandleDisown(w) ==
  /\ "disown" \in calls[w] /\ phase # "gone"
  /\ owner' = Nobody
  /\ kept' = (kept \/ (phase = "up" /\ \A v \in Windows : reg[v] # "off"))
  /\ Handled(w, "disown", TRUE)
  /\ UNCHANGED <<phase, late, reg, why, window>>

\* The listener is closed: the call fails.
Refuse(w) ==
  /\ phase # "up"
  /\ \E kind \in calls[w] : Handled(w, kind, FALSE)
  /\ UNCHANGED <<daemon, window>>

\* SIGTERM, `pano off` or `pano stop` in another terminal.
Signal ==
  /\ phase = "up"
  /\ Stopped("asked")
  /\ UNCHANGED <<late, owner, reg, kept, window, calls, answers>>

\* http.Server.Shutdown waits for handlers; those of hAttach end only with
\* their window's connection, and after the commands of an Off.
Attached == {w \in Windows : ui[w] # "closed" /\ reg[w] # "out"}

Deadline ==
  /\ phase = "stopping" /\ ~late /\ \E w \in Attached : Running(w) \/ reg[w] = "off"
  /\ late' = TRUE
  /\ UNCHANGED <<phase, owner, reg, kept, why, window, calls, answers>>

\* Mutant: shutting down waits for the attached windows without a deadline.
CtlDownPatient ==
  /\ phase = "stopping" /\ Attached = {}
  /\ phase' = "cutting"
  /\ UNCHANGED <<late, owner, reg, kept, why, window, calls, answers>>

CtlDown ==
  /\ phase = "stopping" /\ (Attached = {} \/ late)
  /\ phase' = "cutting"
  /\ UNCHANGED <<late, owner, reg, kept, why, window, calls, answers>>

\* The proxy is drained or cut, holds are released, the process ends.
End ==
  /\ phase = "cutting"
  /\ phase' = "gone"
  /\ UNCHANGED <<late, owner, reg, kept, why, window, calls, answers>>

WindowStep(w) ==
  \/ Open(w)
  \/ \E kind \in Kinds : Choose(w, kind) \/ Answered(w, kind)
  \/ Interrupt(w) \/ Kill(w) \/ Lost(w) \/ Say(w)

Serve(w) ==
  \/ Register(w) \/ Release(w) \/ TurnOff(w)
  \/ HandleOff(w) \/ HandleDisown(w) \/ Refuse(w)
Shutdown == Deadline \/ CtlDown \/ End

Next == (\E w \in Windows : WindowStep(w) \/ Serve(w)) \/ Signal \/ Shutdown

\* Handlers run, a shutdown goes on, time passes; of the user nothing is
\* asked, and of a window only that it notices a stream that was closed.
Fairness ==
  /\ WF_attach(Shutdown)
  /\ \A w \in Windows : WF_attach(Serve(w)) /\ WF_attach(Lost(w))

Spec == Init /\ [][Next]_attach /\ Fairness

-----------------------------------------------------------------------------
(* What the lifecycle promises (ADR 0009). *)

\* When an owning window has left by any way out - quit, interrupt, kill,
\* before or after it was registered - and no disown was carried out, a
\* daemon at rest is not up, unless another owner has taken over
\* (lifecycle.go release, "enforced by the daemon").
AppMode ==
  Resting /\ phase = "up" /\ ~kept /\ (\E w \in Windows : own[w] /\ Ended(w))
    => owner # Nobody /\ Running(owner)

\* After a disown, no window that leaves stops the daemon, whichever order the
\* disown and the ends of connections were noticed in (lifecycle.go Disown) -
\* unless an owner's end had been noticed before the disown.
DisownKeeps == kept => why # "owner"

\* What the window that asked is told, "daemon stays in the background"
\* (server.go hDisown), also holds when an owner's end was noticed before.
DisownInTime ==
  [][\A w \in Windows : HandleDisown(w) /\ phase = "up" =>
       \A v \in Windows : reg[v] # "off"]_attach

\* A daemon that is stopping comes to its end whatever its windows do, and
\* no window stays behind on a dead screen (daemon.go shutdown, model.go
\* attachLostMsg).
StopEnds == phase = "stopping" ~> (phase = "gone" /\ \A w \in Windows : ~Running(w))

\* "pano is off" is printed only of a daemon that is not up (cli/ui.go
\* runUI; ADR 0009: the owner's window decides).
SaysTrue == \A w \in Windows : said[w] = "off" => phase # "up"

\* A stop does not have to wait for its deadline: the daemon closes the
\* attachments (daemon.go shutdown, client.go Attach).
ExitsPromptly == phase = "gone" => ~late
=============================================================================
