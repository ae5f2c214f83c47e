-------------------------- MODULE BreakpointPromise --------------------------
(***************************************************************************)
(* What a breakpoint promises.  A hold is open until somebody decides:     *)
(* whoever decides closes it in the same step, so there is one decision,   *)
(* and the exchange goes on as decided.  The timer and the departing       *)
(* client decide for the exchange itself.                                  *)
(***************************************************************************)
CONSTANTS Entry

VARIABLES open, decided, ended

Init ==
  /\ open = {}
  /\ decided = [e \in Entry |-> "none"]
  /\ ended = [e \in Entry |-> "none"]

Fresh(e) == e \notin open /\ decided[e] = "none" /\ ended[e] = "none"

Hold(e) ==
  /\ Fresh(e)
  /\ open' = open \cup {e}
  /\ UNCHANGED <<decided, ended>>

\* One caller decides for one hold, a stopping daemon for all of them.
Decide(S, how) ==
  /\ S \subseteq open
  /\ open' = open \ S
  /\ decided' = [e \in Entry |-> IF e \in S THEN how ELSE decided[e]]
  /\ UNCHANGED ended

Obey(e) ==
  /\ decided[e] # "none" /\ ended[e] = "none"
  /\ ended' = [ended EXCEPT ![e] = decided[e]]
  /\ UNCHANGED <<open, decided>>

GiveUp(e, how) ==
  /\ e \in open
  /\ open' = open \ {e}
  /\ ended' = [ended EXCEPT ![e] = how]
  /\ UNCHANGED decided

Next ==
  \/ \E e \in Entry :
       \/ Hold(e) \/ Obey(e)
       \/ \E how \in {"timeout", "client gone"} : GiveUp(e, how)
       \/ \E how \in {"resume", "drop"} : Decide({e}, how)
  \/ Decide(open, "release")

Spec == Init /\ [][Next]_<<open, decided, ended>>

-----------------------------------------------------------------------------
\* An accepted answer is what happens; nothing else ends a decided hold.
Obeyed == \A e \in Entry : decided[e] # "none" => ended[e] \in {"none", decided[e]}
=============================================================================
