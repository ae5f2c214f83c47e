--------------------------- MODULE SysProxyPromise ---------------------------
(***************************************************************************)
(* What the system-proxy manager promises, with processes, commands,       *)
(* crashes and faults left out.  Either pano owns the proxy, and then it   *)
(* remembers how every service it touches looked, or it does not, and then *)
(* nothing points at it.  It gives up ownership only when every service    *)
(* still there looks as it did at the moment pano took it.                 *)
(***************************************************************************)
CONSTANTS Service, Pano, Nothing

VARIABLES
  shown,  \* what each existing service does with traffic
  saved   \* how the owned services looked before, or Nothing

\* The look does not send traffic to pano.
Innocent(look) == look.web # Pano /\ look.secure # Pano

Owned == saved # Nothing

Init ==
  /\ \A s \in DOMAIN shown : Innocent(shown[s])
  /\ saved = Nothing

Acquire ==
  /\ ~Owned /\ DOMAIN shown # {}
  /\ saved' = shown
  /\ UNCHANGED shown

Fiddle ==
  /\ Owned /\ UNCHANGED saved
  /\ DOMAIN shown' = DOMAIN shown
  /\ \A s \in DOMAIN shown \ DOMAIN saved : shown'[s] = shown[s]

Release ==
  /\ Owned
  /\ \A s \in DOMAIN shown \cap DOMAIN saved : shown[s] = saved[s]
  /\ saved' = Nothing
  /\ UNCHANGED shown

UserSets(s) ==
  /\ DOMAIN shown' = DOMAIN shown \cup {s}
  /\ Innocent(shown'[s])
  /\ \A t \in DOMAIN shown \ {s} : shown'[t] = shown[t]
  /\ UNCHANGED saved

UserRemoves(s) ==
  /\ shown' = [t \in DOMAIN shown \ {s} |-> shown[t]]
  /\ UNCHANGED saved

Next ==
  \/ Acquire \/ Fiddle \/ Release
  \/ \E s \in Service : UserSets(s) \/ UserRemoves(s)

Spec == Init /\ [][Next]_<<shown, saved>>

-----------------------------------------------------------------------------
\* No service is left sending traffic to pano by a pano that does not own the
\* proxy, and what pano would put back never points at pano itself.
NeverStranded ==
  /\ \A s \in DOMAIN shown : ~Innocent(shown[s]) => Owned /\ s \in DOMAIN saved
  /\ Owned => \A s \in DOMAIN saved : Innocent(saved[s])
=============================================================================
