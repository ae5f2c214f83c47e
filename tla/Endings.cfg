\* Two services, so that a restore may fail on one of them; one daemon life and
\* its watchdog, which is fair.  Two windows on a daemon.
SPECIFICATION MCEndingsSpec
CONSTANTS
  Service = {wifi, usb}
  corp = corp
  pac = pac
  localnet = localnet
  intranet = intranet
  Pano = Pano
  NoHost = NoHost
  NoUrl = NoUrl
  NoFile = NoFile
  Host <- MCHost
  Url <- MCUrl
  Domain <- MCDomain
  Default <- MCDefault
  Choice <- MCBranch
  Lives = 1
  MaxFaults = 1
  MaxEdits = 1
  MaxWaiting = 1
  Overlap = FALSE
  Windows = {w1, w2}
  w1 = w1
  w2 = w2
  Nobody = Nobody
\* The instances stop: the daemon's lives are spent, every window was open once.
CHECK_DEADLOCK FALSE
INVARIANT OwnerRule
PROPERTIES WatchdogRecovers StopEnds
