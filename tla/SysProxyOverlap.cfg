\* Two daemon lives whose processes may work at the same moment.
SPECIFICATION Spec
CONSTANTS
  Service = {wifi}
  corp = corp
  pac = pac
  localnet = localnet
  intranet = intranet
  Pano = Pano
  NoHost = NoHost
  NoUrl = NoUrl
  NoFile = NoFile
  Host <- MCHost
  Url <- MCUrl
  Domain <- MCDomain
  Default <- MCDefault
  Choice <- MCOffice
  Lives = 2
  MaxFaults = 0
  MaxEdits = 0
  MaxWaiting = 1
  Overlap = TRUE
\* The instance stops: its daemon lives are spent.
CHECK_DEADLOCK FALSE
INVARIANTS SingleSourceOfTruth
