\* Two daemon lives on one service; processes never drive networksetup at the
\* same moment.
SPECIFICATION Spec
CONSTANTS
  Service = {wifi}
  corp = corp
  pac = pac
  localnet = localnet
  intranet = intranet
  Pano = Pano
  NoHost = NoHost
  NoUrl = NoUrl
  NoFile = NoFile
  Host <- MCHost
  Url <- MCUrl
  Domain <- MCDomain
  Default <- MCDefault
  Choice <- MCOffice
  Lives = 2
  MaxFaults = 1
  MaxEdits = 1
  MaxWaiting = 1
  Overlap = FALSE
\* The instance stops: its daemon lives are spent.
CHECK_DEADLOCK FALSE
INVARIANTS WriteAhead SnapshotPredatesPano
PROPERTIES KeepsPromise
