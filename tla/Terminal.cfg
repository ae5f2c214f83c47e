SPECIFICATION MCSpec
CONSTANTS
  Nothing = Nothing
  None = None
  MaxFlows = 2
  MaxRows = 1
  PageLimit = 1
  MaxStream = 1
  MaxLoads = 3
  Tagged = {1}
  MaxAsked = 2
  Llm = {1}
  Hosts = {"a", "1.2.3.4"}
  Addresses = {"1.2.3.4"}
  MaxMisses = 2
  RootTTL = 3
  LeafTTL = 2
  FreshFor = 1
  MemCache = 1
  MaxDays = 3
  MaxKeys = 3
  Host <- MCHost
  Pattern <- MCPattern
  rejectedWindow = 2
  rejectedLimit = 2
  Client = {"p", "q", "r"}
  maxDevices = 2
  Blob <- MCBlob
  bodySize <- MCSize
  budget = 2
  Gaps = {1, 3}
  MaxCalls = 4
  Payloads <- MCPayloads
  Heads = {2}
  Pieces = {1, 4}
  wsLimit = 2
  MaxFrames = 3
  Interfaces <- MCInterfaces
  IPs = {"a"}
  Ports = {8}
  ProxyPort = 80
  Loopback = "lo"
  NoIPv4 = "v6"
  NotThere = NotThere
  MaxOrders = 3
INVARIANTS ScreenHolds SameDigest DigestHonest LlmDigestIsTrue ViewIsTrue RulesMean RecordIsTrue MemoryTrue CertsHold
PROPERTIES ClearedStaysAway
CHECK_DEADLOCK FALSE
