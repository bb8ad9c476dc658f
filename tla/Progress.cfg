SPECIFICATION ProgressSpec
CONSTANTS
  NoBatch = NoBatch
  Beats = {"b1", "b2"}
  MaxTasks = 2
  Nodes = {"a", "b"}
  Supervised = {"a", "b"}
  HoBudget = 2
  TgProcs = {"p", "q"}
  TgNobody = "nobody"
  TgLease = 2
  TgInterval = 2
  TgCooldown = 3
  TgStart = 1
  TgFaults = 2
  TwPolicies = {"retry", "stop", "exit"}
  TwRespawns = 2
  TwMaxFails = 2
  TwFaults = 2
  HpProcs = {"p", "q"}
  HpReleases = 2
  HpBackoff = 2
  HpFaults = 2
  PgNodes = {"a", "b", "c"}
  PgLimit = 2
  PgExpiry = 1
  PgDeaths = 1
  PgMisses = 1
  BkCalls <- TwoCalls
  BkNobody = BkNobody
  RwEnds = {"close", "reset", "fin"}
  RwFaults = 2
  RwTasks <- RelayTasks
  PhAddresses <- TwoAddresses
  PhHalf = 3
  PhProbe = 1
  PhMisses = 2
INVARIANTS ProgressTypes ErasedWhenDone HpOneServing TunnelsInOrder RwSafe PhOpenWhileHeld
PROPERTIES WorkEnds TasksCounted WorkerReturns NodesHandOver ProcessGetsCurrent PeersMeet TunnelsServe
CHECK_DEADLOCK FALSE
