SPECIFICATION ProviderSpec
CONSTANTS
  long = long
  short = short
  Conns = {long, short}
  Offered <- AllAndCalls
  Budget <- LongAndShort
  MaxConcurrent = 1
  MaxPartials = 1
  SlTasks = {"t", "u"}
  SlKeys = {"k"}
  SlWindow = 2
  SlLimit = 1
  SlTTL = 0
  SlMaxEvents <- MoreOfTheFirst
  SlRestarts = 1
  DaProcs = {"p", "q"}
  DaTickets = {"t", "u"}
  DaExpires <- FirstExpiresEarlier
  DaSkew = 1
  DaDrift = 1
  DaRetention = 2
  DaLimit = 1
  DaEnd = 5
  DaFaults = 1
  DtProcs = {"p", "q"}
  DtVersions = {1, 2}
  DtFaults = 2
  BkCalls <- ThreeCalls
  BkNobody = BkNobody
  BsBatches <- Batches
  BsFull = 3
  BsReads = 3
  StBeats = {"b1", "b2"}
  KrCmds = {"a", "b"}
  KrKeys = 3
  KrFaults = 1
INVARIANTS ProviderTypes GateBalanced AnswersMatched StreamsApart SlOnceWithoutGap DaRedeemedOnce DtHighWater BkCancelHonest BsNothingLost RcLastResort KrInStep
PROPERTIES SlKeepsPromise StHoldsDrain
CHECK_DEADLOCK FALSE
