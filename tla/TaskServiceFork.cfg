SPECIFICATION AnySpec
CONSTANTS
  t1 = t1
  t2 = t2
  t3 = t3
  f1 = f1
  f2 = f2
  Threads <- ThreeThreads
  MAX_SPIN_COUNT = 2
  MaxCalls = 2
  Pushers <- TwoPushers
  MaxCommands = 2
  agent = agent
  server = server
  Agents = {agent, server}
  Servers = {server}
  Links <- BothWays
  BatchSize = 2
  MaxQueues = 3
  MaxMsgs = 2
  a1 = a1
  a2 = a2
  worldService = worldService
  landService = landService
  taskService = taskService
  bad = bad
  worse = worse
  Services <- EngineServices
  Callers = {a1}
  Deps <- EngineDeps
  MaxRequests = 2
  p1 = p1
  p2 = p2
  Producers <- TwoProducers
  RING_BUFFER_SIZE = 1
  IndexModulus = 8
  MaxPushes = 1
  s1 = s1
  s2 = s2
  a = a
  b = b
  c = c
  d = d
  NoTask = NoTask
  RunLength = 1
  Tasks <- FourTasks
  Slaves <- TwoSlaves
  Programs <- OnlyFork
INVARIANTS CompletedOnce
CHECK_DEADLOCK FALSE
