SPECIFICATION SpinlockFairSpec
CONSTANTS
  idle = idle
  init = init
  worker = worker
  NoThread = NoThread
  Idle = idle
  InitThread = init
  Thread <- MCThread
  Elapsed = 20
  NUMBER_PRIORITIES = 2
  Prio <- MCPrio
  RetryTime = 1
  SleepTime = {1}
  Calls = {"insert", "sleep", "spinlock"}
  TicksRange = 2
  MaxNesting = 0
  MayTry = TRUE
PROPERTIES
  SomeoneGetsIn
