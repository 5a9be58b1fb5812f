SPECIFICATION Spec
CONSTANTS
  idle = idle
  init = init
  worker1 = worker1
  worker2 = worker2
  daemon = daemon
  NoThread = NoThread
  Idle = idle
  InitThread = init
  Thread <- MCThread
  Elapsed = 20
  NUMBER_PRIORITIES = 3
  Prio <- MCPrio
  SleepTime = {1, 25}
  Calls = {"insert", "sleep"}
  TicksRange = 2
  MaxNesting = 0
INVARIANTS
  SleepersInSleepQueue
