SPECIFICATION SemaphoresSpec
CONSTANTS
  idle = idle
  init = init
  worker1 = worker1
  worker2 = worker2
  mutex = mutex
  completion = completion
  NoThread = NoThread
  Idle = idle
  InitThread = init
  Thread <- MCThread
  Elapsed = 20
  NUMBER_PRIORITIES = 3
  Prio <- MCPrio
  SleepTime = {25}
  Calls = {"insert", "yield", "sleep", "semaphore", "critlock"}
  TicksRange = 2
  MaxNesting = 1
  Semaphore = {mutex, completion}
  Mutex = {mutex}
  InterruptSemaphore = {completion}
  InitialValue <- MCInitialValue
  MaxValue = 2
INVARIANTS
  WaitersAreBlocked
  MutualExclusion
PROPERTIES
  ImplementsCountingSemaphore
SYMMETRY MCSymmetry
