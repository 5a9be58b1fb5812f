SPECIFICATION SemaphoresFairSpec
CONSTANTS
  idle = idle
  init = init
  worker1 = worker1
  worker2 = worker2
  mutex = mutex
  completion = completion
  NoThread = NoThread
  Idle = idle
  InitThread = init
  Thread <- MCThread
  Elapsed = 20
  NUMBER_PRIORITIES = 2
  Prio <- MCFlatPrio
  SleepTime = {40}
  Calls = {"insert", "sleep", "semaphore"}
  TicksRange = 1
  MaxNesting = 1
  Semaphore = {mutex}
  Mutex = {mutex}
  InterruptSemaphore = {}
  InitialValue <- MCMutexValue
  MaxValue = 2
PROPERTIES
  ReadyRuns
  SleepersWake
  WaitersGetMutex
