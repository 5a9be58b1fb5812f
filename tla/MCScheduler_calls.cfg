SPECIFICATION Spec
CONSTANTS
  idle = idle
  init = init
  worker1 = worker1
  worker2 = worker2
  daemon = daemon
  NoThread = NoThread
  Idle = idle
  InitThread = init
  Thread <- MCThread
  Elapsed = 20
  NUMBER_PRIORITIES = 3
  Prio <- MCPrio
  SleepTime = {25}
  Calls = {"insert", "yield", "block", "block other", "sleep", "sleep other", "notify", "mask", "critlock"}
  TicksRange = 2
  MaxNesting = 1
INVARIANTS
  QueuesMatchStates
  RunningIsCurrent
  NoPanic
PROPERTIES
  SwitchesInOrder
SYMMETRY MCSymmetry
