SPECIFICATION TypingSpec
CONSTANTS
  idle = idle
  init = init
  daemon = daemon
  press = press
  release = release
  NoThread = NoThread
  Idle = idle
  InitThread = init
  Daemon = daemon
  Reader = init
  Thread <- MCThread
  Elapsed = 20
  NUMBER_PRIORITIES = 3
  Prio <- MCPrio
  SleepTime = {25}
  Calls = {"insert", "block", "notify", "keyboard"}
  TicksRange = 2
  MaxNesting = 0
  Make = {press}
  Break = {release}
  Places = 2
  MaxRead = 2
INVARIANTS
  NotifiesReader
PROPERTIES
  DaemonWakes
  ReaderWakes
