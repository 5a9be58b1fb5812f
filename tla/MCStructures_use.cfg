SPECIFICATION StructuresFairSpec
CONSTANTS
  value1 = value1
  value2 = value2
  None = None
  Element <- MCElement
  max_count = 3
  Clearer = {"producer", "consumer"}
  writer = writer
  reader = reader
  slotsSem = slotsSem
  messagesSem = messagesSem
  slots = slotsSem
  messages = messagesSem
  Semaphore = {slotsSem, messagesSem}
  InitialValue <- MCValue
  size = 3
  Char <- MCElement
  Writer = {writer}
  Reader = {reader}
  Client = {writer, reader}
  Item = {1, 2}
  Nothing = Nothing
  Node = {n1, n2, n3}
  null = null
  List = {l1, l2}
  MaxLength = 4
  Slots = 3
  Size = 18
  H = 2
  Requests = {1, 2, 4, 7}
  Low = 0
  High = 11
  Mmio = 9
  MaxBlocks = 8
  Word = 4
  TablePages = 4
  Flag = {"access", "write", "immediate", "identity"}
  Areas <- MCAreas
  CacheStart = 6
  CacheBuffers = 2
  FreeStart = 1
  FreeLength = 7
  KernelStart = 1
  KernelLength = 1
  creator1 = creator1
  creator2 = creator2
  Creator = {creator1, creator2}
  Home <- MCHome
  Table = {1, 2}
  CacheTable = 1
  StackBuffer = {1, 2, 3}
  MaxProcesses = 2
  MaxThreads = 2
INVARIANTS
  HeapSound
  AddressSpaceSound
  StartsOnOwnStack
PROPERTIES
  ImplementsSequences
  ImplementsFifo
  PeekSeesOldest
  DeliversInOrder
  WritesComplete
  LegalFaultsServed
\* The machine stops at a PANIC.
CHECK_DEADLOCK FALSE
