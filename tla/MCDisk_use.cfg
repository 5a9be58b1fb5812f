SPECIFICATION DiskFairSpec
CONSTANTS
  client1 = client1
  client2 = client2
  client3 = client3
  requestSem = requestSem
  callbackSem = callbackSem
  request = requestSem
  callback = callbackSem
  Client = {client1, client2, client3}
  Semaphore = {requestSem, callbackSem}
  InitialValue <- MCInitialValue
  Slot = 2
  Count = {16, 17}
  MaxSignals = 1
  Buses = 2
  Devices = 3
  Functions = 3
  Found <- MCFound
  Attached <- MCAttached
  AHCI_BASE = 2097152
  TopOfDma = 3145728
  CommandSlots = 32
INVARIANTS
  OneRequest
  WaitsForDevice
  StructuresApart
PROPERTIES
  TransfersEnd
CHECK_DEADLOCK FALSE
