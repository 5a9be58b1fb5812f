CONSTANTS
  Packet <- Frames
  Eeprom <- Words
  my_ip <- OurIp
  mac_broadcast <- Broadcast
  E1000_NUM_RX_DESC = 3
  E1000_NUM_TX_DESC = 2
  QueueSize = 3
  MaxArrivals = 4
SPECIFICATION NetSpec
INVARIANTS
  RepliesAnswer
PROPERTIES
  RequestsAnswered
CHECK_DEADLOCK FALSE
