SPECIFICATION FairSpec
CONSTANTS
  Producers = {p1}
  RING_BUFFER_SIZE = 2
  IndexModulus = 8
  MaxPushes = 1
PROPERTIES StopReachesSlave
CHECK_DEADLOCK FALSE
