CONSTANTS
  eNET_HEADER_SIZE = 2
  eNET_PROTOCOL_MSG_MAX_LEN = 2
  eBUFFER_CENTER = 7
  eNET_PACKET_SET_MAX_COUNT = 2
  Buffers = {b1, b2, b3, b4}
  NoBuffer = NoBuffer
  MaxSets = 2
  MaxMessages = 3
  MaxConnections = 2
SPECIFICATION Spec
INVARIANTS
  ReadsWhatWasSent
  OneHolder
  NeverOverruns
SYMMETRY BufferSymmetry
CHECK_DEADLOCK FALSE
