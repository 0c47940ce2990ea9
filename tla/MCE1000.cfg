SPECIFICATION Spec
CONSTANTS
  RX_DESC_COUNT = 3
  TX_DESC_COUNT = 3
  MaxArrivals = 5
  MaxCalls = 5
PROPERTIES
  SliceUntouched
  ReceiveIsFifo
  EveryPacketReturned
  SentAsAccepted
  SentUnlessFull
