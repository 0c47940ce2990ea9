CONSTANTS
  Addresses <- MCAddresses
  Ports <- MCPorts
  EchoData <- MCEchoData
  UdpData <- MCUdpData
SPECIFICATION Spec
CHECK_DEADLOCK FALSE
INVARIANTS HeaderAccepted EchoAnswersPing UdpChecksumAccepted
