SPECIFICATION MCSpec
CONSTANTS
  InboundCap = 1
  OutboundCap = 1
  EnergyFrames = 2
  SilenceFrames = 2
  MaxPending = 2
  QueueCap = 2
  MaxSessions = 2
  MaxSegments = 4
  MaxPeers = 2
  MaxGen = 4
  MaxRecordings = 2
  MaxChunks = 1
  MaxSdkCalls = 3
PROPERTIES BridgePromise SpeechPromise  
CHECK_DEADLOCK FALSE
