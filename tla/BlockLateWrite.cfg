SPECIFICATION BlockOnly
CONSTANTS
  Capacity = 2
  ReadOnly = FALSE
  MaxCalls = 3
  MaxResets = 0
  QueueCapacity = 2
  RingCapacity = 2
  Readers = {r1}
  MaxKeys = 0
  MaxKeyResets = 0
  Processes = {1}
  Modes <- ThreeModes
  Buffers = {1}
  FrameCapacity = 2
  MaxFrames = 0
  MaxModes = 0
  MaxDisplayResets = 0
INVARIANT WritesLandWhereAsked
CHECK_DEADLOCK FALSE
