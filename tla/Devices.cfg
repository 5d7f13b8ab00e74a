SPECIFICATION Spec
CONSTANTS
  Capacity = 1
  ReadOnly = FALSE
  MaxCalls = 3
  MaxResets = 1
  QueueCapacity = 2
  RingCapacity = 2
  Readers = {r1, r2}
  MaxKeys = 4
  MaxKeyResets = 1
  Processes = {1, 2}
  Modes <- ThreeModes
  Buffers = {1, 2}
  FrameCapacity = 2
  MaxFrames = 2
  MaxModes = 3
  MaxDisplayResets = 1
INVARIANTS SuccessMeansDone KeysExact DisplayExact
PROPERTIES RequestsEnd EventsAreTaken PresentsEnd
CHECK_DEADLOCK FALSE
