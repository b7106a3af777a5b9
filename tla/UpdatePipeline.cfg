\* A client without the TurboVNC extensions on an indexed screen: safety.
SPECIFICATION Spec
CONSTANTS
  Batches <- PlainBatches
  AllowStreaming = TRUE
  AllowIncremental = TRUE
  IndexedScreen = TRUE
  NetworkFails = TRUE
  Timely = FALSE
  MaxOutstanding = 2
INVARIANTS
  SendRecordNotReused
  FramesNotInterleaved
  StreamHasOneOwner
  IInv
