\* EnableContinuousUpdates(off) that arrives unfragmented is answered for ever.
SPECIFICATION FairSpec
CONSTANTS
  Batches <- OffBatches
  AllowStreaming = TRUE
  AllowIncremental = TRUE
  IndexedScreen = TRUE
  NetworkFails = FALSE
  Timely = FALSE
  MaxOutstanding = 2
PROPERTIES
  BatchesWorkedOff
