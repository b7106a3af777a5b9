\* A TurboVNC client, under the timing that its extensions need.
SPECIFICATION Spec
CONSTANTS
  Batches <- TurboBatches
  AllowStreaming = TRUE
  AllowIncremental = TRUE
  IndexedScreen = TRUE
  NetworkFails = FALSE
  Timely = TRUE
  MaxOutstanding = 2
INVARIANTS
  FrameHasOneDriver
  SyncTasksFindPipelineIdle
  NoRequestForgotten
  ContinuousUpdatesGoOn
