\* The same client under the scheduling of the Macintosh: liveness.
SPECIFICATION FairSpec
CONSTANTS
  Batches <- FewBatches
  AllowStreaming = TRUE
  AllowIncremental = TRUE
  IndexedScreen = TRUE
  NetworkFails = FALSE
  Timely = FALSE
  MaxOutstanding = 2
PROPERTIES
  RequestsAnswered
  BatchesWorkedOff
