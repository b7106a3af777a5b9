\* The deliveries the pump is made for.
SPECIFICATION OrderlySpec
CONSTANTS
  Script <- MCScript
  HeadSize <- MCHeadSize
  BufferSize = 5
  MaxEntries = 3
  HasColorQD = FALSE
INVARIANTS
  OnlyLastMessageWaits
PROPERTIES
  ServiceSpec
\* The client may have nothing more to send, and the session may end in error.
CHECK_DEADLOCK FALSE
