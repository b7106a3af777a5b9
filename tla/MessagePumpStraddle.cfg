\* A cut text that arrives in two receives, each of one buffer.
SPECIFICATION Spec
CONSTANTS
  Script <- MCScript
  HeadSize <- MCHeadSize
  BufferSize = 8
  MaxEntries = 1
  HasColorQD = TRUE
INVARIANTS
  NeverMisreads
\* The client may have nothing more to send.
CHECK_DEADLOCK FALSE
