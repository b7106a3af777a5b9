SPECIFICATION LiveSpec
CONSTANTS
  Height = 3
  Width = 2
  RowChunk = 2
  HashMod = 8
  Values = {0, 1}
  Garbage = {0, 7}
  Erases = FALSE
  FullFrameWhile = {"idle"}
INVARIANTS
  NoChangeForgotten
  InstalledForWaiter
PROPERTIES
  PictureCatchesUp
