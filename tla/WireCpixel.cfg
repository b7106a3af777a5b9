SPECIFICATION WireSpec
CONSTANTS
  WireScreens = {16}
  WireFormats <- MCWireFormats
  WireColors <- MCWireColors
  WireTilesOf <- MCWireTilesOf
  WireMishaps = {"cursorBeforeTile"}
INVARIANT WireDecoded
CHECK_DEADLOCK FALSE
