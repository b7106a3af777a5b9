SPECIFICATION TilesSpec
CONSTANTS
  ScreenDepths = {2}
  ColorBytes = {1}
  TilesOf <- MCTilesOf
  OddTiles = {"allColors"}
INVARIANT PixelsDecoded
CHECK_DEADLOCK FALSE
