SPECIFICATION PartsSpec
CONSTANTS
  Parts = {"frame", "setup", "wire", "tiles", "assembly", "hextile", "mono", "keyboard", "log", "deflate",
           "telemetry", "console", "sums", "files"}
  BufSize = 8
  Prefix = 1
  Scratch = 2
  SolidLen = 2
  CodeLimit = 3
  CodeMax = 6
  Overhead = 1
  MaxSend = 6
  TileLens = {1, 3}
  Loaded = {TRUE, FALSE}
  Width = 7
  Height = 5
  AlignTo = 2
  TileSize = 2
  ZTileSize = 2
  SubrectSize = 4
  MinBytesAvail = 1
  Encoders = {"Raw", "Hextile", "TRLE", "ZRLE"}
  Requests <- MCRequests
  DirtyRects <- MCDirtyRects
  Depths = {8, 16}
  ClientEncodings = {"TRLE", "Hextile", "ZRLE", "Tight", "Raw"}
  AllowSets = {{"TRLE", "ZRLE"}, {"Hextile", "Tight"}, {"ZRLE", "Tight", "Raw"}}
  TrueFormats = {8, 32}
  MaxTables = 1
  FbWidth = 6
  SmallBuffer = 16
  TrleBuffer = 18
  HextileBuffer = 9
  ZrleBuffer = 24
  Mishaps = {"noMemory"}
  WireScreens = {8, 16, 32}
  WireFormats <- MCWireFormats
  WireColors <- MCWireColors
  WireTilesOf <- MCWireTilesOf
  WireMishaps = {}
  ScreenDepths = {1, 2, 8}
  ColorBytes = {1, 3}
  TilesOf <- MCTilesOf
  OddTiles = {}
  RleJobs <- MCRleJobs
  HexDepth = 8
  HexColorBytes = {1, 3}
  HexTiles <- MCHexTiles
  HexBytesAvail = {12, 800}
  MonoCols = 2
  MonoHeight = 5
  MonoTileRows = 2
  MonoWords = {0, 1}
  ModifierSyms <- MCModifierSyms
  CharSyms = {"a", "b", "c", "d"}
  KeyTable <- MCKeyTable
  KeyMishaps = {}
  Capacity = 6
  LogLines <- MCLogLines
  MaxLogged = 5
  LogMishaps = {}
  EndOfBlock = 16
  LitLimit = 3
  SizesLimit = 3
  StaticBelow = 6
  DictSize = 16
  MaxMatch = 4
  PosMod = 32
  HashSize = 4
  HashBase = 2
  LongMatch = 4
  EnoughMatch = 4
  TooFar = 9
  CodeBuf = 18
  EarlyBlock = 12
  Levels <- MCLevels
  Data <- MCData
  CallLens = {13}
  Stages = {1}
  MaxEvents = 2
  MaxSent = 3
  Boxes = {"allowControl", "hideCursor", "allowHextile"}
  Machines <- MCMachines
  MaxClicks = 1
  MaxLaunches = 2
  WordBase = 4
  LongsAtOnce = 2
  SumJobs <- MCSumJobs
  FileRequests <- MCFileRequests
  Directory <- MCDirectory
  ListBuffer = 4
  ListHeader = 1
  MaxOthers = 2
  FileMishaps = {}
INVARIANTS
  FrameAsAnnounced AlignedCovers OutputBehindInput WireDecoded
  EncoderReady FormatFollowed ColoursCurrent StreamPerSession
  PixelsDecoded TwinsAgree HextileDecoded MonoDecoded KeysAsHeld LinesInOrder
  DataInflated ToldOnce ChoicesKept SumsNotice TransfersWhole
CHECK_DEADLOCK FALSE
