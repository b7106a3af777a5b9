-------------------------------- MODULE MCParts --------------------------------
(* The smaller components side by side: one of them is chosen at the start,  *)
(* and runs alone.                                                           *)
EXTENDS FrameTiles, EncoderSetup, MCTiles, MCWire, NativeTilesAsm, HextileEncoder, MonoTiles, Keyboard,
        DebugLog, Deflate, Telemetry, Console, ScreenSums, TightFiles

CONSTANT Parts  \* the components that may be chosen

VARIABLE part

----------------------------------------------------------------------------
(* The data of the components.                                               *)

Rect(x, y, w, h) == [x |-> x, y |-> y, w |-> w, h |-> h]

\* One pixel; one subrectangle and a bit each way, from an odd column; the upper part of the
\* screen; a row at the bottom; one at the right edge, from an odd column too; and two that
\* pass the right edge, one of them as wide as the screen once it is aligned.
MCRequests ==
  {Rect(1, 0, 1, 1), Rect(1, 1, 4, 5), Rect(0, 0, 7, 2), Rect(0, 4, 6, 1), Rect(5, 2, 2, 3),
   Rect(6, 1, 4, 2), Rect(5, 0, 6, 2)}

\* The retrace task finds whole words.
MCDirtyRects == {Rect(2, 0, 2, 3), Rect(0, 1, 6, 4)}

\* Every way in which two longs of four pixels can be cut into runs, stopped early and
\* not; and tiles of 1-bit screens with half a long at the end.
MCRleJobs ==
  {[depth |-> 8, pixels |-> p, packRuns |-> k, colorSize |-> IF k THEN 1 ELSE 3, stop |-> s] :
     p \in [1..8 -> {0, 200}], k \in BOOLEAN, s \in {5, 40}} \cup
  {[depth |-> 1, pixels |-> Spread(<<i, j, 48 - i - j>>, <<a, 1 - a, a>>),
    packRuns |-> TRUE, colorSize |-> 1, stop |-> 9] :
     a \in {0, 1}, i \in {1, 16, 20, 31, 32}, j \in {1, 7, 15}}

\* Two rows of two colours in every way that begins with the first; four rows with a
\* change in the middle; columns; as many colours as pixels; and a tile of colours
\* that change with every pixel, which the encoder sends raw.
FourCols(pixels) == Tile(Len(pixels) \div 4, 4, pixels)

Diagonals == Tile(6, 16, [i \in 1..96 |-> ((i % 16) + (i \div 16)) % 16])

MCHexTiles ==
  {FourCols(p) : p \in {q \in [1..8 -> {0, 9}] : q[1] = 0 /\ q[6] = 9}} \cup
  {FourCols(<<a, a, a, a>> \o p \o <<a, a, a, a>>) :
     a \in {0, 9}, p \in {q \in [1..4 -> {0, 9, 200}] : q[1] = 0 /\ q[4] # 9}} \cup
  {FourCols([i \in 1..16 |-> i]),
   FourCols([i \in 1..16 |-> IF i % 4 = 0 THEN 9 ELSE 0]),
   FourCols([i \in 1..16 |-> IF i % 4 = 1 THEN 9 ELSE IF i % 4 = 2 THEN 200 ELSE 0]),
   Diagonals}

\* Both shifts, the modifiers, and characters: "b" is "a" with Shift, "c" takes Option
\* and Shift, and "d" has no plain form.
MCModifierSyms ==
  [s \in {"Shift_L", "Shift_R", "Control_L", "Alt_L", "Meta_L", "Caps_Lock"} |->
     CASE s \in {"Shift_L", "Shift_R"} -> Shift [] s = "Control_L" -> Control
       [] s = "Alt_L" -> Option [] s = "Meta_L" -> Cmd [] s = "Caps_Lock" -> AlphaLock]

MCKeyTable ==
  [c \in {"a", "b", "c", "d"} |-> [column \in 0..3 |->
     CASE c = "a" /\ column \in {0, 2} -> 5
       [] c = "b" /\ column = 1 -> 5
       [] c = "c" /\ column = 3 -> 6
       [] c = "d" /\ column > 0 -> 7
       [] OTHER -> NoKey]]

\* Lazy and greedy parsers and blocks that are all raw; what is compressed goes more than
\* once round the dictionary and its positions; a block with as many codes as a table of
\* the longest codes has room for, one whose counts ask for a longer code, and bytes that
\* look like others as far back as only bytes to come are.
MCLevel(greedy, probes, fewProbes, raw) ==
  [greedy |-> greedy, probes |-> probes, fewProbes |-> fewProbes, raw |-> raw]

MCLevels == {MCLevel(FALSE, 3, 2, FALSE), MCLevel(TRUE, 2, 1, FALSE), MCLevel(TRUE, 1, 1, TRUE)}

MCData ==
  {FlattenSeq([i \in 1..13 |-> IF i % 2 = 1 THEN p ELSE q]) :
     p \in {<<0, 0, 0>>, <<0, 0, 7>>, <<0, 7, 0>>, <<7, 0, 0>>}, q \in [1..3 -> {0, 7, 12}]} \cup
  {<<1, 2, 3, 4, 5, 6, 7, 1, 3, 5, 7, 2, 4>>, <<3, 3, 9, 2, 3, 9, 3, 7, 3, 2, 9, 9, 3>>,
   <<2, 12, 0, 7, 0, 4, 6, 2, 6, 4, 2, 2, 6, 6, 4, 7, 0, 7, 0, 0, 0, 0, 0, 0, 0, 0,
     0, 0, 0, 0, 0, 0, 0, 0, 0, 0, 0, 0, 0>>}

\* A colour machine whose monitor is set to thousands of colours and back, and a black and
\* white one without a preferences folder.
MCMachines ==
  {[colorQD |-> TRUE, folder |-> TRUE, depths |-> {8, 16}],
   [colorQD |-> FALSE, folder |-> FALSE, depths |-> {1}]}

\* Lines of whole longs, and with one that is taken in words; one word changed, or a
\* stretch of as many as a line has.
SumJob(routine, stride, before, after) ==
  [routine |-> routine, stride |-> stride, height |-> 3, before |-> before, after |-> after]

MCSumJobs ==
  UNION {LET words == 0..(3 * stride - 1)
             before == [w \in words |-> (w * w + start) % 4]
             moved(places) == [w \in words |-> IF w \in places THEN (before[w] + 1) % 4 ELSE before[w]] IN
         {SumJob(routine, stride, before, [before EXCEPT ![w] = v]) : w \in words, v \in 0..3}
         \cup {SumJob(routine, stride, before, moved(w..(w + stride))) : w \in words} :
           stride \in {4, 6}, start \in {0, 3}, routine \in {"C", "fast"}}

MCLogLines == {<<>>, <<"a">>, <<"b", "c">>}

\* A list of three pieces before and after an upload of three requests, one without bytes.
FileRequest(ask, chunk) == [ask |-> ask, chunk |-> chunk]

MCFileRequests ==
  <<FileRequest("list", 0), FileRequest("start", 0), FileRequest("data", 3), FileRequest("data", 0),
    FileRequest("data", 2), FileRequest("end", 0), FileRequest("list", 0)>>

MCDirectory == <<2, 1, 3, 1>>

----------------------------------------------------------------------------

Alone(p) == part = p

\* A component that was not chosen is left in one of its first states.
PartsInit ==
  /\ part \in Parts
  /\ \/ Alone("frame")
     \/ ~Alone("frame") /\ zLibLoaded = TRUE /\ frameEncoder = CHOOSE e \in Encoders : TRUE
  /\ Init
  /\ \/ Alone("wire")
     \/ /\ ~Alone("wire") /\ nativeDepth = CHOOSE depth \in WireScreens : TRUE
        /\ tileEncoding \in {"Raw", "TRLE"}
  /\ WireInit
  /\ \/ Alone("setup")
     \/ ~Alone("setup") /\ fbDepth = 8 /\ allowed = CHOOSE a \in AllowSets : TRUE
  /\ SetupInit
  /\ \/ Alone("tiles")
     \/ /\ ~Alone("tiles") /\ allowPaletteReuse = TRUE
        /\ screenDepth = CHOOSE depth \in ScreenDepths : TRUE
        /\ bytesPerColor = CHOOSE b \in ColorBytes : TRUE
  /\ TilesInit
  /\ \/ Alone("assembly")
     \/ ~Alone("assembly") /\ job = CHOOSE j \in RleJobs : Len(j.pixels) = 8
  /\ AsmInit
  /\ \/ Alone("hextile")
     \/ ~Alone("hextile") /\ hexBytes = CHOOSE b \in HexColorBytes : TRUE
  /\ HexInit
  /\ \/ Alone("mono")
     \/ ~Alone("mono") /\ assembly = TRUE /\ monoLastTile = 0
  /\ MonoInit
  /\ KeyInit
  /\ LogInit
  /\ \/ Alone("deflate")
     \/ /\ ~Alone("deflate") /\ data = CHOOSE q \in Data : Len(q) = 13
        /\ level = CHOOSE l \in Levels : TRUE
  /\ DeflateInit
  /\ \/ Alone("telemetry")
     \/ ~Alone("telemetry") /\ listening = {}
  /\ TelemetryInit
  /\ \/ Alone("console")
     \/ /\ ~Alone("console") /\ machine = CHOOSE m \in Machines : Cardinality(m.depths) = 1
        /\ prefs = NoFile
  /\ ConsoleInit
  /\ \/ Alone("sums")
     \/ ~Alone("sums") /\ sumJob = CHOOSE j \in SumJobs : j.stride = 4
  /\ SumInit
  /\ FileInit

PartsNext ==
  \/ /\ Alone("frame") /\ Next
     /\ UNCHANGED <<part, svars, tvars, wvars, avars, hvars, mvars, kvars, lvars, dvars,
                    mtvars, pvars, uvars, fvars>>
  \/ /\ Alone("setup") /\ SetupNext
     /\ UNCHANGED <<part, vars, tvars, wvars, avars, hvars, mvars, kvars, lvars, dvars,
                    mtvars, pvars, uvars, fvars>>
  \/ /\ Alone("tiles") /\ TilesNext
     /\ UNCHANGED <<part, vars, svars, wvars, avars, hvars, mvars, kvars, lvars, dvars,
                    mtvars, pvars, uvars, fvars>>
  \/ /\ Alone("wire") /\ WireNext
     /\ UNCHANGED <<part, vars, svars, tvars, avars, hvars, mvars, kvars, lvars, dvars,
                    mtvars, pvars, uvars, fvars>>
  \/ /\ Alone("assembly") /\ AsmNext
     /\ UNCHANGED <<part, vars, svars, tvars, wvars, hvars, mvars, kvars, lvars, dvars,
                    mtvars, pvars, uvars, fvars>>
  \/ /\ Alone("hextile") /\ HexNext
     /\ UNCHANGED <<part, vars, svars, tvars, wvars, avars, mvars, kvars, lvars, dvars,
                    mtvars, pvars, uvars, fvars>>
  \/ /\ Alone("mono") /\ MonoNext
     /\ UNCHANGED <<part, vars, svars, tvars, wvars, avars, hvars, kvars, lvars, dvars,
                    mtvars, pvars, uvars, fvars>>
  \/ /\ Alone("keyboard") /\ KeyNext
     /\ UNCHANGED <<part, vars, svars, tvars, wvars, avars, hvars, mvars, lvars, dvars,
                    mtvars, pvars, uvars, fvars>>
  \/ /\ Alone("log") /\ LogNext
     /\ UNCHANGED <<part, vars, svars, tvars, wvars, avars, hvars, mvars, kvars, dvars,
                    mtvars, pvars, uvars, fvars>>
  \/ /\ Alone("deflate") /\ DeflateNext
     /\ UNCHANGED <<part, vars, svars, tvars, wvars, avars, hvars, mvars, kvars, lvars,
                    mtvars, pvars, uvars, fvars>>
  \/ /\ Alone("telemetry") /\ TelemetryNext
     /\ UNCHANGED <<part, vars, svars, tvars, wvars, avars, hvars, mvars, kvars, lvars, dvars,
                    pvars, uvars, fvars>>
  \/ /\ Alone("console") /\ ConsoleNext
     /\ UNCHANGED <<part, vars, svars, tvars, wvars, avars, hvars, mvars, kvars, lvars, dvars,
                    mtvars, uvars, fvars>>
  \/ /\ Alone("sums") /\ SumNext
     /\ UNCHANGED <<part, vars, svars, tvars, wvars, avars, hvars, mvars, kvars, lvars, dvars,
                    mtvars, pvars, fvars>>
  \/ /\ Alone("files") /\ FileNext
     /\ UNCHANGED <<part, vars, svars, tvars, wvars, avars, hvars, mvars, kvars, lvars, dvars,
                    mtvars, pvars, uvars>>

PartsSpec ==
  PartsInit /\ [][PartsNext]_<<part, vars, svars, tvars, wvars, avars, hvars, mvars, kvars, lvars, dvars,
                    mtvars, pvars, uvars, fvars>>
=============================================================================
