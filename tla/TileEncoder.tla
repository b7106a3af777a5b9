------------------------------ MODULE TileEncoder ------------------------------
(***************************************************************************)
(* TRLE and the tiles of ZRLE on an indexed screen (VNCEncodeTRLE.cpp at   *)
(* compression level 4): which of the forms of a tile is the shortest, the *)
(* palette that the next tile may use again, and what a client makes of    *)
(* it. A tile is [rows, cols, pixels]; on the wire a pixel is the colour   *)
(* it has on the screen, whatever bytes stand for it.                      *)
(***************************************************************************)
EXTENDS NativeTiles

CONSTANTS
  ScreenDepths,   \* 1, 2, 4 or 8 bits
  ColorBytes,     \* bytes of a colour on the wire: 1 for a client in indices
  TilesOf(_),     \* the tiles of a screen of a depth
  OddTiles        \* what else a tile may be (see Odd)

ASSUME TileAssumption ==
  /\ ScreenDepths \subseteq {1, 2, 4, 8} /\ ColorBytes \subseteq {1, 2, 3, 4}
  /\ \A d \in ScreenDepths : \A t \in TilesOf(d) :
       /\ Len(t.pixels) = t.rows * t.cols
       /\ Range(t.pixels) \subseteq 0..(NativeColors(d) - 1)
       /\ 2 * Len(t.pixels) % PixelsPerWord(d) = 0
  /\ OddTiles \subseteq {"allColors", "manyColors", "zeroEnd"}

VARIABLES
  screenDepth, bytesPerColor, \* fixed while a client is there
  allowPaletteReuse,          \* the encoding is TRLE, not ZRLE
  lastTile, lastInfo,         \* of the encoder, from one tile to the next
  clientPalette,              \* of the client, from one tile to the next
  shown                       \* the last tile, what the client sees of it, and its lengths

client == <<screenDepth, bytesPerColor, allowPaletteReuse>>
tvars  == <<client, lastTile, lastInfo, clientPalette, shown>>

Nothing == [pixels |-> <<>>, decoded |-> <<>>, checked |-> 0, written |-> 0]

TilesInit ==
  /\ screenDepth \in ScreenDepths /\ bytesPerColor \in ColorBytes
  /\ allowPaletteReuse \in BOOLEAN
  /\ lastTile = 0 /\ lastInfo = NoColorInfo
  /\ clientPalette = <<>> /\ shown = Nothing

TileRaw == 0
TileSolid == 1
TilePackedReused == 127
TileRLE == 128
TileRLEReused == 129

\* Bits of a pixel in a packed tile.
GetDepth(nColors) ==
  IF nColors <= 2 THEN 1 ELSE IF nColors <= 4 THEN 2 ELSE IF nColors <= 16 THEN 4 ELSE 8

\* A faulty variant: a palette that is large enough will do.
CanReuseAnyPalette(last, curr) == last.nColors = curr.nColors

\* The palettes are sorted: one pass finds out whether the last has all the colours. The
\* entries of lastInfo beyond those that were copied match nothing.
CanReuseColorsPalette(last, curr) ==
  /\ last.nColors >= curr.nColors
  /\ GetDepth(last.nColors) = GetDepth(curr.nColors)
  /\ Range(curr.colorPal) \subseteq Range(last.colorPal)

HadPalette == allowPaletteReuse /\ lastTile \notin {TileRaw, TileSolid, TileRLE}

----------------------------------------------------------------------------
(* The choice of encodeTile: every candidate is a form and a length, and a   *)
(* later one is taken when it is shorter.                                    *)

Shorter(a, b) == IF b.len < a.len THEN b ELSE a

\* Whether the palette of the last tile is used again for the colours curr.
Reuses(curr, maps) ==
  /\ HadPalette /\ curr.nColors > 1
  /\ IF maps THEN CanReuseColorsPalette(lastInfo, curr)
     ELSE lastInfo.nColors = NativeColors(screenDepth)

NoForm == [form |-> "solid", len |-> 16386]

\* The shortest without runs, where code and palette take header bytes: the native pixels,
\* packed pixels of as many bits as the colours need, and the pixels as they are.
Unrun(t, header, nColors) ==
  LET pixels == t.rows * t.cols
      native == IF screenDepth < 8
                THEN [form |-> "packed", len |-> header + (pixels * screenDepth) \div 8]
                ELSE IF bytesPerColor = 1 THEN [form |-> "raw", len |-> header + pixels]
                ELSE NoForm
      packed == IF nColors <= 16
                THEN [form |-> "packed",
                      len  |-> header + t.rows * ((t.cols * GetDepth(nColors) + 7) \div 8)]
                ELSE NoForm
      raw    == [form |-> "raw", len |-> 1 + pixels * bytesPerColor] IN
  Shorter(Shorter(Shorter(NoForm, native), packed), raw)

\* The runs, as far as they are shorter than stop. Too many colours have no palette.
RunsOf(t, nColors, stop, info) ==
  IF nColors <= 1 THEN [out |-> <<>>, ones |-> 0]
  ELSE NativeToRle(screenDepth, t.pixels,
         RleHow(screenDepth, t.pixels, stop, info, nColors <= PaletteSize,
                IF nColors > PaletteSize THEN bytesPerColor ELSE 1))

\* There are fewer runs of one than bytes in the palette: better without it.
Unpacks(tile, rle) ==
  tile.curr.nColors <= PaletteSize /\ ~tile.reuse /\ rle.ones < tile.palLen

Best(tile, best, rle) ==
  LET rleLen == Len(rle.out) IN
  IF tile.curr.nColors <= 1 THEN [form |-> "solid", len |-> 1 + bytesPerColor]
  ELSE IF 1 + rleLen >= best.len THEN best
  ELSE IF tile.curr.nColors > PaletteSize THEN [form |-> "plain", len |-> 1 + rleLen]
  ELSE [form |-> "rle",
        len  |-> IF Unpacks(tile, rle) THEN 1 + rleLen + rle.ones ELSE tile.header + rleLen]

WithRuns(tile, best, rle) ==
  tile @@ Best(tile, best, rle) @@ [rle |-> rle.out, unpack |-> Unpacks(tile, rle)]

WithForm(t, tile, best) ==
  WithRuns(tile, best, RunsOf(t, tile.curr.nColors, best.len, tile.info))

WithHeader(t, tile) == WithForm(t, tile, Unrun(t, tile.header, tile.curr.nColors))

WithPalette(t, curr, info, reuse) ==
  WithHeader(t,
    [curr   |-> curr, info |-> info, reuse |-> reuse,
     maps   |-> MapsColors(screenDepth, curr.nColors),
     depth  |-> GetDepth(curr.nColors),
     palLen |-> info.nColors * bytesPerColor,
     header |-> 1 + (IF reuse THEN 0 ELSE info.nColors * bytesPerColor)])

WithColors(t, curr, reuse) ==
  WithPalette(t, curr, IF reuse THEN lastInfo ELSE curr, reuse)

\* What the encoder knows of the tile t before it writes anything.
Plan(t) ==
  LET curr == NativeToColors(t.pixels) IN
  WithColors(t, curr, Reuses(curr, MapsColors(screenDepth, curr.nColors)))

----------------------------------------------------------------------------
(* What is written, as [code, palette, data]: the first byte, the colours    *)
(* that follow it, and the data in the form that the code announces.         *)

\* The runs that bytes of NativeToRle stand for: packed, a byte below 128 is one pixel.
Runs(bytes, packed, colorSize) ==
  LET n == Len(bytes)
      countEnds[i \in 1..n] == IF bytes[i] = 255 THEN countEnds[i + 1] ELSE i
      from[i \in 1..(n + 1)] ==
        IF i > n THEN <<>>
        ELSE IF packed /\ bytes[i] < 128
             THEN <<[color |-> bytes[i], count |-> 0]>> \o from[i + 1]
        ELSE LET c == i + colorSize  e == countEnds[c] IN
             <<[color |-> IF packed THEN bytes[i] % 128 ELSE bytes[i],
                count |-> 255 * (e - c) + bytes[e]]>> \o from[e + 1] IN
  from[1]

RunsLength(runs) ==
  LET upTo[i \in 0..Len(runs)] ==
        IF i = 0 THEN 0 ELSE upTo[i - 1] + bytesPerColor + Len(Counts(runs[i].count)) IN
  upTo[Len(runs)]

AllColors == [i \in 1..NativeColors(screenDepth) |-> i - 1]

\* The palette of the tile: none when the last one is used again, and every colour of the
\* screen when the tile has them all.
Palette(p) ==
  IF p.reuse THEN <<>> ELSE IF p.maps THEN p.info.colorPal ELSE AllColors

RowsOf(t) == [r \in 1..t.rows |-> SubSeq(t.pixels, (r - 1) * t.cols + 1, r * t.cols)]

\* Packed runs are undone where the palette costs more than it saves: the place of a
\* colour becomes the colour again.
Unpacked(p) ==
  LET color(i) == IF p.maps THEN p.info.colorPal[i + 1] ELSE i
      runs == Runs(p.rle, TRUE, 1) IN
  [i \in DOMAIN runs |-> [runs[i] EXCEPT !.color = color(@)]]

Wire(t, p) ==
  CASE p.form = "solid" -> [code |-> TileSolid, palette |-> <<>>, data |-> t.pixels[1]]
    [] p.form = "raw"   -> [code |-> TileRaw, palette |-> <<>>, data |-> t.pixels]
    [] p.form = "plain" -> [code |-> TileRLE, palette |-> <<>>,
                            data |-> Runs(p.rle, FALSE, bytesPerColor)]
    [] p.form = "rle" /\ p.unpack ->
         [code |-> TileRLE, palette |-> <<>>, data |-> Unpacked(p)]
    [] p.form = "rle" /\ ~p.unpack ->
         [code |-> IF p.reuse THEN TileRLEReused ELSE 128 + Len(Palette(p)),
          palette |-> Palette(p), data |-> p.rle]
    [] p.form = "packed" ->
         [code |-> IF p.reuse THEN TilePackedReused ELSE Len(Palette(p)),
          palette |-> Palette(p),
          data |-> IF p.maps
                   THEN [depth |-> p.depth,
                         rows  |-> [r \in 1..t.rows |->
                                      NativeToPacked(RowsOf(t)[r], p.depth, p.info)]]
                   ELSE [depth |-> screenDepth, rows |-> RowsOf(t)]]

\* The bytes of w.
WireLength(t, w) ==
  1 + bytesPerColor * Len(w.palette) +
  (CASE w.code = TileSolid -> bytesPerColor
     [] w.code = TileRaw   -> bytesPerColor * Len(w.data)
     [] w.code = TileRLE   -> RunsLength(w.data)
     [] w.code \in 129..255 -> Len(w.data)
     [] w.code \in 2..127   -> t.rows * ((t.cols * w.data.depth + 7) \div 8))

\* The palette is remembered when it was written, but of a palette of all colours only
\* that it was one.
LastInfo(p, w) ==
  IF w.palette = <<>> THEN lastInfo
  ELSE IF p.maps THEN p.curr
  ELSE [lastInfo EXCEPT !.nColors = NativeColors(screenDepth)]

----------------------------------------------------------------------------
(* A client, after the description of the encodings in the RFB protocol. The *)
(* palette of a tile can be used again by the tile that follows it.          *)

Repeat(c, n) == [i \in 1..n |-> c]

Expand(runs) ==
  LET upTo[i \in 0..Len(runs)] ==
        IF i = 0 THEN <<>> ELSE upTo[i - 1] \o Repeat(runs[i].color, runs[i].count + 1) IN
  upTo[Len(runs)]

NextPalette(w) ==
  IF w.code \in {TilePackedReused, TileRLEReused} THEN clientPalette ELSE w.palette

Entry(palette, i) == IF i + 1 \in DOMAIN palette THEN palette[i + 1] ELSE -1

Decode(w) ==
  LET palette == NextPalette(w)
      entries(s) == [i \in DOMAIN s |-> Entry(palette, s[i])] IN
  CASE w.code = TileRaw -> w.data
    [] w.code = TileRLE -> Expand(w.data)
    [] w.code \in 129..255 -> entries(Expand(Runs(w.data, TRUE, 1)))
    [] w.code \in 2..127 ->
         IF w.data.depth = GetDepth(Len(palette))
         THEN FlattenSeq([r \in DOMAIN w.data.rows |-> entries(w.data.rows[r])])
         ELSE <<>>

----------------------------------------------------------------------------

\* VNCEncodeTRLE::begin, at the start of a frame.
BeginFrame ==
  /\ lastTile' = 0 /\ lastInfo' = [lastInfo EXCEPT !.nColors = 0]
  /\ clientPalette' = <<>> /\ shown' = Nothing
  /\ UNCHANGED client

\* Tiles that the client sees otherwise: all the colours that there are, more than a palette
\* has, or half a long, ending in colour 0, on a screen of several bits. The last run of this
\* one takes in the zeros of the padding, of which 16 are taken off again.
Odd(t) ==
  LET n == Cardinality(Range(t.pixels)) IN
  \/ n = NativeColors(screenDepth) /\ screenDepth > 1 /\ "allColors" \notin OddTiles
  \/ n > PaletteSize /\ "manyColors" \notin OddTiles
  \/ /\ HalfWord(screenDepth, t.pixels) /\ screenDepth > 1 /\ Last(t.pixels) = 0
     /\ "zeroEnd" \notin OddTiles

ClientSees(t, w) == IF w.code = TileSolid THEN Repeat(w.data, Len(t.pixels)) ELSE Decode(w)

Send(t, p, w) ==
  /\ lastInfo' = LastInfo(p, w) /\ lastTile' = w.code
  /\ clientPalette' = NextPalette(w)
  /\ shown' = [pixels |-> t.pixels, decoded |-> ClientSees(t, w), checked |-> p.len,
               written |-> WireLength(t, w)]
  /\ UNCHANGED client

SendPlanned(t, p) == Send(t, p, Wire(t, p))

\* encodeTile, when the buffer has the room that it asks for: without, it writes nothing
\* and is called again for the same tile.
EncodeTile(t) == ~Odd(t) /\ SendPlanned(t, Plan(t))

TilesNext == BeginFrame \/ \E t \in TilesOf(screenDepth) : EncodeTile(t)

TilesSpec == TilesInit /\ [][TilesNext]_tvars

\* Whatever form was the shortest and whatever palette it used, the client sees the tile
\* that is on the screen.
PixelsDecoded == shown.decoded = shown.pixels

\* The room that was checked before the tile was written is the room that it takes.
RoomChecked == shown.written <= shown.checked
=============================================================================
