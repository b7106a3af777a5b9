----------------------------- MODULE WirePixels -----------------------------
(***************************************************************************)
(* How a colour becomes bytes: the formats that VNCPaletteTrueColor        *)
(* translates to, the size of a colour that the palette keeps between the  *)
(* tiles, the cursor and the changes of format, and the client that reads  *)
(* the bytes back. A long of the machine is its four bytes.                *)
(***************************************************************************)
EXTENDS Integers, Sequences

CONSTANTS
  WireScreens,    \* depths of the screen: 8 is indexed, 16 and 32 true colour
  WireFormats,    \* true colour formats that a client may ask for
  WireColors,     \* the colours of a screen of 8 bits: red, green, blue in 0 .. 65535
  WireTilesOf(_), \* tiles of a screen: sequences of indices, or of native pixels
  WireMishaps     \* what may happen that the code is not made for

AllWireMishaps ==
  {"cursorBeforeTile", \* in true colour and ZRLE, a tile that follows a cursor
   "rawIndexed"}       \* Raw on a screen of 8 bits

Channels == 1 .. 3

\* What a pixel of a screen may be.
PixelsOf(depth) ==
  IF depth = 8 THEN DOMAIN WireColors ELSE [Channels -> 0 .. (IF depth = 16 THEN 31 ELSE 255)]

\* The colour bits of every format lie in the low 24.
ASSUME WireAssumption ==
  /\ WireScreens \subseteq {8, 16, 32} /\ WireMishaps \subseteq AllWireMishaps
  /\ \A f \in WireFormats :
       /\ f.trueColor /\ f.bits \in {8, 16, 32}
       /\ f.big \in BOOLEAN /\ f.max \in [Channels -> Nat] /\ f.shift \in [Channels -> Nat]
       /\ \A c \in Channels : f.max[c] * 2 ^ f.shift[c] < 2 ^ 24
  /\ WireColors \in Seq([Channels -> 0 .. 65535]) /\ Len(WireColors) >= 2

ASSUME WireTilesAssumption ==
  \A depth \in WireScreens : WireTilesOf(depth) \subseteq Seq(PixelsOf(depth))

VARIABLES
  nativeDepth,   \* fbDepth, fixed
  tileEncoding,  \* selectedEncoder, fixed
  wireFormat,    \* fbPixFormat
  colorBytes,    \* bytesPerColor
  pixelShift, pixelMask, \* both in bytes: what is shifted out, and what is left alone
  wireSent       \* the last thing that was sent, and what it was made of

wvars == <<nativeDepth, tileEncoding, wireFormat, colorBytes, pixelShift, pixelMask, wireSent>>

----------------------------------------------------------------------------
(* Numbers.                                                                  *)

\* The byte at place k (0 is the lowest) of a value that is shifted left, the rest of
\* the long cut off.
ShiftedByte(value, shift, k) ==
  IF shift >= 8 * k + 8 THEN 0
  ELSE IF shift >= 8 * k THEN (value * 2 ^ (shift - 8 * k)) % 256
  ELSE (value \div 2 ^ (8 * k - shift)) % 256

\* The channels side by side in a long.
Packed(format, v) ==
  [k \in 0 .. 3 |-> ShiftedByte(v[1], format.shift[1], k) + ShiftedByte(v[2], format.shift[2], k)
                    + ShiftedByte(v[3], format.shift[3], k)]

Scaled(v, from, to) == [c \in Channels |-> (v[c] * to[c]) \div from]

\* A long in memory: the machine puts the highest byte first.
InMemory(long) == <<long[3], long[2], long[1], long[0]>>
Swapped(long)  == [k \in 0 .. 3 |-> long[3 - k]]

Stale == -1  \* a byte that was in the buffer before

----------------------------------------------------------------------------
(* The palette.                                                              *)

ScreenPixelFormat(depth) ==
  IF depth >= 16
  THEN [trueColor |-> TRUE, bits |-> 32, big |-> TRUE,
        max |-> <<255, 255, 255>>, shift |-> <<16, 8, 0>>]
  ELSE [trueColor |-> FALSE, bits |-> 8, big |-> TRUE, max |-> <<3, 7, 3>>, shift |-> <<5, 2, 0>>]

WireIs888BE == wireFormat = ScreenPixelFormat(32)

\* The colour bits are exactly the low three bytes.
FitsThree(format) == format.bits = 32 /\ Packed(format, format.max) = [k \in 0 .. 3 |->
                                                                 IF k = 3 THEN 0 ELSE 255]

\* Two channels, each given by its lowest bit and how many it has, share no bit.
Beside(s, w, t, u) == s + w <= t \/ t + u <= s

\* A format as the routines of a colour are made for: channels of up to eight bits beside
\* each other, and in a long the low 24 of it. (A long with fewer bits of colour is sent
\* whole, where a client takes three bytes.)
Ordinary(f) ==
  /\ f.bits = 32 => FitsThree(f)
  /\ \E w \in [Channels -> 1 .. 8] :
       /\ \A c \in Channels :
            /\ f.max[c] = 2 ^ w[c] - 1
            /\ f.shift[c] + w[c] <= IF f.bits = 32 THEN 24 ELSE f.bits
       /\ \A c, d \in Channels : c # d => Beside(f.shift[c], w[c], f.shift[d], w[d])

OrdinaryFormats == \A f \in WireFormats : Ordinary(f)

PrepareTrueColorRoutines(format, bytes, isCPIXEL) ==
  LET n == IF isCPIXEL /\ FitsThree(format) THEN 3 ELSE bytes IN
  /\ colorBytes' = n
  /\ pixelMask' = 4 - n
  /\ pixelShift' = IF format.big THEN 4 - n ELSE 0

\* A faulty variant: the size is the one of the last time.
PrepareKeepsSize(format, isCPIXEL) ==
  IF format.trueColor
  THEN PrepareTrueColorRoutines(format, colorBytes, isCPIXEL)
  ELSE colorBytes' = format.bits \div 8 /\ UNCHANGED <<pixelMask, pixelShift>>

PrepareColorRoutines(format, isCPIXEL) ==
  IF format.trueColor
  THEN PrepareTrueColorRoutines(format, format.bits \div 8, isCPIXEL)
  ELSE colorBytes' = format.bits \div 8 /\ UNCHANGED <<pixelMask, pixelShift>>

\* setTrueColor: an entry of vncTrueColors, as the long that it is.
SetTrueColor(i) ==
  LET color == Packed(wireFormat, Scaled(WireColors[i], 65535, wireFormat.max)) IN
  IF wireFormat.big THEN color ELSE Swapped(color)

\* The bytes that a store of a shifted long leaves behind when dst moves on by n: the
\* bytes under the mask keep what they were.
Stored(long, shift, mask, n) ==
  [i \in 1 .. n |-> IF i > 4 - mask THEN Stale
                    ELSE IF i + shift <= 4 THEN InMemory(long)[i + shift] ELSE 0]

\* emitColor, which looks up what does not exist on a screen in true colour.
EmitColor(i, shift, mask, n) ==
  IF ~wireFormat.trueColor THEN <<i>>
  ELSE IF nativeDepth >= 16 THEN [k \in 1 .. n |-> Stale]
  ELSE Stored(SetTrueColor(i), shift, mask, n)

PackWire(v) == Packed(wireFormat, Scaled(v, 255, wireFormat.max))

EmitWire(long, n) == [i \in 1 .. n |-> IF wireFormat.big THEN long[n - i] ELSE long[i - 1]]

\* A native pixel in eight bits a channel (expand555To888).
Expanded(p) == IF nativeDepth = 16 THEN [c \in Channels |-> (p[c] * 255) \div 31] ELSE p

NativeLong(p) == Packed(ScreenPixelFormat(32), Expanded(p))

Concat(seqs) ==
  LET all[i \in 0 .. Len(seqs)] == IF i = 0 THEN <<>> ELSE all[i - 1] \o seqs[i] IN
  all[Len(seqs)]

\* A row for Raw. A screen of 8 bits is read as if it had four bytes a pixel.
CopyNativeRowToWire(tile) ==
  IF WireIs888BE THEN Concat([i \in DOMAIN tile |-> InMemory(NativeLong(tile[i]))])
  ELSE LET n == wireFormat.bits \div 8
           pixel(i) == IF nativeDepth >= 16 THEN Expanded(tile[i])
                       ELSE [c \in Channels |-> tile[((4 * i - 4 + c) % Len(tile)) + 1]] IN
       Concat([i \in DOMAIN tile |-> EmitWire(PackWire(pixel(i)), n)])

\* A tile for ZRLE, with the size, shift and mask that were prepared last.
CopyNativeTileToCPIXEL(tile) ==
  Concat([i \in DOMAIN tile |->
    IF WireIs888BE THEN Stored(NativeLong(tile[i]), pixelShift, pixelMask, colorBytes)
    ELSE EmitWire(PackWire(Expanded(tile[i])), colorBytes)])

----------------------------------------------------------------------------
(* The session: formats, cursors and tiles in any order.                     *)

NothingSent == [kind |-> "none", colors |-> <<>>, bytes |-> <<>>]

\* VNCPalette::beginNewSession. What Raw, TRLE and Hextile make of a screen is chosen
\* by VNCEncoder::begin; ZRLE is TRLE within a compressed stream.
WireInit ==
  /\ nativeDepth \in WireScreens
  /\ tileEncoding \in IF nativeDepth >= 16 THEN {"Raw", "ZRLE"}
                      ELSE {"TRLE", "Hextile"} \cup
                           (IF "rawIndexed" \in WireMishaps THEN {"Raw"} ELSE {})
  /\ wireFormat = ScreenPixelFormat(nativeDepth)
  /\ IF nativeDepth >= 16 THEN colorBytes = 3 /\ pixelMask = 1 /\ pixelShift = 1
     ELSE colorBytes = 1 /\ pixelMask = 0 /\ pixelShift = 0
  /\ wireSent = NothingSent

\* updateColorTable, when the client has asked for another format. On an indexed screen
\* the sizes are left to the next that sends a colour. Raw needs an indexed format there.
ChangeFormat(f) ==
  /\ f # wireFormat
  /\ tileEncoding = "Raw" => nativeDepth >= 16
  /\ wireFormat' = f
  /\ IF nativeDepth >= 16
     THEN PrepareTrueColorRoutines(f, f.bits \div 8, TRUE)
     ELSE UNCHANGED <<colorBytes, pixelMask, pixelShift>>
  /\ wireSent' = NothingSent
  /\ UNCHANGED <<nativeDepth, tileEncoding>>

\* A run of colours of an indexed screen, as the cursor and the tiles of TRLE (CPIXEL)
\* and Hextile (PIXEL) have them: the routines are prepared first.
SendColors(kind, colors) ==
  /\ PrepareColorRoutines(wireFormat, kind = "CPIXEL")
  /\ wireSent' = [kind |-> kind, colors |-> colors,
                  bytes |-> Concat([i \in DOMAIN colors |->
                                      EmitColor(colors[i], pixelShift', pixelMask', colorBytes')])]
  /\ UNCHANGED <<nativeDepth, tileEncoding, wireFormat>>

\* Black and white are entries of the colour table, on a screen that has one.
SendCursor ==
  /\ "cursorBeforeTile" \in WireMishaps \/ nativeDepth = 8 \/ tileEncoding = "Raw"
  /\ SendColors("cursor", <<1, 2, 1>>)

SendTile(tile) ==
  \/ /\ tileEncoding \in {"TRLE", "Hextile"}
     /\ SendColors(IF tileEncoding = "TRLE" THEN "CPIXEL" ELSE "PIXEL", tile)
  \/ /\ tileEncoding = "Raw"
     /\ wireSent' = [kind |-> "PIXEL", colors |-> tile, bytes |-> CopyNativeRowToWire(tile)]
     /\ UNCHANGED <<nativeDepth, tileEncoding, wireFormat, colorBytes, pixelShift, pixelMask>>
  \/ /\ tileEncoding = "ZRLE" /\ nativeDepth >= 16
     /\ wireSent' = [kind |-> "CPIXEL", colors |-> tile, bytes |-> CopyNativeTileToCPIXEL(tile)]
     /\ UNCHANGED <<nativeDepth, tileEncoding, wireFormat, colorBytes, pixelShift, pixelMask>>

WireNext ==
  \/ \E f \in WireFormats : ChangeFormat(f)
  \/ SendCursor
  \/ \E tile \in WireTilesOf(nativeDepth) : SendTile(tile)

WireSpec == WireInit /\ [][WireNext]_wvars

----------------------------------------------------------------------------
(* The client, by the protocol.                                              *)

PixelBytes == wireFormat.bits \div 8
ClientBytes(kind) == IF kind = "CPIXEL" /\ wireFormat.trueColor /\ wireFormat.bits = 32
                     THEN 3 ELSE PixelBytes

\* The value of n bytes, without the fourth, which has no colour.
ClientValue(bytes) ==
  LET n == Len(bytes)
      at(k) == IF k >= n THEN 0 ELSE IF wireFormat.big THEN bytes[n - k] ELSE bytes[k + 1] IN
  at(0) + 256 * at(1) + 65536 * at(2)

ClientChannel(bytes, c) ==
  (ClientValue(bytes) \div 2 ^ wireFormat.shift[c]) % (wireFormat.max[c] + 1)

\* The colour of the screen, and what each channel of it counts to.
TrueColorOf(p) == IF nativeDepth = 8 THEN WireColors[p] ELSE p
FullChannel == CASE nativeDepth = 8 -> 65535 [] nativeDepth = 16 -> 31 [] nativeDepth = 32 -> 255

\* Rounding down on the way costs at most one step; none is lost at either end.
CloseTo(d, v, full, max) ==
  LET exact == (v * max) \div full IN
  /\ d \in {exact - 1, exact}
  /\ v = 0 => d = 0
  /\ v = full => d = max

\* The client, which knows its own format and the kind of data it is reading, finds as
\* many pixels as there are, and each in the colour of the screen: whichever of the
\* cursor, the tiles and the formats came before and left its sizes behind. (A cursor has
\* no colours on a screen in true colour: it must only have the right length.)
WireDecoded ==
  LET n == ClientBytes(wireSent.kind)
      pixel(i) == SubSeq(wireSent.bytes, n * (i - 1) + 1, n * i) IN
  /\ Len(wireSent.bytes) = n * Len(wireSent.colors)
  /\ ~(wireSent.kind = "cursor" /\ nativeDepth >= 16) =>
       \A i \in DOMAIN wireSent.colors :
         IF wireFormat.trueColor
         THEN \A c \in Channels :
                CloseTo(ClientChannel(pixel(i), c), TrueColorOf(wireSent.colors[i])[c],
                        FullChannel, wireFormat.max[c])
         ELSE pixel(i) = <<wireSent.colors[i]>>
=============================================================================
