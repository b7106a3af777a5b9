---------------------------- MODULE HextileEncoder ----------------------------
(***************************************************************************)
(* Hextile on an indexed screen (VNCEncodeHextile.cpp): a tile is covered  *)
(* by rectangles, those of the most frequent colour are left out, and the  *)
(* colours that the client still has from the tile before are not sent     *)
(* again. A tile is [rows, cols, pixels], as in TileEncoder.               *)
(***************************************************************************)
EXTENDS NativeTiles

CONSTANTS
  HexDepth,       \* of the screen
  HexColorBytes,  \* bytes of a colour on the wire
  HexTiles,       \* [rows, cols, pixels]
  HexBytesAvail   \* what may be left of the buffer when a tile is encoded

\* A row is read by whole longs, but from a 1-bit screen by half longs.
ASSUME HextileAssumption ==
  /\ HexDepth \in {1, 2, 4, 8} /\ HexColorBytes \subseteq 1..4 /\ HexBytesAvail \subseteq Nat
  /\ \A t \in HexTiles :
       /\ t.rows \in 1..16 /\ t.cols \in 1..16
       /\ t.pixels \in Seq(0..(NativeColors(HexDepth) - 1)) /\ Len(t.pixels) = t.rows * t.cols
       /\ 2 * Len(t.pixels) % PixelsPerWord(HexDepth) = 0
       /\ HalfWord(HexDepth, t.pixels) => HexDepth = 1

VARIABLES
  lastBg, lastFg,       \* of the encoder; NoColor: -1
  clientBg, clientFg,   \* of the client
  hexBytes,             \* bytesPerColor
  painted               \* the last tile, and what the client sees of it

hvars == <<lastBg, lastFg, clientBg, clientFg, hexBytes, painted>>

NoColor == -1
NoTile  == [pixels |-> <<>>, decoded |-> <<>>]

HexInit ==
  /\ hexBytes \in HexColorBytes
  /\ lastBg = NoColor /\ lastFg = NoColor /\ clientBg = NoColor /\ clientFg = NoColor
  /\ painted = NoTile

----------------------------------------------------------------------------
(* The rectangles of a tile, in the order of the screen. A rectangle is      *)
(* [c, x, y, w, b], w one less than its width, b the row below it.           *)

\* nativeToRle with one byte for each colour and one for each count: pairs.
HexRuns(t) ==
  LET info == [nColors |-> 256, colorPal |-> <<>>, colorMap |-> <<>>]
      bytes == NativeToRle(HexDepth, t.pixels,
                 RleHow(HexDepth, t.pixels, 512, info, FALSE, 1)).out IN
  [i \in 1..(Len(bytes) \div 2) |-> [color |-> bytes[2 * i - 1], count |-> bytes[2 * i] + 1]]

\* A faulty variant: the colours are not compared.
MergesAnyColor(new, candidate) ==
  new.y = candidate.b /\ new.w = candidate.w /\ new.x = candidate.x

Merges(new, candidate) ==
  /\ new.y = candidate.b /\ new.c = candidate.c
  /\ new.w = candidate.w /\ new.x = candidate.x

\* The state of the loops: the place, the run and what is left of it, the rectangles, and
\* in top the last rectangle that begins in a column (0: none has, which is also found as
\* the first of all, and is the rectangle itself before there is one).
RectStep(t, runs, s) ==
  LET full == s.left >= t.cols /\ s.x = 0
      h    == IF full THEN s.left \div t.cols ELSE 1
      w    == IF full THEN t.cols ELSE IF s.left < t.cols - s.x THEN s.left ELSE t.cols - s.x
      new  == [c |-> runs[s.run].color, x |-> s.x, y |-> s.y, w |-> w - 1, b |-> s.y + h]
      left == s.left - h * w
      end  == s.x + w = t.cols
      merge == s.rects # <<>> /\ Merges(new, s.rects[s.top[s.x]])
      next == left = 0 /\ s.run < Len(runs) IN
  [rects |-> IF merge THEN [s.rects EXCEPT ![s.top[s.x]].b = @ + 1] ELSE Append(s.rects, new),
   top   |-> IF merge THEN s.top ELSE [s.top EXCEPT ![s.x] = Len(s.rects) + 1],
   x     |-> IF end THEN 0 ELSE s.x + w,
   y     |-> IF end THEN s.y + h ELSE s.y,
   run   |-> IF left = 0 THEN s.run + 1 ELSE s.run,
   left  |-> IF next THEN runs[s.run + 1].count ELSE left]

Rects(t) ==
  LET runs == HexRuns(t)
      s0 == [rects |-> <<>>, top |-> [x \in 0..15 |-> 1], x |-> 0, y |-> 0,
             run |-> 1, left |-> runs[1].count]
      after[n \in 0..(t.rows * t.cols)] ==
        IF n = 0 THEN s0
        ELSE LET s == after[n - 1] IN
             IF s.y >= t.rows THEN s ELSE RectStep(t, runs, s) IN
  after[t.rows * t.cols].rects

RectsOf == [t \in HexTiles |-> Rects(t)]

----------------------------------------------------------------------------
(* The tile that is sent: [flags, bg, fg, rects], or [flags, pixels] raw.    *)

CountOf(rects, c) == Cardinality({i \in DOMAIN rects : rects[i].c = c})

\* The colour of most rectangles, the last of them if there are several.
Background(rects) ==
  LET colours == {rects[i].c : i \in DOMAIN rects} IN
  CHOOSE c \in colours : \A d \in colours :
    \/ CountOf(rects, d) < CountOf(rects, c)
    \/ CountOf(rects, d) = CountOf(rects, c) /\ d <= c

HexForms(rects, bg) ==
  LET others  == [i \in {j \in DOMAIN rects : rects[j].c # bg} |-> rects[i]]
      nOthers == Cardinality(DOMAIN others)
      colours == {rects[i].c : i \in DOMAIN rects}
      nColors == Cardinality(colours) % 256
      fg      == IF nColors = 2 THEN CHOOSE c \in colours : c # bg ELSE NoColor
      newBg   == IF lastBg # bg THEN 1 ELSE 0
      newFg   == IF lastFg # fg THEN 1 ELSE 0
      raw     == [form |-> "raw", len |-> 1 + 256 * hexBytes, bg |-> NoColor, fg |-> NoColor,
                  rects |-> <<>>]
      two     == [form |-> "two", len |-> 2 + (newBg + newFg) * hexBytes + 2 * nOthers,
                  bg |-> bg, fg |-> fg, rects |-> others]
      many    == [form |-> "many", len |-> 2 + newBg * hexBytes + nOthers * (2 + hexBytes),
                  bg |-> bg, fg |-> NoColor, rects |-> others]
      solid   == [form |-> "solid", len |-> 1 + newBg * hexBytes, bg |-> bg, fg |-> lastFg,
                  rects |-> <<>>] IN
  [others |-> IF nColors > 1 THEN {IF nColors = 2 THEN two ELSE many} ELSE {},
   last   |-> IF nColors > 1 THEN raw ELSE solid]

BackgroundOf == [t \in HexTiles |-> Background(RectsOf[t])]
HexTile(t) == HexForms(RectsOf[t], BackgroundOf[t])

\* The first form that fits into the buffer, but not one longer than raw.
FirstFitting(tile, bytesAvail) ==
  LET fits(f) == f.len <= bytesAvail
      good == {f \in tile.others : fits(f) /\ f.len <= tile.last.len} IN
  IF good # {} THEN good ELSE {f \in {tile.last} : fits(f)}

FgAfter(f) == f.fg

----------------------------------------------------------------------------
(* A client, after the description of the encoding in the RFB protocol: what *)
(* is not in the tile is left from the tile before. A raw tile and coloured  *)
(* rectangles leave nothing that can be relied on.                           *)

Covers(r, x, y) == x \in r.x..(r.x + r.w) /\ y \in r.y..(r.b - 1)

\* Later rectangles lie above earlier ones.
PixelAt(f, bg, fg, x, y) ==
  LET over == {i \in DOMAIN f.rects : Covers(f.rects[i], x, y)} IN
  IF over = {} THEN bg
  ELSE IF f.form = "two" THEN fg
  ELSE f.rects[CHOOSE i \in over : \A j \in over : j <= i].c

Paint(t, f, bg, fg) ==
  [i \in 1..(t.rows * t.cols) |-> PixelAt(f, bg, fg, (i - 1) % t.cols, (i - 1) \div t.cols)]

HexBegin ==
  /\ lastBg' = NoColor /\ lastFg' = NoColor
  /\ clientBg' = NoColor /\ clientFg' = NoColor /\ painted' = NoTile
  /\ UNCHANGED hexBytes

\* encodeTile in the form that was chosen; without room for any form nothing is written.
HexEncodeTile(t, f) ==
  /\ lastBg' = f.bg /\ lastFg' = FgAfter(f)
  \* The colours that are sent are those that lastBg and lastFg do not have.
  /\ clientBg' = IF f.form = "raw" THEN NoColor ELSE IF lastBg # f.bg THEN f.bg ELSE clientBg
  /\ clientFg' = CASE f.form \in {"raw", "many"} -> NoColor
                   [] f.form = "two"   -> IF lastFg # f.fg THEN f.fg ELSE clientFg
                   [] f.form = "solid" -> clientFg
  /\ painted' = [pixels  |-> t.pixels,
                 decoded |-> IF f.form = "raw" THEN t.pixels
                             ELSE Paint(t, f, clientBg', clientFg')]
  /\ UNCHANGED hexBytes

HexNext ==
  \/ HexBegin
  \/ \E t \in HexTiles, n \in HexBytesAvail :
       \E f \in FirstFitting(HexTile(t), n) : HexEncodeTile(t, f)

HexSpec == HexInit /\ [][HexNext]_hvars

\* However the rectangles were merged, and whatever colours were left from tiles before,
\* the client sees the tile that is on the screen.
HextileDecoded == painted.decoded = painted.pixels
=============================================================================
