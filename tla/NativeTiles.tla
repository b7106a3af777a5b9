------------------------------ MODULE NativeTiles ------------------------------
(***************************************************************************)
(* The routines on tiles in the format of an indexed screen, as written    *)
(* in C (VNCEncodeTilesC.cpp): a tile is the sequence of its pixels, which *)
(* the code reads 32 bits at a time, leftmost pixel first. A word is the   *)
(* sequence of its 32 / depth pixels.                                      *)
(***************************************************************************)
EXTENDS Integers, FiniteSets, SequencesExt

NativeColors(depth) == 2 ^ depth
PixelsPerWord(depth) == 32 \div depth

\* What is left of a colour when it is compared by exclusive or, bit by bit: 0 when they are
\* equal.
Differs(a, b) ==
  LET bit(k) == k * ((a \div k + b \div k) % 2) IN
  IF a = b THEN 0
  ELSE bit(1) + bit(2) + bit(4) + bit(8) + bit(16) + bit(32) + bit(64) + bit(128)

----------------------------------------------------------------------------
(* The colours of a tile.                                                    *)

\* struct ColorInfo. colorPal has 127 entries, of which the first nColors are in use,
\* in ascending order; colorMap takes a colour to its place there.
PaletteSize == 127

\* The table of the colours that were found. nColors is a byte, and so is what counts
\* them; the index is cut to 7 bits, and index 127 falls behind colorPal, on colorMap[0].
ColorTable(found) ==
  LET count    == Cardinality(found)
      index(c) == Cardinality({d \in found : d < c})
      last(i)  == CHOOSE c \in found :
                    /\ index(c) % 128 = i
                    /\ \A d \in found : index(d) % 128 = i => d <= c
      place(c) == IF c = 0 /\ count > PaletteSize THEN last(PaletteSize) ELSE index(c) IN
  [nColors  |-> count % 256,
   colorPal |-> [i \in 1..(IF count < PaletteSize THEN count ELSE PaletteSize) |-> last(i - 1)],
   colorMap |-> [c \in found |-> place(c) % 128]]

NativeToColors(pixels) == ColorTable(Range(pixels))

\* The place of a colour. The entries of other colours are not set; any value will do.
Place(colorMap, c) == IF c \in DOMAIN colorMap THEN colorMap[c] ELSE 0

NoColorInfo == [nColors |-> 0, colorPal |-> <<>>, colorMap |-> <<>>]

----------------------------------------------------------------------------
(* Run lengths.                                                              *)

MaxCount == 65536

\* The bytes of a count: one less than the pixels of the run.
Counts(count) == [i \in 1..(count \div 255) |-> 255] \o <<count % 255>>

\* A half word at the end is made a whole one.
HalfWord(depth, pixels) == Len(pixels) % PixelsPerWord(depth) # 0

Words(depth, pixels) ==
  LET n      == PixelsPerWord(depth)
      padded == IF HalfWord(depth, pixels)
                THEN pixels \o [i \in 1..(n \div 2) |-> 0] ELSE pixels IN
  [w \in 1..(Len(padded) \div n) |-> SubSeq(padded, (w - 1) * n + 1, w * n)]

\* Whether a colour has an entry in the palette of its own, or stands for itself.
MapsColors(depth, nColors) == nColors < NativeColors(depth)

\* The bytes between a colour and its count are left for a colour of colorSize bytes.
Gap == -1

\* The pair that stands for count + 1 pixels of a colour: the colour alone for a single
\* pixel, when runs are packed.
Pair(how, val, count) ==
  LET color == IF how.mapColors THEN Place(how.colorMap, val) ELSE val IN
  IF count = 0 /\ how.packRuns THEN <<color>>
  ELSE <<IF how.packRuns /\ color < 128 THEN 128 + color ELSE color>>
       \o [i \in 1..(how.colorSize - 1) |-> Gap] \o Counts(count)

\* The state of the loop: rleCnt, rleVal, the carry into the next word, what was written,
\* the runs of one pixel, and whether the output has become longer than stop.
Write(how, s) ==
  LET out == s.out \o Pair(how, s.val, s.cnt) IN
  [s EXCEPT !.out = out, !.stopped = Len(out) > how.stop,
            !.ones = IF s.cnt = 0 /\ how.packRuns THEN s.ones + 1 ELSE s.ones]

PixelStep(how, s, diff) ==
  IF s.stopped THEN s
  ELSE IF diff = 0 THEN [s EXCEPT !.cnt = (s.cnt + 1) % MaxCount]
  ELSE LET w == Write(how, s) IN
       IF w.stopped THEN w ELSE [w EXCEPT !.val = Differs(s.val, diff), !.cnt = 0]

\* A word of one colour is counted at once; another hands its last pixel on.
WordStep(how, s, word) ==
  LET diffs == [i \in DOMAIN word |->
                  Differs(word[i], IF i = 1 THEN s.carry ELSE word[i - 1])] IN
  IF s.stopped THEN s
  ELSE IF \A i \in DOMAIN diffs : diffs[i] = 0
       THEN [s EXCEPT !.cnt = (s.cnt + Len(word)) % MaxCount]
  ELSE LET after[i \in 0..Len(word)] ==
             IF i = 0 THEN s ELSE PixelStep(how, after[i - 1], diffs[i]) IN
       [after[Len(word)] EXCEPT !.carry = Last(word)]

\* The pixels of padding are taken from the last run; the numbers are those of 1-bit
\* screens, where the padding is 16 pixels.
WriteLast(how, s) ==
  LET cnt == IF how.padded THEN (s.cnt - 16) % MaxCount ELSE s.cnt IN
  IF s.stopped \/ (how.padded /\ s.cnt < 15) THEN s
  ELSE LET w == Write(how, [s EXCEPT !.cnt = cnt]) IN
       IF how.padded /\ cnt = 0 THEN [w EXCEPT !.ones = w.ones - 1] ELSE w

RleHow(depth, pixels, stop, info, packRuns, colorSize) ==
  [stop |-> stop, packRuns |-> packRuns, colorSize |-> colorSize,
   mapColors |-> MapsColors(depth, info.nColors), colorMap |-> info.colorMap,
   padded |-> HalfWord(depth, pixels)]

\* rleCnt starts one below 0: the first pixel is compared with itself.
NativeToRle(depth, pixels, how) ==
  LET words == Words(depth, pixels)
      s0 == [cnt |-> MaxCount - 1, val |-> pixels[1], carry |-> pixels[1], out |-> <<>>,
             ones |-> 0, stopped |-> FALSE]
      after[w \in 0..Len(words)] ==
        IF w = 0 THEN s0 ELSE WordStep(how, after[w - 1], words[w]) IN
  WriteLast(how, after[Len(words)])

----------------------------------------------------------------------------
(* Packed pixels.                                                            *)

\* The row is written a long word at a time and counted in whole bytes; what it holds is
\* the place of each colour in the palette, cut to the bits of a pixel.
NativeToPacked(row, outDepth, info) ==
  [i \in DOMAIN row |-> Place(info.colorMap, row[i]) % (2 ^ outDepth)]
=============================================================================
