---------------------------- MODULE NativeTilesAsm ----------------------------
(***************************************************************************)
(* The routines of NativeTiles as they are written for the 68020           *)
(* (VNCEncodeTilesASM.cpp), which the CodeWarrior build uses in place of   *)
(* those in C. nativeToRle is a machine of its own, one action for what    *)
(* lies between two labels; words and pixels are those of NativeTiles.     *)
(***************************************************************************)
EXTENDS NativeTiles

CONSTANT RleJobs  \* [depth, pixels, packRuns, colorSize, stop]

ASSUME RleAssumption ==
  \A j \in RleJobs :
    /\ j.depth \in {1, 2, 4, 8} /\ j.stop \in Nat /\ j.colorSize \in 1..4
    /\ j.packRuns \in BOOLEAN /\ j.pixels \in Seq(0..(NativeColors(j.depth) - 1))
    /\ Len(j.pixels) > 0 /\ 2 * Len(j.pixels) % PixelsPerWord(j.depth) = 0

VARIABLES
  job,         \* the arguments
  src,         \* the word that is read next
  carry,       \* the pixel before it
  test,        \* the pixels that the inner loop has still to compare, 0 where equal
  loop,        \* how many there are, less one
  rleCnt, rleVal,
  dst,         \* what was written
  runsOfOne,
  rpc          \* the label

run   == <<src, carry, test, loop, rleCnt, rleVal>>
avars == <<job, run, dst, runsOfOne, rpc>>

----------------------------------------------------------------------------
(* Colours and packed pixels.                                                *)

\* encodeTile makes a half word whole with the last byte, twice.
Adjusted(depth, pixels) ==
  LET n == 8 \div depth  lastByte == SubSeq(pixels, Len(pixels) + 1 - n, Len(pixels)) IN
  IF HalfWord(depth, pixels) THEN pixels \o lastByte \o lastByte ELSE pixels

\* native16ToColors: a word of one colour adds it, and of a word with two colours on a
\* 1-bit screen everything is known. native256ToColors adds the bytes of a word.
AsmTally(depth, pixels) ==
  LET words == Words(depth, Adjusted(depth, pixels))
      ofWord(w) == IF \A i \in DOMAIN w : w[i] = w[1] THEN {w[1]}
                   ELSE IF depth = 1 THEN {0, 1} ELSE Range(w) IN
  UNION {ofWord(words[w]) : w \in DOMAIN words}

\* What counts the colours is the index, cut to 7 bits: more than 127 are few again.
AsmColorTable(tally) == [ColorTable(tally) EXCEPT !.nColors = Cardinality(tally) % 128]

AsmToColors(depth, pixels) == AsmColorTable(AsmTally(depth, pixels))

\* With one bit for a pixel the map is not used: a pixel is compared with the first colour.
AsmToPacked(row, outDepth, info) ==
  [i \in DOMAIN row |-> IF outDepth = 1 THEN IF row[i] = info.colorPal[1] THEN 0 ELSE 1
                        ELSE Place(info.colorMap, row[i])]

----------------------------------------------------------------------------
(* nativeToRle.                                                              *)

Info == NativeToColors(job.pixels)
How  == RleHow(job.depth, job.pixels, job.stop, Info, job.packRuns, job.colorSize)

\* Between two calls.
AsmInit ==
  /\ job \in RleJobs
  /\ src = 1 /\ carry = job.pixels[1] /\ test = <<>> /\ loop = 0
  /\ rleCnt = MaxCount - 1 /\ rleVal = job.pixels[1]
  /\ dst = <<>> /\ runsOfOne = 0 /\ rpc = "readNextLongword"

AllZero(s) == \A i \in DOMAIN s : s[i] = 0

\* A faulty variant: the carry is the first pixel of the word, not the last.
CarryOfFirst(word) == word[1]

CarryInto(word) == Last(word)

\* A word is compared with itself moved on by one pixel, the carry in front of it.
ReadNextLongword ==
  /\ rpc = "readNextLongword" /\ src <= Len(Words(job.depth, job.pixels))
  /\ src' = src + 1
  /\ LET curr == Words(job.depth, job.pixels)[src]
         diff == [i \in DOMAIN curr |->
                    Differs(curr[i], IF i = 1 THEN carry ELSE curr[i - 1])] IN
     IF AllZero(diff)
     THEN /\ rleCnt' = (rleCnt + PixelsPerWord(job.depth)) % MaxCount
          /\ UNCHANGED <<carry, test, loop, rpc>>
     ELSE /\ carry' = CarryInto(curr) /\ test' = diff
          /\ loop' = PixelsPerWord(job.depth) - 1
          /\ rpc' = "findNextPixel" /\ UNCHANGED rleCnt
  /\ UNCHANGED <<job, rleVal, dst, runsOfOne>>

\* The end of the inner loop, dbeq: the pixels that are left belong to the run when no
\* difference is left, and are counted at once.
NextPixel(count) ==
  /\ test' = Tail(test)
  /\ IF AllZero(Tail(test)) \/ loop = 0
     THEN /\ rleCnt' = (count + (IF AllZero(Tail(test)) THEN loop ELSE -1)) % MaxCount
          /\ rpc' = "readNextLongword" /\ loop' = 0
     ELSE /\ rleCnt' = count /\ loop' = loop - 1 /\ UNCHANGED rpc

FindNextPixel ==
  /\ rpc = "findNextPixel" /\ Head(test) = 0
  /\ NextPixel((rleCnt + 1) % MaxCount)
  /\ UNCHANGED <<job, src, carry, rleVal, dst, runsOfOne>>

AsmPair(count) ==
  /\ dst' = dst \o Pair(How, rleVal, count)
  /\ runsOfOne' = IF count = 0 /\ job.packRuns THEN runsOfOne + 1 ELSE runsOfOne

\* The pixel differs: the run is written, and the rest is given up when it is too long.
WriteRle ==
  /\ rpc = "findNextPixel" /\ Head(test) # 0
  /\ AsmPair(rleCnt)
  /\ rleVal' = Differs(rleVal, Head(test))
  /\ IF Len(dst') <= job.stop THEN NextPixel(0)
     ELSE rpc' = "done" /\ rleCnt' = 0 /\ UNCHANGED <<test, loop>>
  /\ UNCHANGED <<job, src, carry>>

\* The last run, without the pixels of padding.
WriteRleLast ==
  /\ rpc = "readNextLongword" /\ src > Len(Words(job.depth, job.pixels))
  /\ LET padded == HalfWord(job.depth, job.pixels)
         count  == IF padded THEN (rleCnt - 16) % MaxCount ELSE rleCnt IN
     IF padded /\ rleCnt < 15 THEN UNCHANGED <<dst, runsOfOne>>
     ELSE /\ dst' = dst \o Pair(How, rleVal, count)
          /\ runsOfOne' = runsOfOne
               + (IF count = 0 /\ job.packRuns THEN 1 ELSE 0)
               - (IF padded /\ count = 0 THEN 1 ELSE 0)
  /\ rpc' = "done" /\ UNCHANGED <<job, run>>

AsmNext == ReadNextLongword \/ FindNextPixel \/ WriteRle \/ WriteRleLast

AsmSpec == AsmInit /\ [][AsmNext]_avars

\* What the machine has written when it ends is what the routine in C writes, and so are
\* the runs of one pixel that it counts: also when it gives up. The colours and the packed
\* pixels are the same too.
TwinsAgree ==
  rpc = "done" =>
    LET c == NativeToRle(job.depth, job.pixels, How) IN
    /\ dst = c.out /\ runsOfOne = c.ones
    /\ AsmToColors(job.depth, job.pixels) = Info
    /\ \A bits \in {1, 2, 4} :
         Info.nColors <= 2 ^ bits =>
           AsmToPacked(job.pixels, bits, Info) = NativeToPacked(job.pixels, bits, Info)
=============================================================================
