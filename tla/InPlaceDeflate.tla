---------------------------- MODULE InPlaceDeflate ----------------------------
(***************************************************************************)
(* Compression in place (VNCEncoder::getCompressedChunk and the part of    *)
(* miniz that decides when input is taken and output given). One buffer    *)
(* holds the compressed bytes at its front and, Scratch bytes further on,  *)
(* the tile that is being compressed. Positions count from the start of    *)
(* fbUpdateBuffer. What a byte is does not matter here, only where it is.  *)
(***************************************************************************)
EXTENDS Integers

CONSTANTS
  BufSize,   \* fbUpdateBufferSize
  Prefix,    \* sizeof(unsigned long): room for the length of the data
  Scratch,   \* zLibScratchSpace
  SolidLen,  \* a solid tile, the only one that is written without a look at the room
  CodeLimit, \* so many bytes may fill m_lz_code_buf, if they have no repetitions
  CodeMax,   \* so many bytes fill it whatever they are
  Overhead,  \* a block may be longer than what it stands for, by this
  MaxSend,   \* 0xFFFF, the longest entry of a write data structure
  TileLens,  \* how long an encoded tile can be
  Loaded     \* whether compressSetup found the memory: what is possible

ASSUME BufferAssumption ==
  /\ BufSize \in Nat /\ Prefix \in Nat /\ Scratch \in Nat \ {0}
  /\ SolidLen \in Nat \ {0} /\ TileLens \subseteq Nat \ {0}
  /\ CodeLimit \in Nat \ {0} /\ CodeMax \in Nat /\ CodeLimit <= CodeMax
  /\ Overhead \in Nat \ {0} /\ MaxSend \in Nat
  /\ Loaded \subseteq BOOLEAN

VARIABLES
  next_out, next_in,   \* where the next byte is written, and read
  avail_out, avail_in, \* room there, and bytes there
  gotMore,             \* FALSE: the subrectangle ends with the tile in the buffer
  gotMoreAfterwards,   \* what getCompressedChunk will return
  held,                \* bytes that miniz has taken in and not coded
  remaining,           \* m_output_flush_remaining: coded bytes not yet given out
  zLibLoaded,
  zpc                  \* the place in getCompressedChunk

position == <<next_out, next_in, avail_out, avail_in>>
miniz    == <<held, remaining>>
zvars    == <<position, miniz, gotMore, gotMoreAfterwards, zLibLoaded, zpc>>

Lesser(a, b) == IF a < b THEN a ELSE b

ZInit ==
  /\ next_out = 0 /\ next_in = 0 /\ avail_out = 0 /\ avail_in = 0
  /\ gotMore = TRUE /\ gotMoreAfterwards = TRUE
  /\ held = 0 /\ remaining = 0 /\ zLibLoaded \in Loaded /\ zpc = "idle"

total_out == next_out - Prefix

BeginCompressed ==
  /\ zpc = "idle"
  /\ next_out' = Prefix /\ next_in' = 0 /\ avail_out' = 0 /\ avail_in' = 0
  /\ gotMore' = TRUE /\ gotMoreAfterwards' = TRUE
  /\ zpc' = "loop"
  /\ UNCHANGED <<miniz, zLibLoaded>>

----------------------------------------------------------------------------
(* The head of the loop: the next tile, ahead of the compressed bytes.       *)

NeedsTile == zpc = "loop" /\ gotMore /\ avail_in = 0
Room      == BufSize - (next_out + Scratch)

\* getUncompressedChunk has written len bytes; after is what it returned, and
\* newSubrect what isNewSubrect() says then.
Fetch(len, after, newSubrect) ==
  /\ NeedsTile /\ Room > 0
  /\ next_in' = next_out + Scratch
  /\ avail_in' = len
  /\ avail_out' = Scratch
  /\ gotMoreAfterwards' = after
  /\ gotMore' = (after /\ ~newSubrect)
  /\ zpc' = "call"
  /\ UNCHANGED <<next_out, miniz, zLibLoaded>>

\* "Temp buffer insufficient for uncompressed data. Aborting!"
NoRoom ==
  /\ NeedsTile /\ Room <= 0
  /\ zpc' = "aborted"
  /\ UNCHANGED <<position, miniz, gotMore, gotMoreAfterwards, zLibLoaded>>

----------------------------------------------------------------------------
(* tdefl_compress, with TDEFL_SYNC_FLUSH for the last tile (gotMore FALSE).  *)

\* A block of n coded bytes: as many as there is room for go out, the rest remains.
PutBlock(n) ==
  LET out == Lesser(n, avail_out) IN
  /\ next_out' = next_out + out
  /\ avail_out' = avail_out - out
  /\ remaining' = n - out

\* What remains of the last block goes out first, and then nothing is taken in.
FlushOutputBuffer ==
  /\ zpc = "call" /\ zLibLoaded /\ remaining > 0
  /\ PutBlock(remaining)
  /\ zpc' = "returned"
  /\ UNCHANGED <<next_in, avail_in, held, gotMore, gotMoreAfterwards, zLibLoaded>>

\* tdefl_compress_normal takes in all there is, without filling its code buffer.
CompressNormal ==
  /\ zpc = "call" /\ zLibLoaded /\ remaining = 0
  /\ held + avail_in < CodeMax
  /\ held' = held + avail_in
  /\ next_in' = next_in + avail_in /\ avail_in' = 0
  /\ zpc' = IF gotMore THEN "returned" ELSE "flush"
  /\ UNCHANGED <<next_out, avail_out, remaining, gotMore, gotMoreAfterwards, zLibLoaded>>

\* The codes of n more bytes fill m_lz_code_buf: tdefl_flush_block(0). If the block
\* does not fit, tdefl_compress ends here.
CodeBufferFull(n, block) ==
  /\ zpc = "call" /\ zLibLoaded /\ remaining = 0
  /\ n <= avail_in /\ held + n >= CodeLimit /\ block <= held + n + Overhead
  /\ PutBlock(block)
  /\ held' = 0
  /\ next_in' = next_in + n /\ avail_in' = avail_in - n
  /\ zpc' = IF remaining' > 0 THEN "returned" ELSE "call"
  /\ UNCHANGED <<gotMore, gotMoreAfterwards, zLibLoaded>>

\* The input is used up: the block and the marker of a sync flush.
FlushBlock(block) ==
  /\ zpc = "flush" /\ block <= held + Overhead
  /\ PutBlock(block)
  /\ held' = 0
  /\ zpc' = "returned"
  /\ UNCHANGED <<next_in, avail_in, gotMore, gotMoreAfterwards, zLibLoaded>>

\* Without a compressor the call returns TDEFL_STATUS_BAD_PARAM.
CompressFails ==
  /\ zpc = "call" /\ ~zLibLoaded
  /\ zpc' = "aborted"
  /\ UNCHANGED <<position, miniz, gotMore, gotMoreAfterwards, zLibLoaded>>

----------------------------------------------------------------------------
(* After the call.                                                           *)

Succeeded == zpc = "returned" /\ avail_out # 0 /\ ~gotMore

Finish ==
  /\ Succeeded
  /\ zpc' = "done"
  /\ UNCHANGED <<position, miniz, gotMore, gotMoreAfterwards, zLibLoaded>>

copy_to   == BufSize - avail_in
Continues == IF gotMore /\ avail_in = 0 THEN "loop" ELSE "call"

\* The room is now the gap between the last byte written and the next one to read.
CompressMore ==
  /\ zpc = "returned" /\ ~Succeeded
  /\ next_in # next_out
  /\ avail_out' = next_in - next_out
  /\ zpc' = Continues
  /\ UNCHANGED <<next_out, next_in, avail_in, miniz, gotMore, gotMoreAfterwards, zLibLoaded>>

\* A faulty variant: the room is taken to be all that is free, not only the gap.
MoveInputTooFar ==
  /\ zpc = "returned" /\ ~Succeeded
  /\ next_in = next_out /\ copy_to > next_in
  /\ next_in' = copy_to
  /\ avail_out' = BufSize - next_out
  /\ zpc' = Continues
  /\ UNCHANGED <<next_out, avail_in, miniz, gotMore, gotMoreAfterwards, zLibLoaded>>

\* There is no gap: what is left of the tile moves to the end of the buffer.
MoveInput ==
  /\ zpc = "returned" /\ ~Succeeded
  /\ next_in = next_out /\ copy_to > next_in
  /\ next_in' = copy_to
  /\ avail_out' = copy_to - next_out
  /\ zpc' = Continues
  /\ UNCHANGED <<next_out, avail_in, miniz, gotMore, gotMoreAfterwards, zLibLoaded>>

\* "Output buffer insufficient for compressed stream. Aborting!"
NoOutputRoom ==
  /\ zpc = "returned" /\ ~Succeeded
  /\ next_in = next_out /\ copy_to <= next_in
  /\ zpc' = "aborted"
  /\ UNCHANGED <<position, miniz, gotMore, gotMoreAfterwards, zLibLoaded>>

\* What is sent of a chunk: nothing if its data is too long for an entry, else the prefix
\* and the data, whose length an entry cuts to 16 bits.
TooMuch     == total_out > MaxSend
EntryLength == IF TooMuch THEN 0 ELSE (total_out + Prefix) % (MaxSend + 1)

\* Whatever ended the loop, getCompressedChunk returns. The positions were local.
EndCompressed ==
  /\ zpc \in {"done", "aborted"}
  /\ zpc' = "idle"
  /\ next_out' = 0 /\ next_in' = 0 /\ avail_out' = 0 /\ avail_in' = 0
  /\ gotMore' = TRUE /\ gotMoreAfterwards' = TRUE
  /\ UNCHANGED <<miniz, zLibLoaded>>

----------------------------------------------------------------------------

Compress ==
  \/ BeginCompressed
  \/ NoRoom
  \/ FlushOutputBuffer
  \/ CompressNormal
  \/ \E n \in 0 .. avail_in, block \in 1 .. held + avail_in + Overhead : CodeBufferFull(n, block)
  \/ \E block \in 1 .. held + Overhead : FlushBlock(block)
  \/ CompressFails
  \/ Finish
  \/ CompressMore
  \/ MoveInput
  \/ NoOutputRoom

\* How long a tile is: as it is encoded if there is room for that, a solid tile if not.
Length(len) == IF len <= Room THEN len ELSE SolidLen

ZNext ==
  \/ Compress
  \/ EndCompressed
  \/ \E len \in TileLens, after, newSubrect \in BOOLEAN : Fetch(Length(len), after, newSubrect)

ZSpec == ZInit /\ [][ZNext]_zvars

----------------------------------------------------------------------------
(* Properties.                                                               *)

ZTypeOK ==
  /\ next_out \in Nat /\ next_in \in Nat /\ avail_out \in Nat /\ avail_in \in Nat
  /\ gotMore \in BOOLEAN /\ gotMoreAfterwards \in BOOLEAN
  /\ held \in Nat /\ remaining \in Nat /\ zLibLoaded \in BOOLEAN
  /\ zpc \in {"idle", "loop", "call", "flush", "returned", "done", "aborted"}

Compressing == zpc \in {"call", "flush", "returned"}

\* Compression in place never destroys what it has not read: from the length word on,
\* the buffer is compressed bytes, a gap, and the bytes still to compress, in this
\* order, and miniz is never given more room than the gap. Of the end of the buffer,
\* only a solid tile can pass it, by less than its length.
OutputBehindInput ==
  Compressing =>
    /\ Prefix <= next_out
    /\ next_out + avail_out <= next_in
    /\ next_in + avail_in < BufSize + SolidLen

\* Where the loop ends with "Compression completed successfully", nothing of the
\* subrectangle is left in the buffer or in miniz.
NothingLeftBehind ==
  zpc = "done" => avail_in = 0 /\ held = 0 /\ remaining = 0
=============================================================================
