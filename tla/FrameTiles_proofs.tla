--------------------------- MODULE FrameTiles_proofs ---------------------------
(***************************************************************************)
(* Compression in place is safe for buffers, tiles and blocks of any size, *)
(* and a frame is what its headers announce.                               *)
(*                                                                         *)
(* The first argument needs two facts beside the property: inside the loop *)
(* the output is behind the length word even before the first tile is      *)
(* there, and the head of the loop is only reached with no input left. It  *)
(* is made for InPlaceDeflate alone; a frame then takes only steps of that *)
(* module. What a frame consists of, and that the program goes through it, *)
(* comes after that.                                                       *)
(***************************************************************************)
EXTENDS FrameTiles, NaturalsInduction, WellFoundedInduction, TLAPS

Running == zpc \in {"loop", "call", "flush", "returned"}

ZInv ==
  /\ ZTypeOK
  /\ Running => Prefix <= next_out
  /\ OutputBehindInput
  /\ zpc = "loop" => gotMore /\ avail_in = 0

USE DEF Running, Compressing

\* A block that is given out moves the end of the output and the room alike.
LEMMA PutBlockLemma ==
  ASSUME next_out \in Nat, avail_out \in Nat, NEW n \in Nat, PutBlock(n)
  PROVE  /\ next_out' \in Nat /\ avail_out' \in Nat /\ remaining' \in Nat
         /\ next_out' + avail_out' = next_out + avail_out
         /\ next_out <= next_out'
  BY DEF PutBlock, Lesser

\* Initially nothing is being compressed.
LEMMA ZInitially == ZInit => ZInv
  BY BufferAssumption DEF ZInit, ZInv, ZTypeOK, OutputBehindInput

\* A tile is put Scratch bytes ahead, within the buffer or less than a solid tile beyond.
LEMMA FetchStep ==
  ASSUME ZInv, NEW len \in TileLens, NEW after \in BOOLEAN, NEW newSubrect \in BOOLEAN,
         Fetch(Length(len), after, newSubrect)
  PROVE  ZInv'
<1>1. Length(len) \in Nat /\ Length(len) <= Room + SolidLen - 1
  BY BufferAssumption DEF Length, Room, Fetch, ZInv, ZTypeOK
<1>2. ZTypeOK'
  BY <1>1, BufferAssumption DEF Fetch, ZInv, ZTypeOK, miniz
<1>3. (Running => Prefix <= next_out)'
  BY DEF Fetch, NeedsTile, ZInv
<1>4. OutputBehindInput'
  BY <1>1, <1>3, BufferAssumption DEF Fetch, Room, OutputBehindInput, ZInv, ZTypeOK
<1>5. (zpc = "loop" => gotMore /\ avail_in = 0)'
  BY DEF Fetch
<1>. QED BY <1>2, <1>3, <1>4, <1>5 DEF ZInv

\* Every step of the loop preserves the invariant.
LEMMA CompressLemma == ZInv /\ Compress => ZInv'
<1>. SUFFICES ASSUME ZInv, Compress PROVE ZInv'
  OBVIOUS
<1>. USE BufferAssumption DEF ZInv, ZTypeOK, OutputBehindInput, position, miniz
<1>1. CASE BeginCompressed
  BY <1>1 DEF BeginCompressed
<1>2. CASE NoRoom
  BY <1>2 DEF NoRoom
<1>3. CASE FlushOutputBuffer
  <2>1. PutBlock(remaining) /\ zpc = "call"
    BY <1>3 DEF FlushOutputBuffer
  <2>2. QED BY <1>3, <2>1, PutBlockLemma DEF FlushOutputBuffer
<1>4. CASE CompressNormal
  BY <1>4 DEF CompressNormal
<1>5. ASSUME NEW n \in 0 .. avail_in, NEW block \in 1 .. held + avail_in + Overhead,
             CodeBufferFull(n, block)
      PROVE  ZInv'
  <2>1. PutBlock(block) /\ zpc = "call" /\ block \in Nat /\ n \in Nat /\ n <= avail_in
    BY <1>5 DEF CodeBufferFull
  <2>2. zpc' \in {"call", "returned"} /\ next_in' = next_in + n /\ avail_in' = avail_in - n
    BY <1>5 DEF CodeBufferFull
  <2>3. QED BY <1>5, <2>1, <2>2, PutBlockLemma DEF CodeBufferFull
<1>6. ASSUME NEW block \in 1 .. held + Overhead, FlushBlock(block)
      PROVE  ZInv'
  <2>1. PutBlock(block) /\ zpc = "flush" /\ block \in Nat
    BY <1>6 DEF FlushBlock
  <2>2. QED BY <1>6, <2>1, PutBlockLemma DEF FlushBlock
<1>7. CASE CompressFails
  BY <1>7 DEF CompressFails
<1>8. CASE Finish
  BY <1>8 DEF Finish
<1>9. CASE CompressMore
  BY <1>9 DEF CompressMore, Continues
<1>10. CASE MoveInput
  BY <1>10 DEF MoveInput, Continues, copy_to
<1>11. CASE NoOutputRoom
  BY <1>11 DEF NoOutputRoom
<1>. QED
  BY <1>1, <1>2, <1>3, <1>4, <1>5, <1>6, <1>7, <1>8, <1>9, <1>10, <1>11 DEF Compress

\* The end of the call does, too, and so does what leaves these variables alone.
LEMMA ZInductive == ZInv /\ [ZNext]_zvars => ZInv'
<1>. SUFFICES ASSUME ZInv, [ZNext]_zvars PROVE ZInv'
  OBVIOUS
<1>1. CASE Compress
  BY <1>1, CompressLemma
<1>2. CASE EndCompressed
  BY <1>2, BufferAssumption
     DEF EndCompressed, ZInv, ZTypeOK, OutputBehindInput, miniz
<1>3. ASSUME NEW len \in TileLens, NEW after \in BOOLEAN, NEW newSubrect \in BOOLEAN,
             Fetch(Length(len), after, newSubrect)
      PROVE  ZInv'
  BY <1>3, FetchStep
<1>4. CASE UNCHANGED zvars
  BY <1>4 DEF zvars, position, miniz, ZInv, ZTypeOK, OutputBehindInput
<1>. QED BY <1>1, <1>2, <1>3, <1>4 DEF ZNext

\* getCompressedChunk on its own: whatever the tiles are and however well they
\* compress, no byte is overwritten before it was read.
THEOREM DeflateInPlace == ZSpec => []OutputBehindInput
<1>1. ZInv => OutputBehindInput
  BY DEF ZInv
<1>. QED BY <1>1, ZInitially, ZInductive, PTL DEF ZSpec

----------------------------------------------------------------------------
(* Frames.                                                                   *)

\* A frame handles the buffer only as getCompressedChunk does.
LEMMA FrameStepCompresses == [Next]_vars => [ZNext]_zvars
<1>. SUFFICES ASSUME [Next]_vars PROVE [ZNext]_zvars
  OBVIOUS
<1>1. ASSUME NEW r \in Requests, NEW incremental \in BOOLEAN, FBUpdateRequest(r, incremental)
      PROVE  UNCHANGED zvars
  BY <1>1 DEF FBUpdateRequest, SendFBUpdate, PrepareFrame
<1>2. ASSUME NEW r \in DirtyRects, GotDirtyRect(r)
      PROVE  UNCHANGED zvars
  BY <1>2 DEF GotDirtyRect, PrepareFrame
<1>3. CASE StartChunk
  BY <1>3 DEF StartChunk, ZNext, Compress
<1>4. ASSUME NEW len \in TileLens, CompressTile(len)
      PROVE  ZNext
  <2>1. GotMore(tile_x', tile_y') \in BOOLEAN /\ NewSubrect(tile_x', tile_y') \in BOOLEAN
    BY DEF GotMore, NewSubrect
  <2>2. Fetch(Length(len), GotMore(tile_x', tile_y'), NewSubrect(tile_x', tile_y'))
    BY <1>4 DEF CompressTile
  <2>. QED BY <2>1, <2>2 DEF ZNext
<1>5. CASE CompressStep
  BY <1>5 DEF CompressStep, ZNext
<1>6. CASE CompressedChunk
  BY <1>6 DEF CompressedChunk, ZNext
<1>7. CASE FinishFBUpdate
  BY <1>7 DEF FinishFBUpdate, SendFBUpdate, PrepareFrame
<1>8. CASE \/ FormatChanges \/ FBSyncTasks \/ RawLine
           \/ \E hasCursor \in BOOLEAN : SendHeader(hasCursor)
           \/ \E len \in TileLens : EncodeNextTile(len) \/ TileWaits(len)
  BY <1>8 DEF FormatChanges, FBSyncTasks, RawLine, SendHeader, EncodeNextTile, TileWaits
<1>9. CASE UNCHANGED vars
  BY <1>9 DEF vars
<1>. QED BY <1>1, <1>2, <1>3, <1>4, <1>5, <1>6, <1>7, <1>8, <1>9 DEF Next

\* Whatever the screen, the requests and the tiles are, a frame's compressed bytes
\* never overtake the bytes that are still to be compressed.
THEOREM FrameInPlace == Spec => []OutputBehindInput
<1>1. Init => ZInv
  BY ZInitially DEF Init
<1>2. ZInv => OutputBehindInput
  BY DEF ZInv
<1>. QED BY <1>1, <1>2, ZInductive, FrameStepCompresses, PTL DEF Spec

----------------------------------------------------------------------------
(* Remainders.                                                               *)

\* A set of natural numbers has a least element: what an induction would be used for.
LEMMA LeastNat ==
  ASSUME NEW B \in SUBSET Nat, B # {}
  PROVE  \E n \in B : \A k \in B : n <= k
<1>1. PICK n \in B : \A k \in B : ~(<<k, n>> \in OpToRel(<, Nat))
  BY NatLessThanWellFounded, WFMin, Zenon
<1>2. \A k \in B : ~(k < n)
  BY <1>1 DEF OpToRel
<1> QED BY <1>2

LEMMA DivMod ==
  ASSUME NEW a \in Nat, NEW m \in Nat \ {0}
  PROVE  a = m * (a \div m) + (a % m) /\ a \div m \in Nat /\ a % m \in 0 .. m - 1
OBVIOUS

LEMMA DivModIs ==
  ASSUME NEW m \in Nat \ {0}, NEW z \in Nat, NEW t \in 0 .. m - 1
  PROVE  (m * z + t) % m = t /\ (m * z + t) \div m = z
<1> DEFINE n == m * z + t
           q == n \div m
           r == n % m
<1>1. n \in Nat
  OBVIOUS
<1>2. n = m * q + r /\ q \in Nat /\ r \in 0 .. m - 1
  BY <1>1, DivMod
<1>3. m * q + r = m * z + t
  BY <1>2
<1> HIDE DEF n, q, r
<1>4. CASE q = z
  BY <1>2, <1>3, <1>4 DEF n, r, q
<1>5. CASE q < z
  <2>1. PICK d \in Nat : z = q + d + 1
    <3>1. z - q - 1 \in Nat
      BY <1>2, <1>5
    <3> QED BY <1>2, <3>1
  <2>2. m * z = m * q + m * d + m
    BY <1>2, <2>1
  <2>3. m * d \in Nat /\ m * q \in Nat
    BY <1>2, <2>1
  <2> QED BY <1>2, <1>3, <2>2, <2>3
<1>6. CASE q > z
  <2>1. PICK d \in Nat : q = z + d + 1
    <3>1. q - z - 1 \in Nat
      BY <1>2, <1>6
    <3> QED BY <1>2, <3>1
  <2>2. m * q = m * z + m * d + m
    BY <1>2, <2>1
  <2>3. m * d \in Nat /\ m * z \in Nat
    BY <1>2, <2>1
  <2> QED BY <1>2, <1>3, <2>2, <2>3
<1> QED BY <1>2, <1>4, <1>5, <1>6

LEMMA TimesMono ==
  ASSUME NEW s \in Nat \ {0}, NEW a \in Int, NEW b \in Int
  PROVE  /\ a <= b <=> s * a <= s * b
         /\ a < b <=> s * a < s * b
         /\ a < b <=> s * a + s <= s * b
<1>1. ASSUME NEW c \in Int, NEW d \in Int, c < d
      PROVE  s * c + s <= s * d
  <2>1. PICK e \in Nat : d = c + e + 1
    <3>1. d - c - 1 \in Nat
      BY <1>1
    <3> QED BY <1>1, <3>1
  <2>2. s * d = s * c + s * e + s
    BY <2>1
  <2>3. s * e \in Nat /\ s * c \in Int
    BY <2>1
  <2> QED BY <2>2, <2>3
<1>2. s * a \in Int /\ s * b \in Int
  OBVIOUS
<1>3. CASE a < b
  <2>1. s * a + s <= s * b
    BY <1>1, <1>3
  <2> QED BY <1>2, <1>3, <2>1
<1>4. CASE a = b
  BY <1>2, <1>4
<1>5. CASE a > b
  <2>1. s * b + s <= s * a
    BY <1>1, <1>5
  <2> QED BY <1>2, <1>5, <2>1
<1> QED BY <1>3, <1>4, <1>5

\* As many pieces of size s as it takes to cover w.
LEMMA CeilFacts ==
  ASSUME NEW w \in Nat, NEW s \in Nat \ {0}
  PROVE  /\ CeilDiv(w, s) \in Nat
         /\ w <= s * CeilDiv(w, s)
         /\ \A a \in Int : a < CeilDiv(w, s) <=> s * a < w
<1> DEFINE n == w + s - 1
           c == n \div s
           r == n % s
<1>1. n \in Nat
  OBVIOUS
<1>2. n = s * c + r /\ c \in Nat /\ r \in 0 .. s - 1
  BY <1>1, DivMod
<1>3. CeilDiv(w, s) = c /\ n = w + s - 1
  BY DEF CeilDiv
<1> HIDE DEF n, c, r
<1>4. s * c \in Nat
  BY <1>2
<1>5. w <= s * c /\ s * c < w + s
  BY <1>2, <1>3, <1>4
<1>6. ASSUME NEW a \in Int PROVE a < c <=> s * a < w
  <2>1. s * a \in Int /\ (a < c <=> s * a + s <= s * c) /\ (a < c <=> s * a < s * c)
    BY <1>2, TimesMono
  <2> QED BY <1>4, <1>5, <2>1
<1> QED BY <1>2, <1>3, <1>5, <1>6

----------------------------------------------------------------------------
(* The alignment.                                                            *)

\* The width of the screen is one of a word, and what is asked for is no wider than the
\* screen, once it starts on a boundary. It need not lie on the screen.
Askable(r) == r \in [x : Nat, y : Nat, w : Nat, h : Nat] /\ r.w + (r.x % AlignTo) <= Width

AskedFits ==
  /\ Width < Word
  /\ \A r \in Requests \cup DirtyRects : Askable(r)

\* Until it is sent, the rectangle of a frame is the aligned one; what is left of it
\* afterwards is its corner.
AlignInv ==
  /\ Askable(fbUpdateRect) /\ Askable(askedRect)
  /\ pc \in {"idle", "deferred", "header", "chunk", "line", "tiles", "compress", "finish"}
  /\ pc \in {"deferred", "header", "chunk", "line", "tiles", "compress"}
       => fbUpdateRect = Aligned(askedRect)
  /\ pc = "finish" => /\ fbUpdateRect.x = Aligned(askedRect).x
                      /\ fbUpdateRect.y = Aligned(askedRect).y

LEMMA MultipleMod ==
  ASSUME NEW m \in Nat \ {0}, NEW z \in Nat, NEW n, n = m * z
  PROVE  n % m = 0 /\ n \div m = z
<1>1. \A t \in 0 .. m - 1 : (m * z + t) % m = t /\ (m * z + t) \div m = z
  BY DivModIs
<1>2. PICK t : t = 0
  OBVIOUS
<1>3. t \in 0 .. m - 1 /\ m * z + t = n
  BY <1>2
<1> QED BY <1>1, <1>2, <1>3

LEMMA Divided ==
  ASSUME NEW a \in Nat, NEW m \in Nat \ {0}
  PROVE  \E z \in Nat : a = m * z + (a % m) /\ a % m \in 0 .. m - 1
BY DivMod

\* What is asked for starts on the boundary before it, and is as much wider.
LEMMA AlignedNumbers ==
  ASSUME NEW x \in Nat, NEW w \in Nat, NEW m \in Nat \ {0}, NEW n \in Nat,
         NEW z \in Nat, NEW d \in 0 .. m - 1, x = m * z + d, w + d <= n, n < 65536
  PROVE  /\ d \in Nat /\ x - d \in Nat /\ (x - d) % m = 0
         /\ w + d \in Nat /\ (w + d) % 65536 = w + d /\ x - d + (w + d) = x + w
         /\ n - (w + d) \in Nat /\ (n - (w + d)) % 65536 = n - (w + d)
<1>2. m * z \in Nat /\ d \in Nat /\ x - d = m * z
  OBVIOUS
<1>3. (x - d) % m = 0
  <2> DEFINE y == x - d
  <2>1. y = m * z
    BY <1>2
  <2> HIDE DEF y
  <2>2. y % m = 0
    BY <2>1, MultipleMod
  <2> QED BY <2>2 DEF y
<1>4. w + d \in Nat /\ w + d < 65536
  BY <1>2
<1>5. (w + d) % 65536 = w + d
  BY <1>4
<1>6. x - d \in Nat /\ x - d + (w + d) = x + w
  BY <1>2
<1>7. n - (w + d) \in Nat /\ n - (w + d) < 65536
  BY <1>4
<1>8. (n - (w + d)) % 65536 = n - (w + d)
  BY <1>7
<1> QED BY <1>2, <1>3, <1>4, <1>5, <1>6, <1>7, <1>8

\* The remainder of a number is no larger than the number.
LEMMA ModAtMost ==
  ASSUME NEW a \in Nat, NEW m \in Nat \ {0}
  PROVE  a % m \in Nat /\ a % m <= a
<1>1. a = m * (a \div m) + (a % m) /\ a \div m \in Nat /\ a % m \in 0 .. m - 1
  BY DivMod
<1>2. m * (a \div m) \in Nat
  BY <1>1
<1> QED BY <1>1, <1>2

\* Where a rectangle that is aligned begins: on the boundary, or, if it would pass the edge
\* of the screen, as far from the edge as it is wide.
LEMMA AlignedFacts ==
  ASSUME NEW r, Askable(r), Width < Word
  PROVE  LET d == r.x % AlignTo
             x == IF r.x + r.w > Width THEN Width - (r.w + d) ELSE r.x - d IN
         /\ d \in Nat /\ x \in Nat /\ x + (r.w + d) <= Width
         /\ Aligned(r) = [x |-> x, y |-> r.y, w |-> r.w + d, h |-> r.h]
         /\ (r.x - d) % AlignTo = 0
         /\ Askable(Aligned(r))
<1> DEFINE d == r.x % AlignTo
           x == r.x
           w == r.w
           m == IF x + w > Width THEN Width - (w + d) ELSE x - d
           a == [x |-> m, y |-> r.y, w |-> w + d, h |-> r.h]
<1>0. /\ r = [x |-> r.x, y |-> r.y, w |-> r.w, h |-> r.h]
      /\ x \in Nat /\ r.y \in Nat /\ w \in Nat /\ r.h \in Nat /\ w + d <= Width
  BY DEF Askable
<1>1. AlignTo \in Nat \ {0} /\ Width \in Nat /\ Word = 65536
  BY FrameAssumption DEF Word
<1>2. Aligned(r) = [r EXCEPT !.x = IF x - d + ((w + d) % Word) > Width
                                   THEN (Width - ((w + d) % Word)) % Word ELSE x - d,
                             !.w = (w + d) % Word]
  BY DEF Aligned
<1>3. PICK z \in Nat : x = AlignTo * z + d /\ d \in 0 .. AlignTo - 1
  BY <1>0, <1>1, Divided
<1> HIDE DEF d, x, w
<1>4. /\ d \in Nat /\ x - d \in Nat /\ (x - d) % AlignTo = 0
      /\ w + d \in Nat /\ (w + d) % 65536 = w + d /\ x - d + (w + d) = x + w
      /\ Width - (w + d) \in Nat /\ (Width - (w + d)) % 65536 = Width - (w + d)
  BY <1>0, <1>1, <1>3, AlignedNumbers
<1>5. Aligned(r) = [r EXCEPT !.x = m, !.w = w + d]
  <2>1. (w + d) % Word = w + d /\ (Width - (w + d)) % Word = Width - (w + d)
    BY <1>1, <1>4
  <2>2. (x - d + (w + d) > Width) <=> (x + w > Width)
    BY <1>4
  <2>3. Aligned(r) = [r EXCEPT !.x = IF x + w > Width THEN Width - (w + d) ELSE x - d,
                               !.w = w + d]
    BY <1>2, <2>1, <2>2, Zenon
  <2> QED BY <2>3
<1>6. m \in Nat /\ m + (w + d) <= Width
  BY <1>0, <1>1, <1>4
<1> HIDE DEF m
<1>7. Aligned(r) = a
  BY <1>0, <1>5
<1>8. a.x = m /\ a.w = w + d /\ a \in [x : Nat, y : Nat, w : Nat, h : Nat]
  BY <1>0, <1>4, <1>6
<1>9. m % AlignTo \in Nat /\ m % AlignTo <= m
  BY <1>1, <1>6, ModAtMost
<1>10. w + d + (m % AlignTo) <= Width
  BY <1>1, <1>4, <1>6, <1>9
<1>11. Askable(a)
  BY <1>6, <1>8, <1>10 DEF Askable
<1> QED BY <1>4, <1>6, <1>7, <1>11 DEF d, x, w, m

\* A frame begins with a rectangle of the screen.
LEMMA PrepareAligns ==
  ASSUME Width < Word, NEW r, Askable(r), PrepareFrame(r)
  PROVE  AlignInv'
<1>1. fbUpdateRect' = Aligned(r) /\ askedRect' = r /\ pc' \in {"deferred", "header"}
  BY DEF PrepareFrame
<1>2. Askable(Aligned(r))
  BY AlignedFacts
<1> QED BY <1>1, <1>2 DEF AlignInv

\* The last chunk leaves a rectangle without pixels.
LEMMA ChunkAligns ==
  ASSUME AlignInv, pc \in {"line", "tiles", "compress"}, NEW more \in BOOLEAN,
         fbUpdateRect' = ChunkRect(more), UNCHANGED askedRect,
         \/ pc' \in {"line", "tiles", "compress", "chunk"} /\ more
         \/ pc' = ChunkPc(more)
  PROVE  AlignInv'
<1>1. fbUpdateRect = Aligned(askedRect) /\ Askable(fbUpdateRect) /\ Askable(askedRect)
  BY DEF AlignInv
<1>2. CASE more
  BY <1>1, <1>2 DEF ChunkRect, ChunkPc, AlignInv
<1>3. CASE ~more
  <2>1. fbUpdateRect' = [fbUpdateRect EXCEPT !.w = 0, !.h = 0] /\ pc' = "finish"
    BY <1>3 DEF ChunkRect, ChunkPc
  <2>2. Askable(fbUpdateRect')
    <3> DEFINE r == fbUpdateRect
               s == fbUpdateRect'
    <3>1. s = [r EXCEPT !.w = 0, !.h = 0]
      BY <2>1
    <3>2. r \in [x : Nat, y : Nat, w : Nat, h : Nat] /\ r.w + (r.x % AlignTo) <= Width
      BY <1>1 DEF Askable
    <3>3. r.w \in Nat /\ r.x % AlignTo \in Nat /\ Width \in Nat
      <4>1. r.x \in Nat /\ r.w \in Nat /\ Width \in Nat /\ AlignTo \in Nat \ {0}
        BY <3>2, FrameAssumption
      <4> HIDE DEF r
      <4> QED BY <4>1, ModAtMost
    <3> HIDE DEF r, s
    <3>4. s \in [x : Nat, y : Nat, w : Nat, h : Nat] /\ s.x = r.x /\ s.w = 0
      BY <3>1, <3>2
    <3>5. s.w + (s.x % AlignTo) <= Width
      BY <3>2, <3>3, <3>4
    <3> QED BY <3>4, <3>5 DEF Askable, s
  <2>3. fbUpdateRect'.x = fbUpdateRect.x /\ fbUpdateRect'.y = fbUpdateRect.y
    <3>1. fbUpdateRect \in [x : Nat, y : Nat, w : Nat, h : Nat]
      BY <1>1 DEF Askable
    <3> QED BY <2>1, <3>1
  <2> QED BY <1>1, <2>1, <2>2, <2>3 DEF AlignInv
<1> QED BY <1>2, <1>3

LEMMA AlignStep ==
  ASSUME AskedFits, ZInv, AlignInv, [Next]_vars
  PROVE  AlignInv'
<1>0. /\ Width < Word
      /\ \A r \in Requests \cup DirtyRects : Askable(r)
      /\ Askable(fbUpdateRect) /\ Askable(askedRect) /\ Askable(NoRect)
  BY FrameAssumption DEF AskedFits, Askable, AlignInv, NoRect
<1>1. ASSUME NEW r \in Requests, NEW incremental \in BOOLEAN, FBUpdateRequest(r, incremental)
      PROVE  AlignInv'
  <2>1. CASE pc = "idle" /\ incremental /\ ~changesPending
    BY <1>0, <1>1, <2>1 DEF FBUpdateRequest, SendFBUpdate, AlignInv
  <2>2. CASE pc = "idle" /\ ~(incremental /\ ~changesPending)
    <3>1. PrepareFrame(r)
      BY <1>1, <2>2 DEF FBUpdateRequest, SendFBUpdate
    <3> QED BY <1>0, <3>1, PrepareAligns
  <2>3. CASE pc # "idle"
    BY <1>0, <1>1, <2>3 DEF FBUpdateRequest, AlignInv, rects
  <2> QED BY <2>1, <2>2, <2>3
<1>2. ASSUME NEW r \in DirtyRects, GotDirtyRect(r)
      PROVE  AlignInv'
  <2>1. CASE pc = "idle" /\ running
    <3>1. PrepareFrame(r)
      BY <1>2, <2>1 DEF GotDirtyRect
    <3> QED BY <1>0, <3>1, PrepareAligns
  <2>2. CASE ~(pc = "idle" /\ running)
    BY <1>2, <2>2 DEF GotDirtyRect, AlignInv, rects
  <2> QED BY <2>1, <2>2
<1>3. CASE FormatChanges
  BY <1>3 DEF FormatChanges, AlignInv, rects
<1>4. CASE FBSyncTasks
  BY <1>4 DEF FBSyncTasks, AlignInv, rects
<1>5. ASSUME NEW hasCursor \in BOOLEAN, SendHeader(hasCursor)
      PROVE  AlignInv'
  BY <1>5 DEF SendHeader, AlignInv, rects
<1>6. CASE StartChunk
  BY <1>6 DEF StartChunk, AlignInv, rects
<1>7. ASSUME NEW len \in TileLens, EncodeNextTile(len)
      PROVE  AlignInv'
  <2> DEFINE more == GotMore(tile_x', tile_y')
             full == bytesAvail' < MinBytesAvail
  <2>1. /\ pc = "tiles" /\ fbUpdateRect' = ChunkRect(more) /\ UNCHANGED askedRect
        /\ pc' = IF more /\ ~full THEN "tiles" ELSE ChunkPc(more)
    BY <1>7 DEF EncodeNextTile
  <2>2. more \in BOOLEAN
    BY DEF GotMore
  <2> HIDE DEF more, full
  <2> QED BY <2>1, <2>2, ChunkAligns
<1>8. ASSUME NEW len \in TileLens, TileWaits(len)
      PROVE  AlignInv'
  BY <1>8 DEF TileWaits, AlignInv, rects
<1>9. ASSUME NEW len \in TileLens, CompressTile(len)
      PROVE  AlignInv'
  BY <1>9 DEF CompressTile, AlignInv, rects
<1>10. CASE CompressStep
  BY <1>10 DEF CompressStep, AlignInv, rects
<1>11. CASE CompressedChunk
  <2> DEFINE more == gotMoreAfterwards
  <2>1. /\ pc = "compress" /\ fbUpdateRect' = ChunkRect(more) /\ UNCHANGED askedRect
        /\ pc' = ChunkPc(more)
    BY <1>11 DEF CompressedChunk
  <2>2. more \in BOOLEAN
    BY DEF ZInv, ZTypeOK
  <2> HIDE DEF more
  <2> QED BY <2>1, <2>2, ChunkAligns
<1>12. CASE RawLine
  <2> DEFINE more == tile_y' < fbUpdateRect.h
  <2>1. /\ pc = "line" /\ fbUpdateRect' = ChunkRect(more) /\ UNCHANGED askedRect
        /\ pc' = ChunkPc(more) /\ more \in BOOLEAN
    BY <1>12 DEF RawLine
  <2> HIDE DEF more
  <2> QED BY <2>1, ChunkAligns
<1>13. CASE FinishFBUpdate
  <2>1. CASE fbUpdatePending /\ ~changesPending
    BY <1>0, <1>13, <2>1 DEF FinishFBUpdate, SendFBUpdate, AlignInv
  <2>2. CASE fbUpdatePending /\ changesPending
    <3>1. PrepareFrame(fbUpdateRect)
      BY <1>13, <2>2 DEF FinishFBUpdate, SendFBUpdate
    <3> QED BY <1>0, <3>1, PrepareAligns
  <2>3. CASE ~fbUpdatePending
    BY <1>0, <1>13, <2>3 DEF FinishFBUpdate, AlignInv
  <2> QED BY <2>1, <2>2, <2>3
<1>14. CASE UNCHANGED vars
  BY <1>14 DEF vars, rects, AlignInv
<1> QED BY <1>1, <1>2, <1>3, <1>4, <1>5, <1>6, <1>7, <1>8, <1>9, <1>10, <1>11, <1>12, <1>13, <1>14 DEF Next

LEMMA InitAligned == Init => AlignInv
<1> SUFFICES ASSUME Init PROVE AlignInv
  OBVIOUS
<1>1. fbUpdateRect = NoRect /\ askedRect = NoRect /\ pc = "idle"
  BY DEF Init
<1>2. Askable(NoRect)
  BY FrameAssumption DEF NoRect, Askable
<1> QED BY <1>1, <1>2 DEF AlignInv

\* Alignment loses nothing that was asked for of the screen and reads nothing beside it
\* (vncPrepareForFBUpdate, VNCServer.cpp:1050-1073), for screens, alignments and rectangles
\* of any size, also where these pass the edge of the screen, provided that what is asked
\* for is no wider than the screen.
THEOREM AlignmentCovers ==
  ASSUME AskedFits
  PROVE  Spec => []AlignedCovers
<1>1. Init => ZInv /\ AlignInv
  BY ZInitially, InitAligned DEF Init
<1>2. ZInv /\ AlignInv /\ [Next]_vars => (ZInv /\ AlignInv)'
  BY ZInductive, FrameStepCompresses, AlignStep
<1>3. AlignInv => AlignedCovers
  <2> SUFFICES ASSUME AlignInv, pc \in {"deferred", "header"}
               PROVE  /\ Pixels(askedRect) \cap Screen \subseteq Pixels(fbUpdateRect)
                      /\ fbUpdateRect.x + fbUpdateRect.w <= Width
                      /\ askedRect.x + askedRect.w <= Width => fbUpdateRect.x % AlignTo = 0
    BY DEF AlignedCovers
  <2> DEFINE r == askedRect
             d == r.x % AlignTo
             x == r.x
             w == r.w
             m == IF x + w > Width THEN Width - (w + d) ELSE x - d
  <2>1. /\ Askable(r) /\ fbUpdateRect = Aligned(r) /\ Width < Word
    BY DEF AlignInv, AskedFits
  <2>2. /\ Aligned(r) = [x |-> m, y |-> r.y, w |-> w + d, h |-> r.h]
        /\ d \in Nat /\ m \in Nat /\ m + (w + d) <= Width /\ (x - d) % AlignTo = 0
    BY <2>1, AlignedFacts
  <2>3. x \in Nat /\ w \in Nat /\ Width \in Nat
    BY <2>1, FrameAssumption DEF Askable
  <2>4. Aligned(r).x = m /\ Aligned(r).y = r.y /\ Aligned(r).w = w + d /\ Aligned(r).h = r.h
    BY <2>2
  <2> HIDE DEF x, w, d
  <2>5. (x .. x + w - 1) \cap (0 .. Width - 1) \subseteq m .. m + (w + d) - 1
    BY <2>2, <2>3
  <2>6. x + w <= Width => m % AlignTo = 0
    BY <2>2, <2>3
  <2> HIDE DEF m
  <2>7. Pixels(r) \cap Screen \subseteq Pixels(Aligned(r))
    BY <2>4, <2>5 DEF Pixels, Screen, x, w
  <2> QED BY <2>1, <2>2, <2>4, <2>6, <2>7 DEF x, w
<1> QED BY <1>1, <1>2, <1>3, PTL DEF Spec

----------------------------------------------------------------------------
(* Functions on numbers that are defined from one number to the next.        *)

Begins(g, V, start, next, n) ==
  /\ g \in [0 .. n -> V]
  /\ g[0] = start
  /\ \A k \in 0 .. n - 1 : g[k + 1] = next[k][g[k]]

LEMMA BeginsExists ==
  ASSUME NEW V, NEW start \in V, NEW next \in [Nat -> [V -> V]], NEW n \in Nat
  PROVE  \E g : Begins(g, V, start, next, n)
<1> DEFINE B == {k \in Nat : ~\E g : Begins(g, V, start, next, k)}
<1> SUFFICES ASSUME B # {} PROVE FALSE
  OBVIOUS
<1>1. PICK k \in B : \A j \in B : k <= j
  <2> HIDE DEF B
  <2>1. B \in SUBSET Nat
    BY DEF B
  <2> QED BY <2>1, LeastNat
<1>2. CASE k = 0
  <2> DEFINE g == [i \in 0 .. 0 |-> start]
  <2>1. Begins(g, V, start, next, 0)
    BY DEF Begins
  <2> QED BY <1>1, <1>2, <2>1
<1>3. CASE k # 0
  <2>1. PICK j \in Nat : k = j + 1
    <3>1. k - 1 \in Nat /\ k = k - 1 + 1
      BY <1>3
    <3> QED BY <3>1
  <2>2. j \notin B
    BY <1>1, <2>1
  <2>3. PICK f : Begins(f, V, start, next, j)
    BY <2>2
  <2>4. /\ f \in [0 .. j -> V] /\ f[0] = start
        /\ \A i \in 0 .. j - 1 : f[i + 1] = next[i][f[i]]
    BY <2>3 DEF Begins
  <2> DEFINE last == next[j][f[j]]
             g == [i \in 0 .. k |-> IF i = k THEN last ELSE f[i]]
  <2>5. last \in V
    <3>1. f[j] \in V
      BY <2>4
    <3>2. next[j] \in [V -> V]
      OBVIOUS
    <3> QED BY <3>1, <3>2
  <2> HIDE DEF last
  <2>6. \A i \in 0 .. k : i # k => i \in 0 .. j
    BY <2>1
  <2>7. g \in [0 .. k -> V]
    BY <2>4, <2>5, <2>6
  <2>8. g[0] = start
    BY <2>1, <2>4
  <2>9. ASSUME NEW i \in 0 .. k - 1
        PROVE  g[i + 1] = next[i][g[i]]
    <3>1. i \in 0 .. j /\ i \in 0 .. k /\ i + 1 \in 0 .. k /\ i # k
      BY <2>1
    <3>2. CASE i = j
      BY <2>1, <3>1, <3>2 DEF last
    <3>3. CASE i # j
      <4>1. i \in 0 .. j - 1 /\ i + 1 # k
        BY <2>1, <3>1, <3>3
      <4> QED BY <2>4, <3>1, <4>1
    <3> QED BY <3>2, <3>3
  <2> HIDE DEF g
  <2>10. Begins(g, V, start, next, k)
    BY <2>7, <2>8, <2>9 DEF Begins
  <2> QED BY <1>1, <2>10
<1> QED BY <1>2, <1>3

LEMMA BeginsAlike ==
  ASSUME NEW V, NEW start, NEW next, NEW m \in Nat, NEW n \in Nat, NEW f, NEW g,
         Begins(f, V, start, next, m), Begins(g, V, start, next, n)
  PROVE  \A k \in Nat : k <= m /\ k <= n => f[k] = g[k]
<1> DEFINE B == {k \in Nat : k <= m /\ k <= n /\ f[k] # g[k]}
<1> SUFFICES ASSUME B # {} PROVE FALSE
  OBVIOUS
<1>1. PICK k \in B : \A j \in B : k <= j
  <2> HIDE DEF B
  <2>1. B \in SUBSET Nat
    BY DEF B
  <2> QED BY <2>1, LeastNat
<1>2. CASE k = 0
  BY <1>1, <1>2 DEF Begins
<1>3. CASE k # 0
  <2>1. PICK j \in Nat : k = j + 1
    <3>1. k - 1 \in Nat /\ k = k - 1 + 1
      BY <1>3
    <3> QED BY <3>1
  <2>2. j \notin B /\ j \in 0 .. m - 1 /\ j \in 0 .. n - 1
    BY <1>1, <2>1
  <2>3. f[j] = g[j]
    BY <2>1, <2>2
  <2>4. f[k] = next[j][f[j]] /\ g[k] = next[j][g[j]]
    BY <2>1, <2>2 DEF Begins
  <2> QED BY <1>1, <2>3, <2>4
<1> QED BY <1>2, <1>3

Iterable(V, start, next) ==
  \E g \in [Nat -> V] : g[0] = start /\ \A n \in Nat : g[n + 1] = next[n][g[n]]

LEMMA Iterates ==
  ASSUME NEW V, NEW start \in V, NEW next \in [Nat -> [V -> V]]
  PROVE  Iterable(V, start, next)
<1> DEFINE pick == [n \in Nat |-> CHOOSE g : Begins(g, V, start, next, n)]
           h == [n \in Nat |-> pick[n][n]]
<1>1. \A n \in Nat : Begins(pick[n], V, start, next, n)
  BY BeginsExists
<1> HIDE DEF pick
<1>2. h \in [Nat -> V]
  <2>1. \A n \in Nat : pick[n][n] \in V
    <3>1. \A n \in Nat : n \in 0 .. n
      OBVIOUS
    <3> QED BY <1>1, <3>1 DEF Begins
  <2> QED BY <2>1
<1>3. h[0] = start
  <2>1. Begins(pick[0], V, start, next, 0)
    BY <1>1
  <2> QED BY <2>1 DEF Begins
<1>4. ASSUME NEW n \in Nat
      PROVE  h[n + 1] = next[n][h[n]]
  <2>1. n + 1 \in Nat /\ n \in 0 .. n + 1 - 1
    OBVIOUS
  <2>2. pick[n + 1][n + 1] = next[n][pick[n + 1][n]]
    BY <1>1, <2>1 DEF Begins
  <2>3. pick[n + 1][n] = pick[n][n]
    <3>1. Begins(pick[n + 1], V, start, next, n + 1) /\ Begins(pick[n], V, start, next, n)
      BY <1>1, <2>1
    <3>2. \A k \in Nat : k <= n + 1 /\ k <= n => pick[n + 1][k] = pick[n][k]
      <4> DEFINE p == pick[n + 1]
                 q == pick[n]
                 l == n + 1
      <4>1. Begins(p, V, start, next, l) /\ Begins(q, V, start, next, n) /\ l \in Nat
        BY <3>1
      <4> HIDE DEF p, q, l
      <4>2. \A k \in Nat : k <= l /\ k <= n => p[k] = q[k]
        BY <4>1, BeginsAlike
      <4> QED BY <4>2 DEF p, q, l
    <3>3. n <= n + 1 /\ n <= n
      OBVIOUS
    <3> QED BY <3>2, <3>3
  <2> QED BY <2>1, <2>2, <2>3
<1> QED BY <1>2, <1>3, <1>4 DEF Iterable

----------------------------------------------------------------------------
(* Grids, which are counted row by row.                                      *)

\* The place with the number k is in column a of row b.
PlaceIs(k, cols, a, b) == k = cols * b + a /\ a \in 0 .. cols - 1 /\ b \in Nat

LEMMA PlaceExists ==
  ASSUME NEW cols \in Nat \ {0}, NEW k \in Nat
  PROVE  PlaceIs(k, cols, k % cols, k \div cols)
BY DivMod DEF PlaceIs

LEMMA PlaceUnique ==
  ASSUME NEW cols \in Nat \ {0}, NEW k, NEW a, NEW b, PlaceIs(k, cols, a, b)
  PROVE  k % cols = a /\ k \div cols = b /\ k \in Nat
<1>1. b \in Nat /\ a \in 0 .. cols - 1
  BY DEF PlaceIs
<1>2. (cols * b + a) % cols = a /\ (cols * b + a) \div cols = b
  BY <1>1, DivModIs
<1>3. cols * b \in Nat
  BY <1>1
<1> QED BY <1>1, <1>2, <1>3 DEF PlaceIs

\* The last place of so many rows.
LEMMA PlaceBound ==
  ASSUME NEW cols \in Nat \ {0}, NEW rows \in Nat, NEW k, NEW a, NEW b, PlaceIs(k, cols, a, b)
  PROVE  k < cols * rows <=> b < rows
<1>1. b \in Nat /\ a \in 0 .. cols - 1 /\ k = cols * b + a
  BY DEF PlaceIs
<1>2. cols * b \in Nat /\ cols * rows \in Nat
  BY <1>1
<1>3. (b < rows <=> cols * b + cols <= cols * rows) /\ (rows <= b <=> cols * rows <= cols * b)
  BY <1>1, TimesMono
<1> QED BY <1>1, <1>2, <1>3

LEMMA PlaceNext ==
  ASSUME NEW cols \in Nat \ {0}, NEW k, NEW a, NEW b, PlaceIs(k, cols, a, b)
  PROVE  /\ a + 1 < cols => PlaceIs(k + 1, cols, a + 1, b)
         /\ a + 1 >= cols => a + 1 = cols /\ PlaceIs(k + 1, cols, 0, b + 1)
<1>1. b \in Nat /\ a \in 0 .. cols - 1 /\ k = cols * b + a
  BY DEF PlaceIs
<1>2. cols * (b + 1) = cols * b + cols /\ cols * b \in Nat
  BY <1>1
<1>3. a + 1 < cols => PlaceIs(k + 1, cols, a + 1, b)
  BY <1>1, <1>2 DEF PlaceIs
<1>4. a + 1 >= cols => a + 1 = cols /\ PlaceIs(k + 1, cols, 0, b + 1)
  <2>1. ASSUME a + 1 >= cols PROVE a + 1 = cols /\ k + 1 = cols * (b + 1) + 0 /\ 0 \in 0 .. cols - 1
    BY <1>1, <1>2, <2>1
  <2>2. b + 1 \in Nat
    BY <1>1
  <2> QED BY <2>1, <2>2 DEF PlaceIs
<1> QED BY <1>3, <1>4

----------------------------------------------------------------------------
(* What a frame of rectangle R consists of, with encoder e: subrectangles,   *)
(* counted from 0, and their tiles.                                          *)

RectOk(R) == R \in [x : Nat, y : Nat, w : Nat, h : Nat] /\ R.w > 0 /\ R.h > 0

SizeOf(e) == IF e = "ZRLE" THEN ZTileSize ELSE TileSize

SubColumns(R) == CeilDiv(R.w, SubrectSize)
SubRows(R)    == CeilDiv(R.h, SubrectSize)
NumSubs(e, R) == IF e # "ZRLE" THEN 1 ELSE SubColumns(R) * SubRows(R)

SubAt(R, x, y) ==
  [x |-> R.x + x, w |-> Smaller(x + SubrectSize, R.w) - x,
   y |-> R.y + y, h |-> Smaller(y + SubrectSize, R.h) - y]
Sub(e, R, j) ==
  IF e # "ZRLE" THEN R
  ELSE SubAt(R, SubrectSize * (j % SubColumns(R)), SubrectSize * (j \div SubColumns(R)))

TilesOf(e, R, r) ==
  LET size == SizeOf(e)  cols == CeilDiv(r.w, size) IN
  IF e = "Raw" THEN [i \in 1 .. r.h |-> <<0, i - 1>>]
  ELSE [i \in 1 .. cols * CeilDiv(r.h, size) |->
          <<r.x - R.x + ((i - 1) % cols) * size, r.y - R.y + ((i - 1) \div cols) * size>>]
SubTiles(e, R, j) == TilesOf(e, R, Sub(e, R, j))
NumTiles(e, R, j) == Len(SubTiles(e, R, j))

\* Where the cursor is for tile k of subrectangle j, from 0.
TileAt(e, R, j, k) == SubTiles(e, R, j)[k + 1]

\* Whether there is anything left of the frame, as the encoders ask for it.
More(e, R, p) == p[2] < R.h \/ (e # "Raw" /\ p[1] < R.w)

\* The place p comes after tile k of subrectangle j.
Follows(e, R, j, k, p) ==
  IF k + 1 < NumTiles(e, R, j) THEN p = TileAt(e, R, j, k + 1) /\ More(e, R, p)
  ELSE IF j + 1 < NumSubs(e, R) THEN p = TileAt(e, R, j + 1, 0) /\ More(e, R, p)
  ELSE ~More(e, R, p)

LEMMA Sizes ==
  /\ TileSize \in Nat \ {0} /\ ZTileSize \in Nat \ {0} /\ SubrectSize \in Nat \ {0}
  /\ \A e : SizeOf(e) \in Nat \ {0}
BY FrameAssumption DEF SizeOf

\* The tiles of a rectangle, in so many columns and rows.
InGrid(e, R, r, cols, rows) ==
  /\ cols \in Nat \ {0} /\ rows \in Nat \ {0}
  /\ Len(TilesOf(e, R, r)) = cols * rows
  /\ \A k, a, b : PlaceIs(k, cols, a, b) /\ b < rows
       => TilesOf(e, R, r)[k + 1]
            = <<r.x - R.x + SizeOf(e) * a, r.y - R.y + SizeOf(e) * b>>

LEMMA GridTiles ==
  ASSUME NEW e, e # "Raw", NEW R, NEW r, r.w \in Nat, r.h \in Nat, r.w > 0, r.h > 0
  PROVE  InGrid(e, R, r, CeilDiv(r.w, SizeOf(e)), CeilDiv(r.h, SizeOf(e)))
<1> DEFINE s == SizeOf(e)
           T == TilesOf(e, R, r)
           cols == CeilDiv(r.w, s)
           rows == CeilDiv(r.h, s)
           n == cols * rows
<1>1. s \in Nat \ {0}
  BY Sizes
<1> HIDE DEF s
<1>2. cols \in Nat \ {0} /\ rows \in Nat \ {0}
  <2>1. /\ cols \in Nat /\ rows \in Nat
        /\ r.w <= s * cols /\ r.h <= s * rows
    BY <1>1, CeilFacts DEF s
  <2>2. s * 0 = 0
    BY <1>1
  <2> HIDE DEF cols, rows
  <2> QED BY <2>1, <2>2
<1> HIDE DEF cols, rows
<1>3. n \in Nat
  BY <1>2
<1> HIDE DEF n
<1>4. T = [i \in 1 .. n |->
             <<r.x - R.x + ((i - 1) % cols) * s, r.y - R.y + ((i - 1) \div cols) * s>>]
  BY DEF TilesOf, s, n, cols, rows
<1>5. Len(T) = n
  BY <1>3, <1>4
<1>6. ASSUME NEW k, NEW a, NEW b, PlaceIs(k, cols, a, b), b < rows
      PROVE  T[k + 1] = <<r.x - R.x + s * a, r.y - R.y + s * b>>
  <2>1. k % cols = a /\ k \div cols = b /\ k \in Nat /\ k < n
    BY <1>2, <1>6, PlaceUnique, PlaceBound DEF n
  <2>2. k + 1 \in 1 .. n /\ (k + 1) - 1 = k
    BY <1>3, <2>1
  <2>3. T[k + 1] = <<r.x - R.x + a * s, r.y - R.y + b * s>>
    BY <1>4, <2>1, <2>2
  <2>4. a \in Nat /\ b \in Nat /\ a * s = s * a /\ b * s = s * b
    BY <1>1, <1>2, <1>6 DEF PlaceIs
  <2> QED BY <2>3, <2>4
<1>7. InGrid(e, R, r, cols, rows)
  BY <1>2, <1>5, <1>6 DEF s, n, InGrid
<1> QED BY <1>7 DEF cols, rows, s

\* Hextile and TRLE: tiles row by row (TRLE's advanceToNextTile).
LEMMA RowFollows ==
  ASSUME NEW e, e \notin {"Raw", "ZRLE"}, frameEncoder = e, NEW R, RectOk(R), fbUpdateRect = R,
         NEW k \in Nat, k < NumTiles(e, R, 0), <<tile_x, tile_y>> = TileAt(e, R, 0, k)
  PROVE  Follows(e, R, 0, k, NextTile)
<1> DEFINE s == TileSize
           w == R.w
           h == R.h
           cols == CeilDiv(w, s)
           rows == CeilDiv(h, s)
           a == k % cols
           b == k \div cols
<1>1. /\ s \in Nat \ {0} /\ s = SizeOf(e) /\ Sub(e, R, 0) = R /\ NumSubs(e, R) = 1
      /\ R.x \in Nat /\ R.y \in Nat /\ w \in Nat /\ h \in Nat /\ w > 0 /\ h > 0
  BY Sizes DEF SizeOf, Sub, NumSubs, RectOk
<1> HIDE DEF s
<1>2. /\ cols \in Nat \ {0} /\ rows \in Nat \ {0}
      /\ NumTiles(e, R, 0) = cols * rows
      /\ \A l, c, d : PlaceIs(l, cols, c, d) /\ d < rows
           => TileAt(e, R, 0, l) = <<R.x - R.x + s * c, R.y - R.y + s * d>>
  <2>1. SubTiles(e, R, 0) = TilesOf(e, R, R)
    BY <1>1 DEF SubTiles
  <2>2. cols = CeilDiv(R.w, SizeOf(e)) /\ rows = CeilDiv(R.h, SizeOf(e))
    BY <1>1
  <2>3. R.w \in Nat /\ R.h \in Nat /\ R.w > 0 /\ R.h > 0
    BY <1>1
  <2> HIDE DEF cols, rows, w, h
  <2>4. /\ cols \in Nat \ {0} /\ rows \in Nat \ {0}
        /\ Len(TilesOf(e, R, R)) = cols * rows
        /\ \A l, c, d : PlaceIs(l, cols, c, d) /\ d < rows
             => TilesOf(e, R, R)[l + 1]
                  = <<R.x - R.x + SizeOf(e) * c, R.y - R.y + SizeOf(e) * d>>
    <3>1. InGrid(e, R, R, cols, rows)
      BY <2>2, <2>3, GridTiles
    <3> QED BY <3>1 DEF InGrid
  <2> QED BY <1>1, <2>1, <2>4 DEF NumTiles, TileAt
<1>3. /\ \A c \in Int : c < cols <=> s * c < w
      /\ \A c \in Int : c < rows <=> s * c < h
  BY <1>1, CeilFacts
<1> HIDE DEF cols, rows, w, h
<1>4. /\ PlaceIs(k, cols, a, b) /\ a \in 0 .. cols - 1 /\ b \in Nat
      /\ b < rows
  <2>1. PlaceIs(k, cols, a, b)
    BY <1>2, PlaceExists
  <2> HIDE DEF a, b
  <2> QED BY <1>2, <2>1, PlaceBound DEF PlaceIs
<1> HIDE DEF a, b
<1>4a. a \in Nat /\ a + 1 \in Nat /\ b + 1 \in Nat /\ R.x - R.x = 0 /\ R.y - R.y = 0
  BY <1>1, <1>4
<1>5. /\ tile_x = s * a /\ tile_y = s * b
      /\ s * (a + 1) = s * a + s /\ s * (b + 1) = s * b + s
      /\ s * a \in Nat /\ s * b \in Nat /\ s * 0 = 0
  <2>1. <<tile_x, tile_y>> = <<0 + s * a, 0 + s * b>>
    BY <1>2, <1>4, <1>4a
  <2> QED BY <1>1, <1>4, <1>4a, <2>1
<1>6. NextTile = IF s * a + s < w THEN <<s * a + s, s * b>>
                 ELSE IF s * b + s < h THEN <<0, s * b + s>>
                 ELSE <<s * a + s, s * b + s>>
  BY <1>5 DEF NextTile, Advanced, s, w, h
<1>7. CASE a + 1 < cols
  <2>1. PlaceIs(k + 1, cols, a + 1, b)
    BY <1>2, <1>4, <1>7, PlaceNext
  <2>2. k + 1 < cols * rows /\ TileAt(e, R, 0, k + 1) = <<0 + s * (a + 1), 0 + s * b>>
    <3>1. k + 1 < cols * rows
      BY <1>2, <1>4, <2>1, PlaceBound
    <3>2. TileAt(e, R, 0, k + 1) = <<R.x - R.x + s * (a + 1), R.y - R.y + s * b>>
      BY <1>2, <1>4, <2>1
    <3> QED BY <1>4a, <3>1, <3>2
  <2>3. s * (a + 1) < w
    BY <1>3, <1>4a, <1>7
  <2>4. NextTile = <<s * a + s, s * b>>
    BY <1>5, <1>6, <2>3
  <2>5. NextTile = TileAt(e, R, 0, k + 1)
    <3>1. 0 + s * (a + 1) = s * a + s /\ 0 + s * b = s * b
      BY <1>1, <1>5
    <3> QED BY <2>2, <2>4, <3>1
  <2>6. More(e, R, NextTile)
    BY <1>5, <2>3, <2>4 DEF More, w
  <2> QED BY <1>2, <2>2, <2>5, <2>6 DEF Follows
<1>8. CASE a + 1 >= cols /\ b + 1 < rows
  <2>1. PlaceIs(k + 1, cols, 0, b + 1)
    BY <1>2, <1>4, <1>8, PlaceNext
  <2>2. k + 1 < cols * rows /\ TileAt(e, R, 0, k + 1) = <<0 + s * 0, 0 + s * (b + 1)>>
    BY <1>2, <1>4a, <1>8, <2>1, PlaceBound
  <2>3. ~(s * (a + 1) < w) /\ s * (b + 1) < h
    BY <1>2, <1>3, <1>4a, <1>8
  <2>4. NextTile = <<0, s * b + s>>
    BY <1>5, <1>6, <2>3
  <2>5. NextTile = TileAt(e, R, 0, k + 1)
    <3>1. 0 + s * (b + 1) = s * b + s /\ 0 + s * 0 = 0
      BY <1>1, <1>5
    <3> QED BY <2>2, <2>4, <3>1
  <2>6. More(e, R, NextTile)
    BY <1>5, <2>3, <2>4 DEF More, h
  <2> QED BY <1>2, <2>2, <2>5, <2>6 DEF Follows
<1>9. CASE a + 1 >= cols /\ b + 1 >= rows
  <2>1. PlaceIs(k + 1, cols, 0, b + 1)
    BY <1>2, <1>4, <1>9, PlaceNext
  <2>2. ~(k + 1 < cols * rows)
    BY <1>2, <1>4a, <1>9, <2>1, PlaceBound
  <2>3. ~(s * (a + 1) < w) /\ ~(s * (b + 1) < h)
    BY <1>2, <1>3, <1>4a, <1>9
  <2>4. NextTile = <<s * a + s, s * b + s>>
    BY <1>5, <1>6, <2>3
  <2>5. ~More(e, R, NextTile)
    BY <1>1, <1>5, <2>3, <2>4 DEF More, w, h
  <2>6. ~(k + 1 < cols * rows) /\ ~(0 + 1 < NumSubs(e, R))
    BY <1>1, <2>2
  <2> QED BY <1>2, <2>5, <2>6 DEF Follows
<1> QED
  <2>1. a + 1 < cols \/ a + 1 >= cols
    BY <1>2, <1>4a
  <2>2. b + 1 < rows \/ b + 1 >= rows
    BY <1>2, <1>4a
  <2> QED BY <1>7, <1>8, <1>9, <2>1, <2>2

\* The Raw encoder: lines.
LEMMA RawFollows ==
  ASSUME NEW R, RectOk(R),
         NEW k \in Nat, k < NumTiles("Raw", R, 0), NEW x, NEW y, <<x, y>> = TileAt("Raw", R, 0, k)
  PROVE  Follows("Raw", R, 0, k, <<x, y + 1>>)
<1>1. R.h \in Nat /\ R.h > 0
  BY DEF RectOk
<1>2. SubTiles("Raw", R, 0) = [i \in 1 .. R.h |-> <<0, i - 1>>]
  BY DEF SubTiles, TilesOf, Sub
<1>3. NumTiles("Raw", R, 0) = R.h /\ NumSubs("Raw", R) = 1
  BY <1>1, <1>2 DEF NumTiles, NumSubs
<1>4. \A l \in Nat : l < R.h => TileAt("Raw", R, 0, l) = <<0, l>>
  <2> SUFFICES ASSUME NEW l \in Nat, l < R.h PROVE TileAt("Raw", R, 0, l) = <<0, l>>
    OBVIOUS
  <2>1. l + 1 \in 1 .. R.h /\ l + 1 - 1 = l
    BY <1>1
  <2>2. TileAt("Raw", R, 0, l) = <<0, l + 1 - 1>>
    <3> DEFINE T == SubTiles("Raw", R, 0)
               i == l + 1
    <3>1. T = [n \in 1 .. R.h |-> <<0, n - 1>>] /\ i \in 1 .. R.h
      BY <1>2, <2>1
    <3> HIDE DEF T, i
    <3>2. T[i] = <<0, i - 1>>
      BY <3>1
    <3> QED BY <3>2 DEF TileAt, T, i
  <2> QED BY <2>1, <2>2
<1>5. x = 0 /\ y = k /\ k < R.h
  BY <1>3, <1>4
<1>6. CASE k + 1 < R.h
  <2>1. TileAt("Raw", R, 0, k + 1) = <<0, k + 1>>
    BY <1>4, <1>6
  <2> QED BY <1>3, <1>5, <1>6, <2>1 DEF Follows, More
<1>7. CASE ~(k + 1 < R.h)
  BY <1>3, <1>5, <1>7 DEF Follows, More
<1> QED BY <1>6, <1>7

----------------------------------------------------------------------------
(* A frame is what its headers announce, for screens, rectangles, tiles      *)
(* and subrectangles of any size. Sub(e, R, j) is the subrectangle j of      *)
(* rectangle R with encoder e, TileAt(e, R, j, k) where the cursor is for    *)
(* its tile k. The program goes through them in this order:                  *)
(*   - the cursor that is advanced from tile k is at tile k + 1, or at the   *)
(*     first tile of the next subrectangle, or where nothing is left         *)
(*     (CursorFollows; for ZRLE the rounds of advanceToNextTile are          *)
(*     followed over the places beside the rectangle that they pass);        *)
(*   - isNewSubrect and getSubrect find the first tile of a subrectangle     *)
(*     and its bounds (NewSubrects, Subrects), and the subrectangles         *)
(*     partition the rectangle (SubsDisjoint, SubsCover);                    *)
(*   - so it is invariant that what has been sent of a frame is the          *)
(*     beginning of what it consists of, up to the tile that the cursor      *)
(*     stands at (FrameInv), and a frame that is finished is all of it.      *)

HIDE DEF Running, Compressing


----------------------------------------------------------------------------
(* ZRLE's advanceToNextTile.                                                 *)

\* What one round makes of the cursor.
Round(n, p) ==
  IF n = 1 \/ (Outside(p[1], p[2]) /\ ~Past(p[1], p[2])) THEN ZStep(p[1], p[2]) ELSE p

Places == Int \X Int

LEMMA StepTypes ==
  ASSUME NEW n \in Nat, NEW p \in Places
  PROVE  Round(n, p) \in Places
<1>1. p[1] \in Int /\ p[2] \in Int /\ ZTileSize \in Int /\ SubrectSize \in Int
  BY Sizes DEF Places
<1>2. ZStep(p[1], p[2]) \in Places
  BY <1>1 DEF ZStep, Places
<1> QED BY <1>2 DEF Round

\* The rounds, as the specification defines them: the definition is not empty.
LEMMA RoundsAre ==
  ASSUME tile_x \in Int, tile_y \in Int
  PROVE  \E round \in [Nat -> Places] :
           /\ round[0] = <<tile_x, tile_y>>
           /\ \A n \in Nat : round[n + 1] = Round(n + 1, round[n])
           /\ ZAdvanced = round[2 * (SubrectSize \div ZTileSize) * (SubrectSize \div ZTileSize)]
<1> DEFINE start == <<tile_x, tile_y>>
           Is(f) == f = [n \in Nat |-> IF n = 0 THEN start ELSE Round(n, f[n - 1])]
           round == CHOOSE f : Is(f)
           next == [n \in Nat |-> [p \in Places |-> Round(n + 1, p)]]
<1>1. ZAdvanced = round[2 * (SubrectSize \div ZTileSize) * (SubrectSize \div ZTileSize)]
  BY DEF ZAdvanced, Round
<1>2. start \in Places
  BY DEF Places
<1>3. next \in [Nat -> [Places -> Places]]
  BY StepTypes
<1> HIDE DEF next, start
<1>4. PICK g \in [Nat -> Places] : g[0] = start /\ \A n \in Nat : g[n + 1] = next[n][g[n]]
  <2>1. Iterable(Places, start, next)
    BY <1>2, <1>3, Iterates
  <2> QED BY <2>1 DEF Iterable
<1>5. \A n \in Nat : g[n + 1] = Round(n + 1, g[n])
  BY <1>4 DEF next
<1>6. Is(g)
  <2>1. \A n \in Nat : n # 0 => n - 1 \in Nat /\ n - 1 + 1 = n
    OBVIOUS
  <2>2. \A n \in Nat : g[n] = IF n = 0 THEN start ELSE Round(n, g[n - 1])
    BY <1>4, <1>5, <2>1
  <2> QED BY <1>4, <2>2
<1>7. Is(round)
  BY <1>6
<1> HIDE DEF round
<1>8. round[0] = start /\ \A n \in Nat : round[n + 1] = Round(n + 1, round[n])
  <2>1. \A n \in Nat : n + 1 \in Nat /\ n + 1 # 0 /\ n + 1 - 1 = n
    OBVIOUS
  <2> QED BY <1>7, <2>1
<1>9. round \in [Nat -> Places]
  <2> DEFINE B == {n \in Nat : round[n] \notin Places}
  <2>1. ASSUME B # {} PROVE FALSE
    <3>1. PICK n \in B : \A k \in B : n <= k
      <4> HIDE DEF B
      <4>1. B \in SUBSET Nat
        BY DEF B
      <4> QED BY <2>1, <4>1, LeastNat
    <3>2. PICK k \in Nat : n = k + 1
      <4>1. n # 0
        BY <1>2, <1>8, <3>1
      <4>2. n - 1 \in Nat /\ n = n - 1 + 1
        BY <3>1, <4>1
      <4> QED BY <4>2
    <3>3. round[k] \in Places
      BY <3>1, <3>2
    <3> QED BY <1>8, <3>1, <3>2, <3>3, StepTypes
  <2>2. round = [n \in Nat |-> round[n]]
    BY <1>7
  <2> QED BY <2>1, <2>2
<1> QED BY <1>1, <1>8, <1>9 DEF start

\* The rounds lead along a path as long as the places on it lie outside.
LEMMA RoundsLead ==
  ASSUME tile_x \in Int, tile_y \in Int,
         NEW t \in Nat \ {0}, t <= 2 * (SubrectSize \div ZTileSize) * (SubrectSize \div ZTileSize),
         NEW path, path[0] = <<tile_x, tile_y>>,
         \A i \in 0 .. t - 1 : path[i + 1] = ZStep(path[i][1], path[i][2]),
         \A i \in 1 .. t - 1 : Outside(path[i][1], path[i][2]) /\ ~Past(path[i][1], path[i][2]),
         ~(Outside(path[t][1], path[t][2]) /\ ~Past(path[t][1], path[t][2]))
  PROVE  ZAdvanced = path[t]
<1> DEFINE bound == 2 * (SubrectSize \div ZTileSize) * (SubrectSize \div ZTileSize)
<1>1. PICK round \in [Nat -> Places] :
        /\ round[0] = <<tile_x, tile_y>>
        /\ \A n \in Nat : round[n + 1] = Round(n + 1, round[n])
        /\ ZAdvanced = round[bound]
  BY RoundsAre
<1>2. bound \in Nat /\ t <= bound
  <2>1. SubrectSize \div ZTileSize \in Nat
    BY Sizes, DivMod
  <2> DEFINE m == SubrectSize \div ZTileSize
  <2> HIDE DEF m
  <2>2. 2 * m * m \in Nat
    BY <2>1 DEF m
  <2> QED BY <2>2 DEF m
<1> HIDE DEF bound
<1> DEFINE B == {n \in Nat : round[n] # path[IF n <= t THEN n ELSE t]}
<1>3. ASSUME B # {} PROVE FALSE
  <2>1. PICK n \in B : \A k \in B : n <= k
    <3> HIDE DEF B
    <3>1. B \in SUBSET Nat
      BY DEF B
    <3> QED BY <1>3, <3>1, LeastNat
  <2>2. PICK k \in Nat : n = k + 1
    <3>1. n # 0
      BY <1>1, <2>1
    <3>2. n - 1 \in Nat /\ n = n - 1 + 1
      BY <2>1, <3>1
    <3> QED BY <3>2
  <2>3. round[k] = path[IF k <= t THEN k ELSE t] /\ round[n] = Round(n, round[k])
    BY <1>1, <2>1, <2>2
  <2>4. CASE k < t
    <3>1. k \in 0 .. t - 1 /\ round[k] = path[k] /\ n <= t
      BY <2>2, <2>3, <2>4
    <3>2. path[n] = ZStep(path[k][1], path[k][2])
      BY <2>2, <3>1
    <3>3. n = 1 \/ (Outside(path[k][1], path[k][2]) /\ ~Past(path[k][1], path[k][2]))
      <4>1. k = 0 \/ k \in 1 .. t - 1
        BY <3>1
      <4> QED BY <2>2, <4>1
    <3>4. round[n] = path[n]
      BY <2>3, <3>1, <3>2, <3>3 DEF Round
    <3> QED BY <2>1, <3>1, <3>4
  <2>5. CASE ~(k < t)
    <3>1. round[k] = path[t] /\ n # 1 /\ ~(n <= t)
      <4>1. k <= t => k = t
        BY <2>5
      <4> QED BY <2>2, <2>3, <2>5, <4>1
    <3>2. round[n] = path[t]
      BY <2>3, <3>1 DEF Round
    <3> QED BY <2>1, <3>1, <3>2
  <2> QED BY <2>4, <2>5
<1>4. round[bound] = path[t]
  <2>1. bound \notin B
    BY <1>3
  <2>2. bound <= t => bound = t
    BY <1>2
  <2> QED BY <1>2, <2>1, <2>2
<1> QED BY <1>1, <1>4

----------------------------------------------------------------------------
(* Its path through a subrectangle.                                          *)

\* The tiles in a row of a whole subrectangle, and in a column.
ZCols == SubrectSize \div ZTileSize

LEMMA ZSizes == ZCols \in Nat \ {0} /\ SubrectSize = ZTileSize * ZCols
<1>1. /\ ZTileSize \in Nat \ {0} /\ SubrectSize \in Nat \ {0} /\ SubrectSize % ZTileSize = 0
  BY FrameAssumption
<1>2. PICK s, z : s = SubrectSize /\ z = ZTileSize /\ s \in Nat \ {0} /\ z \in Nat \ {0} /\ s % z = 0
  BY <1>1
<1>3. s = z * (s \div z) + 0 /\ s \div z \in Nat
  BY <1>2, DivMod
<1>4. PICK m : m = s \div z /\ m \in Nat /\ s = z * m
  BY <1>2, <1>3
<1>5. m # 0
  BY <1>2, <1>4
<1> QED BY <1>2, <1>4, <1>5 DEF ZCols

\* The corner of tile a in row b of the subrectangle in column A and row B.
At(A, a, B, b) ==
  <<SubrectSize * A + ZTileSize * a, SubrectSize * B + ZTileSize * b>>

\* Which of them begin a subrectangle.
LEMMA WhereSubsBegin ==
  ASSUME NEW A \in Nat, NEW a \in 0 .. ZCols
  PROVE  (SubrectSize * A + ZTileSize * a) % SubrectSize = 0 <=> a \in {0, ZCols}
<1>1. PICK s, z, m : /\ s = SubrectSize /\ z = ZTileSize /\ m = ZCols
                     /\ s \in Nat \ {0} /\ z \in Nat \ {0} /\ m \in Nat \ {0} /\ s = z * m
  BY ZSizes, Sizes
<1>2. CASE a < m
  <2>1. PICK t \in Nat : t = z * a /\ (t = 0 <=> a = 0) /\ t < s
    <3>1. z * a < z * m /\ a \in Nat
      BY <1>1, <1>2, TimesMono
    <3>2. z * a \in Nat /\ (z * a = 0 <=> a = 0)
      BY <1>1, <3>1
    <3> QED BY <1>1, <3>1, <3>2
  <2>2. (s * A + t) % s = t
    <3>1. t \in 0 .. s - 1
      BY <1>1, <2>1
    <3> QED BY <1>1, <3>1, DivModIs
  <2> QED BY <1>1, <1>2, <2>1, <2>2
<1>3. CASE a = m
  <2>1. s * A + z * a = s * (A + 1) + 0
    BY <1>1, <1>3
  <2>2. (s * (A + 1) + 0) % s = 0
    BY <1>1, DivModIs
  <2> QED BY <1>1, <1>3, <2>1, <2>2
<1> QED BY <1>1, <1>2, <1>3

\* Where the path leaves a subrectangle.
Leaves(A, B) ==
  IF SubrectSize * (A + 1) < fbUpdateRect.w THEN At(A + 1, 0, B, 0)
  ELSE IF SubrectSize * (B + 1) < fbUpdateRect.h THEN At(0, 0, B + 1, 0)
  ELSE At(A + 1, 0, B + 1, 0)

LEMMA ZSteps ==
  ASSUME NEW A \in Nat, NEW B \in Nat, NEW a \in 0 .. ZCols - 1, NEW b \in 0 .. ZCols - 1,
         NEW x, NEW y, <<x, y>> = At(A, a, B, b)
  PROVE  /\ a + 1 < ZCols => ZStep(x, y) = At(A, a + 1, B, b)
         /\ a + 1 = ZCols /\ b + 1 < ZCols => ZStep(x, y) = At(A, 0, B, b + 1)
         /\ a + 1 = ZCols /\ b + 1 = ZCols => ZStep(x, y) = Leaves(A, B)
<1>1. PICK s, z, m : /\ s = SubrectSize /\ z = ZTileSize /\ m = ZCols
                     /\ s \in Nat \ {0} /\ z \in Nat \ {0} /\ m \in Nat \ {0} /\ s = z * m
  BY ZSizes, Sizes
<1>2. PICK sA, sB, za, zb \in Nat :
        /\ sA = s * A /\ sB = s * B /\ za = z * a /\ zb = z * b
        /\ s * (A + 1) = sA + s /\ s * (B + 1) = sB + s /\ s * 0 = 0 /\ z * 0 = 0
        /\ z * (a + 1) = za + z /\ z * (b + 1) = zb + z
  BY <1>1
<1>3. x = sA + za /\ y = sB + zb
  BY <1>1, <1>2 DEF At
<1>4. /\ (x + z) % s = 0 <=> a + 1 = m
      /\ (y + z) % s = 0 <=> b + 1 = m
  <2>1. /\ (s * A + z * (a + 1)) % s = 0 <=> a + 1 \in {0, m}
        /\ (s * B + z * (b + 1)) % s = 0 <=> b + 1 \in {0, m}
    BY <1>1, WhereSubsBegin
  <2>2. s * A + z * (a + 1) = x + z /\ s * B + z * (b + 1) = y + z
    BY <1>1, <1>2, <1>3
  <2> QED BY <1>1, <2>1, <2>2
<1>5. ZStep(x, y) = IF a + 1 # m THEN <<x + z, y>>
                    ELSE IF b + 1 # m THEN <<x + z - s, y + z>>
                    ELSE IF x + z < fbUpdateRect.w THEN <<x + z, y + z - s>>
                    ELSE IF y + z < fbUpdateRect.h THEN <<0, y + z>>
                    ELSE <<x + z, y + z>>
  <2>1. ZStep(x, y) = IF (x + z) % s # 0 THEN <<x + z, y>>
                      ELSE IF (y + z) % s # 0 THEN <<x + z - s, y + z>>
                      ELSE IF x + z < fbUpdateRect.w THEN <<x + z, y + z - s>>
                      ELSE IF y + z < fbUpdateRect.h THEN <<0, y + z>>
                      ELSE <<x + z, y + z>>
    <3>1. x \in Int /\ y \in Int /\ s \in Int /\ z \in Int /\ s = SubrectSize /\ z = ZTileSize
      BY <1>1, <1>2, <1>3
    <3> QED BY <3>1 DEF ZStep
  <2> DEFINE right == (x + z) % s
             down == (y + z) % s
  <2>2. (right # 0 <=> a + 1 # m) /\ (down # 0 <=> b + 1 # m)
    BY <1>4
  <2> HIDE DEF right, down
  <2>3. ZStep(x, y) = IF right # 0 THEN <<x + z, y>>
                      ELSE IF down # 0 THEN <<x + z - s, y + z>>
                      ELSE IF x + z < fbUpdateRect.w THEN <<x + z, y + z - s>>
                      ELSE IF y + z < fbUpdateRect.h THEN <<0, y + z>>
                      ELSE <<x + z, y + z>>
    BY <2>1 DEF right, down
  <2> QED BY <2>2, <2>3
<1>6. ASSUME a + 1 < m PROVE ZStep(x, y) = At(A, a + 1, B, b)
  <2>1. At(A, a + 1, B, b) = <<sA + (za + z), sB + zb>>
    BY <1>1, <1>2 DEF At
  <2> QED BY <1>1, <1>2, <1>3, <1>5, <1>6, <2>1
<1>7. ASSUME a + 1 = m PROVE x + z = sA + s
  BY <1>1, <1>2, <1>3, <1>7
<1>8. ASSUME a + 1 = m, b + 1 < m PROVE ZStep(x, y) = At(A, 0, B, b + 1)
  <2>1. At(A, 0, B, b + 1) = <<sA + 0, sB + (zb + z)>>
    BY <1>1, <1>2 DEF At
  <2>2. x + z - s = sA + 0 /\ y + z = sB + (zb + z)
    BY <1>1, <1>2, <1>3, <1>7, <1>8
  <2> QED BY <1>1, <1>5, <1>8, <2>1, <2>2
<1>9. ASSUME a + 1 = m, b + 1 = m PROVE ZStep(x, y) = Leaves(A, B)
  <2>1. y + z = sB + s
    BY <1>1, <1>2, <1>3, <1>9
  <2>2. ZStep(x, y) = IF sA + s < fbUpdateRect.w THEN <<sA + s, sB>>
                      ELSE IF sB + s < fbUpdateRect.h THEN <<0, sB + s>>
                      ELSE <<sA + s, sB + s>>
    <3>1. y + z - s = sB
      BY <1>1, <1>2, <1>3, <2>1
    <3> QED BY <1>5, <1>7, <1>9, <2>1, <3>1
  <2>3. /\ At(A + 1, 0, B, 0) = <<sA + s, sB>>
        /\ At(0, 0, B + 1, 0) = <<0, sB + s>>
        /\ At(A + 1, 0, B + 1, 0) = <<sA + s, sB + s>>
    <3>1. /\ At(A + 1, 0, B, 0) = <<(sA + s) + 0, sB + 0>>
          /\ At(0, 0, B + 1, 0) = <<0 + 0, (sB + s) + 0>>
          /\ At(A + 1, 0, B + 1, 0) = <<(sA + s) + 0, (sB + s) + 0>>
      BY <1>1, <1>2 DEF At
    <3>2. (sA + s) + 0 = sA + s /\ (sB + s) + 0 = sB + s /\ sB + 0 = sB /\ 0 + 0 = 0
      BY <1>1, <1>2
    <3> QED BY <3>1, <3>2
  <2> QED BY <1>1, <1>2, <2>2, <2>3 DEF Leaves
<1> QED BY <1>1, <1>6, <1>8, <1>9

\* Places in the order in which they are counted.
LEMMA PlaceOrder ==
  ASSUME NEW cols \in Nat \ {0}, NEW k, NEW a, NEW b, PlaceIs(k, cols, a, b),
         NEW l, NEW c, NEW d, PlaceIs(l, cols, c, d)
  PROVE  k < l <=> (b < d \/ (b = d /\ a < c))
<1>1. /\ b \in Nat /\ a \in 0 .. cols - 1 /\ k = cols * b + a
      /\ d \in Nat /\ c \in 0 .. cols - 1 /\ l = cols * d + c
  BY DEF PlaceIs
<1>2. cols * b \in Nat /\ cols * d \in Nat
  BY <1>1
<1>3. CASE b < d
  <2>1. cols * b + cols <= cols * d
    BY <1>1, <1>3, TimesMono
  <2> QED BY <1>1, <1>2, <1>3, <2>1
<1>4. CASE b = d
  <2>1. cols * b = cols * d
    BY <1>4
  <2> QED BY <1>1, <1>2, <1>4, <2>1
<1>5. CASE d < b
  <2>1. cols * d + cols <= cols * b
    BY <1>1, <1>5, TimesMono
  <2> QED BY <1>1, <1>2, <1>5, <2>1
<1> QED BY <1>1, <1>3, <1>4, <1>5

\* The tile with the number n, where a subrectangle is whole.
Tile(A, B, n) == At(A, n % ZCols, B, n \div ZCols)

LEMMA TileIs ==
  ASSUME NEW A, NEW B, NEW n, NEW a, NEW b, PlaceIs(n, ZCols, a, b)
  PROVE  Tile(A, B, n) = At(A, a, B, b)
BY ZSizes, PlaceUnique DEF Tile

\* The rounds go through the tiles of a subrectangle, from number k on, until one is not
\* outside of the rectangle or all are past it, or the subrectangle ends.
LEMMA ZLeads ==
  ASSUME NEW A \in Nat, NEW B \in Nat, NEW k \in Nat, NEW l \in Nat, k < l, l <= ZCols * ZCols,
         tile_x \in Int, tile_y \in Int, <<tile_x, tile_y>> = Tile(A, B, k),
         \A n \in Nat : k < n /\ n < l
            => LET p == Tile(A, B, n) IN Outside(p[1], p[2]) /\ ~Past(p[1], p[2]),
         NEW last, last = IF l < ZCols * ZCols THEN Tile(A, B, l) ELSE Leaves(A, B),
         ~(Outside(last[1], last[2]) /\ ~Past(last[1], last[2]))
  PROVE  ZAdvanced = last
<1> DEFINE m == ZCols
           N == m * m
           t == l - k
           path == [i \in Nat |-> IF i < t THEN Tile(A, B, k + i) ELSE last]
<1>1. m \in Nat \ {0} /\ N \in Nat /\ t \in Nat \ {0} /\ k + t = l /\ t <= N
  <2>1. m \in Nat \ {0}
    BY ZSizes
  <2>2. N \in Nat
    BY <2>1
  <2> HIDE DEF N
  <2> QED BY <2>1, <2>2 DEF N
<1>2. t <= 2 * (SubrectSize \div ZTileSize) * (SubrectSize \div ZTileSize)
  <2>1. 2 * m * m = 2 * N
    <3> HIDE DEF m
    <3> QED BY <1>1
  <2>2. 2 * (SubrectSize \div ZTileSize) * (SubrectSize \div ZTileSize) = 2 * m * m
    BY DEF ZCols
  <2> HIDE DEF N, m
  <2> QED BY <1>1, <2>1, <2>2
<1>3. \A n \in Nat : n < N => \E a, b : PlaceIs(n, m, a, b) /\ a \in 0 .. m - 1 /\ b \in 0 .. m - 1
  <2> SUFFICES ASSUME NEW n \in Nat, n < N
               PROVE  \E a, b : PlaceIs(n, m, a, b) /\ a \in 0 .. m - 1 /\ b \in 0 .. m - 1
    OBVIOUS
  <2> HIDE DEF m
  <2>1. PICK a, b : PlaceIs(n, m, a, b)
    BY <1>1, PlaceExists
  <2>2. b < m
    BY <1>1, <2>1, PlaceBound
  <2>3. a \in 0 .. m - 1 /\ b \in 0 .. m - 1
    BY <1>1, <2>1, <2>2 DEF PlaceIs
  <2> QED BY <2>1, <2>3
<1>4. ASSUME NEW n \in Nat, n + 1 < N
      PROVE  ZStep(Tile(A, B, n)[1], Tile(A, B, n)[2]) = Tile(A, B, n + 1)
  <2>1. n < N
    BY <1>1, <1>4
  <2>2. PICK a, b : PlaceIs(n, m, a, b) /\ a \in 0 .. m - 1 /\ b \in 0 .. m - 1
    BY <1>3, <2>1
  <2>3. Tile(A, B, n) = At(A, a, B, b)
    BY <2>2, TileIs
  <2> DEFINE x == Tile(A, B, n)[1]
             y == Tile(A, B, n)[2]
  <2>4. <<x, y>> = At(A, a, B, b)
    BY <2>3 DEF At
  <2> HIDE DEF x, y
  <2>5. /\ a + 1 < m => ZStep(x, y) = At(A, a + 1, B, b)
        /\ a + 1 = m /\ b + 1 < m => ZStep(x, y) = At(A, 0, B, b + 1)
    BY <2>2, <2>4, ZSteps
  <2>6. CASE a + 1 < m
    <3>1. PlaceIs(n + 1, m, a + 1, b)
      BY <1>1, <2>2, <2>6, PlaceNext
    <3> QED BY <2>5, <2>6, <3>1, TileIs DEF x, y
  <2>7. CASE a + 1 >= m
    <3>1. a + 1 = m /\ PlaceIs(n + 1, m, 0, b + 1)
      BY <1>1, <2>2, <2>7, PlaceNext
    <3>2. b + 1 < m
      BY <1>1, <1>4, <3>1, PlaceBound
    <3> QED BY <2>5, <3>1, <3>2, TileIs DEF x, y
  <2>8. a + 1 < m \/ a + 1 >= m
    BY <1>1, <2>2
  <2> QED BY <2>6, <2>7, <2>8
<1>5. ASSUME NEW n \in Nat, n + 1 = N
      PROVE  ZStep(Tile(A, B, n)[1], Tile(A, B, n)[2]) = Leaves(A, B)
  <2>1. n < N
    BY <1>1, <1>5
  <2>2. PICK a, b : PlaceIs(n, m, a, b) /\ a \in 0 .. m - 1 /\ b \in 0 .. m - 1
    BY <1>3, <2>1
  <2>3. Tile(A, B, n) = At(A, a, B, b)
    BY <2>2, TileIs
  <2> DEFINE x == Tile(A, B, n)[1]
             y == Tile(A, B, n)[2]
  <2>4. <<x, y>> = At(A, a, B, b)
    BY <2>3 DEF At
  <2> HIDE DEF x, y
  <2>5. a + 1 = m /\ b + 1 = m
    <3>1. ~(a + 1 < m)
      <4>1. ASSUME a + 1 < m PROVE FALSE
        <5>1. PlaceIs(n + 1, m, a + 1, b)
          BY <1>1, <2>2, <4>1, PlaceNext
        <5>2. n + 1 < N
          BY <1>1, <2>2, <5>1, PlaceBound
        <5> QED BY <1>1, <1>5, <5>2
      <4> QED BY <4>1
    <3>2. a + 1 = m /\ PlaceIs(n + 1, m, 0, b + 1)
      <4>1. a + 1 >= m
        BY <1>1, <2>2, <3>1
      <4> QED BY <1>1, <2>2, <4>1, PlaceNext
    <3>3. ~(b + 1 < m)
      <4>1. ASSUME b + 1 < m PROVE FALSE
        <5>1. n + 1 < N
          BY <1>1, <3>2, <4>1, PlaceBound
        <5> QED BY <1>1, <1>5, <5>1
      <4> QED BY <4>1
    <3> QED BY <1>1, <2>2, <3>2, <3>3
  <2>6. ZStep(x, y) = Leaves(A, B)
    BY <2>2, <2>4, <2>5, ZSteps
  <2> QED BY <2>6 DEF x, y
<1> HIDE DEF m, N, t
<1>6. path[0] = <<tile_x, tile_y>>
  <2>1. 0 < t /\ k + 0 = k
    BY <1>1
  <2> QED BY <2>1
<1>7. ASSUME NEW i \in 0 .. t - 1
      PROVE  path[i + 1] = ZStep(path[i][1], path[i][2])
  <2>1. i \in Nat /\ i < t /\ i + 1 \in Nat /\ k + i \in Nat /\ k + (i + 1) = (k + i) + 1
    BY <1>1
  <2>2. path[i] = Tile(A, B, k + i)
    BY <2>1
  <2>3. CASE i + 1 < t
    <3>1. (k + i) + 1 < N
      BY <1>1, <2>1, <2>3 DEF N, m
    <3>2. path[i + 1] = Tile(A, B, (k + i) + 1)
      BY <2>1, <2>3
    <3> QED BY <1>4, <2>1, <2>2, <3>1, <3>2
  <2>4. CASE ~(i + 1 < t)
    <3>1. (k + i) + 1 = l /\ l <= N
      BY <1>1, <2>1, <2>4 DEF N, m
    <3>2. path[i + 1] = last
      BY <2>1, <2>4
    <3>3. CASE l < N
      <4>1. last = Tile(A, B, l)
        BY <3>3 DEF N, m
      <4> QED BY <1>4, <2>1, <2>2, <3>1, <3>2, <3>3, <4>1
    <3>4. CASE l = N
      <4>1. last = Leaves(A, B)
        BY <1>1, <3>4 DEF N, m
      <4> QED BY <1>5, <2>1, <2>2, <3>1, <3>2, <3>4, <4>1
    <3> QED BY <1>1, <3>1, <3>3, <3>4
  <2> QED BY <2>3, <2>4
<1>8. ASSUME NEW i \in 1 .. t - 1
      PROVE  Outside(path[i][1], path[i][2]) /\ ~Past(path[i][1], path[i][2])
  <2>1. i \in Nat /\ i < t /\ k + i \in Nat /\ k < k + i /\ k + i < l
    BY <1>1
  <2>2. path[i] = Tile(A, B, k + i)
    BY <2>1
  <2> QED BY <2>1, <2>2
<1>9. path[t] = last
  <2>1. t \in Nat /\ ~(t < t)
    BY <1>1
  <2> QED BY <2>1
<1> HIDE DEF path
<1>10. ~(Outside(path[t][1], path[t][2]) /\ ~Past(path[t][1], path[t][2]))
  BY <1>9
<1>11. ZAdvanced = path[t]
  BY <1>1, <1>2, <1>6, <1>7, <1>8, <1>10, RoundsLead
<1> QED BY <1>9, <1>11

----------------------------------------------------------------------------
(* The tiles of ZRLE.                                                        *)

\* The subrectangle A, counted along one side of length w, takes n tiles there.
Stretch(w, A, n) ==
  /\ n \in 1 .. ZCols
  /\ \A a \in 0 .. ZCols - 1 : a < n <=> SubrectSize * A + ZTileSize * a < w
  /\ n < ZCols => w <= SubrectSize * (A + 1)

LEMMA Stretches ==
  ASSUME NEW w \in Nat, NEW A \in Nat, SubrectSize * A < w,
         NEW len, len = Smaller(SubrectSize * A + SubrectSize, w) - SubrectSize * A
  PROVE  len \in Nat \ {0} /\ Stretch(w, A, CeilDiv(len, ZTileSize))
<1>1. PICK s, z, m : /\ s = SubrectSize /\ z = ZTileSize /\ m = ZCols
                     /\ s \in Nat \ {0} /\ z \in Nat \ {0} /\ m \in Nat \ {0} /\ s = z * m
  BY ZSizes, Sizes
<1>2. PICK sA \in Nat : sA = s * A /\ s * (A + 1) = sA + s /\ sA < w
  BY <1>1
<1>3. len = (IF sA + s < w THEN sA + s ELSE w) - sA
  BY <1>1, <1>2 DEF Smaller
<1>4. len \in Nat \ {0} /\ \A t \in Int : t < len <=> t < s /\ sA + t < w
  BY <1>1, <1>2, <1>3
<1>5. PICK n : /\ n = CeilDiv(len, z) /\ n \in Nat /\ len <= z * n
               /\ \A a \in Int : a < n <=> z * a < len
  BY <1>1, <1>4, CeilFacts
<1>6. \A a \in Nat : z * a \in Nat
  BY <1>1
<1>7. ASSUME NEW a \in Nat
      PROVE  a < n <=> a < m /\ sA + z * a < w
  <2>1. a < m <=> z * a < z * m
    BY <1>1, TimesMono
  <2>2. a < n <=> z * a < len
    BY <1>5
  <2> QED BY <1>1, <1>4, <1>6, <2>1, <2>2
<1>8. n \in 1 .. m
  <2>1. 0 < n
    BY <1>1, <1>2, <1>7
  <2>2. ~(m < n)
    BY <1>1, <1>7
  <2> QED BY <1>1, <1>5, <2>1, <2>2
<1>9. ASSUME n < m
      PROVE  w <= sA + s
  <2>1. ~(sA + z * n < w)
    BY <1>5, <1>7, <1>9
  <2>2. z * n < z * m
    BY <1>1, <1>5, <1>9, TimesMono
  <2> QED BY <1>1, <1>2, <1>5, <1>6, <2>1, <2>2
<1>10. Stretch(w, A, n)
  <2>1. \A a \in 0 .. m - 1 : a < n <=> s * A + z * a < w
    <3> SUFFICES ASSUME NEW a \in 0 .. m - 1 PROVE a < n <=> sA + z * a < w
      BY <1>2
    <3>1. a \in Nat /\ a < m
      BY <1>1
    <3> QED BY <1>7, <3>1
  <2>2. n < m => w <= s * (A + 1)
    BY <1>2, <1>9
  <2> QED BY <1>1, <1>8, <2>1, <2>2 DEF Stretch
<1> QED BY <1>1, <1>4, <1>5, <1>10

\* Subrectangle j, in column A and row B of the subrectangles, has cols by rows tiles.
ZGrid(R, j, A, B, cols, rows) ==
  /\ PlaceIs(j, SubColumns(R), A, B) /\ A \in Nat /\ B \in Nat /\ B < SubRows(R)
  /\ Stretch(R.w, A, cols) /\ Stretch(R.h, B, rows)
  /\ NumTiles("ZRLE", R, j) = cols * rows
  /\ \A k, a, b : PlaceIs(k, cols, a, b) /\ b < rows => TileAt("ZRLE", R, j, k) = At(A, a, B, b)

\* So many subrectangles there are.
SubCount(R) ==
  /\ SubColumns(R) \in Nat \ {0} /\ SubRows(R) \in Nat \ {0}
  /\ NumSubs("ZRLE", R) = SubColumns(R) * SubRows(R)
  /\ \A A \in Int : A < SubColumns(R) <=> SubrectSize * A < R.w
  /\ \A B \in Int : B < SubRows(R) <=> SubrectSize * B < R.h

LEMMA SubCounts ==
  ASSUME NEW R, RectOk(R)
  PROVE  SubCount(R)
<1>1. /\ R.w \in Nat /\ R.h \in Nat /\ R.w > 0 /\ R.h > 0 /\ SubrectSize \in Nat \ {0}
      /\ SubrectSize * 0 = 0
  BY Sizes DEF RectOk
<1>2. /\ SubColumns(R) \in Nat /\ SubRows(R) \in Nat
      /\ \A A \in Int : A < SubColumns(R) <=> SubrectSize * A < R.w
      /\ \A B \in Int : B < SubRows(R) <=> SubrectSize * B < R.h
  BY <1>1, CeilFacts DEF SubColumns, SubRows
<1>3. 0 < SubColumns(R) /\ 0 < SubRows(R)
  BY <1>1, <1>2
<1>4. NumSubs("ZRLE", R) = SubColumns(R) * SubRows(R)
  BY DEF NumSubs
<1> QED BY <1>2, <1>3, <1>4 DEF SubCount

LEMMA ZGridIs ==
  ASSUME NEW R, RectOk(R), NEW j, NEW A, NEW B, PlaceIs(j, SubColumns(R), A, B), B < SubRows(R)
  PROVE  \E cols, rows : ZGrid(R, j, A, B, cols, rows)
<1>1. /\ SubColumns(R) \in Nat \ {0} /\ SubRows(R) \in Nat \ {0}
      /\ \A a \in Int : a < SubColumns(R) <=> SubrectSize * a < R.w
      /\ \A b \in Int : b < SubRows(R) <=> SubrectSize * b < R.h
  BY SubCounts DEF SubCount
<1>2. /\ A \in Nat /\ B \in Nat /\ j % SubColumns(R) = A /\ j \div SubColumns(R) = B
      /\ A < SubColumns(R)
  BY <1>1, PlaceUnique DEF PlaceIs
<1>3. SubrectSize * A < R.w /\ SubrectSize * B < R.h
  BY <1>1, <1>2
<1>4. /\ R.w \in Nat /\ R.h \in Nat /\ R.x \in Nat /\ R.y \in Nat
      /\ SubrectSize * A \in Nat /\ SubrectSize * B \in Nat
  BY <1>2, Sizes DEF RectOk
<1> DEFINE r == Sub("ZRLE", R, j)
           cols == CeilDiv(r.w, ZTileSize)
           rows == CeilDiv(r.h, ZTileSize)
<1>5. /\ r.x = R.x + SubrectSize * A /\ r.y = R.y + SubrectSize * B
      /\ r.w = Smaller(SubrectSize * A + SubrectSize, R.w) - SubrectSize * A
      /\ r.h = Smaller(SubrectSize * B + SubrectSize, R.h) - SubrectSize * B
  BY <1>2 DEF Sub, SubAt
<1> HIDE DEF r
<1>6. r.w \in Nat \ {0} /\ r.h \in Nat \ {0} /\ Stretch(R.w, A, cols) /\ Stretch(R.h, B, rows)
  BY <1>2, <1>3, <1>4, <1>5, Stretches
<1>7. InGrid("ZRLE", R, r, cols, rows)
  <2>1. r.w > 0 /\ r.h > 0 /\ SizeOf("ZRLE") = ZTileSize
    BY <1>6 DEF SizeOf
  <2> QED BY <1>6, <2>1, GridTiles
<1> HIDE DEF cols, rows
<1>8. NumTiles("ZRLE", R, j) = cols * rows
  BY <1>7 DEF InGrid, NumTiles, SubTiles, r
<1>9. ASSUME NEW k, NEW a, NEW b, PlaceIs(k, cols, a, b), b < rows
      PROVE  TileAt("ZRLE", R, j, k) = At(A, a, B, b)
  <2>1. TilesOf("ZRLE", R, r)[k + 1] = <<r.x - R.x + ZTileSize * a, r.y - R.y + ZTileSize * b>>
    BY <1>7, <1>9 DEF InGrid, SizeOf
  <2>2. r.x - R.x = SubrectSize * A /\ r.y - R.y = SubrectSize * B
    BY <1>4, <1>5
  <2> QED BY <2>1, <2>2 DEF TileAt, SubTiles, At, r
<1>10. ZGrid(R, j, A, B, cols, rows)
  BY <1>2, <1>6, <1>8, <1>9 DEF ZGrid
<1> QED BY <1>10

LEMMA FirstTile ==
  ASSUME NEW R, RectOk(R), NEW j, NEW A, NEW B, PlaceIs(j, SubColumns(R), A, B), B < SubRows(R)
  PROVE  TileAt("ZRLE", R, j, 0) = At(A, 0, B, 0)
<1>1. PICK cols, rows : ZGrid(R, j, A, B, cols, rows)
  BY ZGridIs
<1>2. cols \in Nat /\ cols > 0 /\ rows \in Nat /\ rows > 0
  BY <1>1, ZSizes DEF ZGrid, Stretch
<1>3. PlaceIs(0, cols, 0, 0)
  BY <1>2 DEF PlaceIs
<1> QED BY <1>1, <1>2, <1>3 DEF ZGrid

\* Which places on the path are outside of the rectangle, and past it.
LEMMA WhereOutside ==
  ASSUME NEW R, fbUpdateRect = R, RectOk(R), NEW A \in Nat, NEW B \in Nat, NEW cols, NEW rows,
         Stretch(R.w, A, cols), Stretch(R.h, B, rows),
         NEW c \in 0 .. ZCols - 1, NEW d \in 0 .. ZCols - 1, NEW p, p = At(A, c, B, d)
  PROVE  /\ Outside(p[1], p[2]) <=> c >= cols \/ d >= rows
         /\ Past(p[1], p[2]) <=> c >= cols /\ d >= rows
         /\ More("ZRLE", R, p) <=> ~Past(p[1], p[2])
<1>1. /\ cols \in Nat /\ rows \in Nat /\ R.w \in Nat /\ R.h \in Nat /\ c \in Nat /\ d \in Nat
      /\ SubrectSize \in Nat /\ ZTileSize \in Nat
  BY ZSizes, Sizes DEF Stretch, RectOk
<1>2. PICK x, y \in Nat : /\ x = SubrectSize * A + ZTileSize * c
                          /\ y = SubrectSize * B + ZTileSize * d
  BY <1>1
<1>3. (c < cols <=> x < R.w) /\ (d < rows <=> y < R.h)
  BY <1>2 DEF Stretch
<1>4. p[1] = x /\ p[2] = y
  BY <1>2 DEF At
<1> QED BY <1>1, <1>2, <1>3, <1>4 DEF Outside, Past, More

\* ZRLE's advanceToNextTile finds the next tile, and the end.
LEMMA ZFollows ==
  ASSUME NEW R, RectOk(R), fbUpdateRect = R, frameEncoder = "ZRLE",
         NEW j \in Nat, j < NumSubs("ZRLE", R), NEW k \in Nat, k < NumTiles("ZRLE", R, j),
         <<tile_x, tile_y>> = TileAt("ZRLE", R, j, k)
  PROVE  Follows("ZRLE", R, j, k, NextTile)
<1> DEFINE m == ZCols
           C == SubColumns(R)
           D == SubRows(R)
<1>1. /\ C \in Nat \ {0} /\ D \in Nat \ {0} /\ NumSubs("ZRLE", R) = C * D
      /\ \A A \in Int : A < C <=> SubrectSize * A < R.w
      /\ \A B \in Int : B < D <=> SubrectSize * B < R.h
  BY SubCounts DEF SubCount
<1>2. m \in Nat \ {0} /\ SubrectSize \in Nat /\ ZTileSize \in Nat /\ R.w \in Nat /\ R.h \in Nat
  BY ZSizes, Sizes DEF RectOk
<1>3. PICK A, B : PlaceIs(j, C, A, B) /\ A \in Nat /\ A < C /\ B \in Nat /\ B < D
  <2> HIDE DEF C, D
  <2>1. PICK A, B : PlaceIs(j, C, A, B)
    BY <1>1, PlaceExists
  <2>2. B < D
    BY <1>1, <2>1, PlaceBound
  <2>3. A \in Nat /\ A < C /\ B \in Nat
    BY <1>1, <2>1 DEF PlaceIs
  <2> QED BY <2>1, <2>2, <2>3
<1>4. PICK cols, rows : ZGrid(R, j, A, B, cols, rows)
  BY <1>3, ZGridIs
<1>5. /\ Stretch(R.w, A, cols) /\ Stretch(R.h, B, rows)
      /\ cols \in 1 .. m /\ rows \in 1 .. m /\ NumTiles("ZRLE", R, j) = cols * rows
  BY <1>4 DEF ZGrid, Stretch
<1> HIDE DEF C, D, m
<1>6. PICK a, b : PlaceIs(k, cols, a, b) /\ a \in 0 .. cols - 1 /\ b \in 0 .. rows - 1
  <2>1. cols \in Nat \ {0} /\ rows \in Nat
    BY <1>2, <1>5
  <2>2. PICK a, b : PlaceIs(k, cols, a, b)
    BY <2>1, PlaceExists
  <2>3. b < rows
    BY <1>5, <2>1, <2>2, PlaceBound
  <2>4. a \in 0 .. cols - 1 /\ b \in 0 .. rows - 1
    BY <2>1, <2>2, <2>3 DEF PlaceIs
  <2> QED BY <2>2, <2>4
<1>7. /\ cols \in Nat \ {0} /\ rows \in Nat \ {0} /\ cols <= m /\ rows <= m
      /\ a \in Nat /\ b \in Nat /\ a < cols /\ b < rows
      /\ a \in 0 .. m - 1 /\ b \in 0 .. m - 1 /\ a + 1 \in Nat /\ b + 1 \in Nat
  BY <1>2, <1>5, <1>6
<1>8. \A l, c, d : PlaceIs(l, cols, c, d) /\ d < rows => TileAt("ZRLE", R, j, l) = At(A, c, B, d)
  BY <1>4 DEF ZGrid
<1>9. <<tile_x, tile_y>> = At(A, a, B, b)
  BY <1>6, <1>7, <1>8
<1>10. tile_x \in Int /\ tile_y \in Int
  BY <1>2, <1>3, <1>7, <1>9 DEF At
<1>11. PICK n : PlaceIs(n, m, a, b) /\ n \in Nat
  <2>1. m * b + a \in Nat
    BY <1>2, <1>7
  <2> QED BY <1>7, <2>1 DEF PlaceIs
<1>12. <<tile_x, tile_y>> = Tile(A, B, n)
  BY <1>9, <1>11, TileIs DEF m
\* What is on the path from n on to l, without l.
<1> DEFINE Skips(l) == \A i \in Nat : n < i /\ i < l =>
                         LET p == Tile(A, B, i) IN Outside(p[1], p[2]) /\ ~Past(p[1], p[2])
<1>13. ASSUME NEW l \in Nat, l <= m * m,
              \A i, c, d : PlaceIs(i, m, c, d) /\ n < i /\ i < l /\ d \in 0 .. m - 1
                => (c >= cols \/ d >= rows) /\ ~(c >= cols /\ d >= rows)
       PROVE  Skips(l)
  <2> SUFFICES ASSUME NEW i \in Nat, n < i, i < l,
                      NEW p, p = Tile(A, B, i)
               PROVE  Outside(p[1], p[2]) /\ ~Past(p[1], p[2])
    OBVIOUS
  <2>1. PICK c, d : PlaceIs(i, m, c, d)
    BY <1>2, PlaceExists
  <2>2. c \in 0 .. m - 1 /\ d \in 0 .. m - 1
    <3>1. m * m \in Nat
      BY <1>2
    <3>2. i < m * m
      BY <1>13, <3>1
    <3>3. d < m
      BY <1>2, <2>1, <3>2, PlaceBound
    <3> QED BY <1>2, <2>1, <3>3 DEF PlaceIs
  <2>3. p = At(A, c, B, d)
    BY <2>1, TileIs DEF m
  <2>4. (c >= cols \/ d >= rows) /\ ~(c >= cols /\ d >= rows)
    BY <1>13, <2>1, <2>2
  <2>5. c \in 0 .. ZCols - 1 /\ d \in 0 .. ZCols - 1
    BY <2>2 DEF m
  <2>6. /\ Outside(p[1], p[2]) <=> c >= cols \/ d >= rows
        /\ Past(p[1], p[2]) <=> c >= cols /\ d >= rows
    BY <1>3, <1>5, <2>3, <2>5, WhereOutside
  <2> QED BY <2>4, <2>6
<1>14. ASSUME NEW l \in Nat, n < l, l <= m * m, Skips(l),
              NEW last, last = IF l < m * m THEN Tile(A, B, l) ELSE Leaves(A, B),
              ~(Outside(last[1], last[2]) /\ ~Past(last[1], last[2]))
       PROVE  NextTile = last
  <2>1. l <= ZCols * ZCols /\ last = IF l < ZCols * ZCols THEN Tile(A, B, l) ELSE Leaves(A, B)
    BY <1>14 DEF m
  <2>2. ZAdvanced = last
    BY <1>3, <1>10, <1>11, <1>12, <1>14, <2>1, ZLeads
  <2> QED BY <2>2 DEF NextTile
<1> HIDE DEF Skips
<1>15. m * m \in Nat
  BY <1>2
\* A tile that is reached, within the subrectangle.
<1>16. ASSUME NEW l, NEW c, NEW d, PlaceIs(l, m, c, d), n < l, c < cols, d < rows, Skips(l)
       PROVE  NextTile = At(A, c, B, d) /\ More("ZRLE", R, NextTile)
  <2>1. l \in Nat /\ l < m * m /\ c \in 0 .. m - 1 /\ d \in 0 .. m - 1
    <3>1. c \in 0 .. m - 1 /\ d \in Nat /\ l = m * d + c
      BY <1>16 DEF PlaceIs
    <3>2. d < m
      BY <1>2, <1>7, <1>16, <3>1
    <3>3. l < m * m
      BY <1>2, <1>16, <3>2, PlaceBound
    <3>4. m * d + c \in Nat
      BY <1>2, <3>1
    <3> QED BY <1>2, <3>1, <3>2, <3>3, <3>4
  <2>2. PICK last : last = At(A, c, B, d) /\ last = Tile(A, B, l)
    BY <1>16, TileIs DEF m
  <2>3. /\ ~Outside(last[1], last[2])
        /\ More("ZRLE", R, last)
    <3>1. c \in 0 .. ZCols - 1 /\ d \in 0 .. ZCols - 1
      BY <2>1 DEF m
    <3>2. /\ Outside(last[1], last[2]) <=> c >= cols \/ d >= rows
          /\ Past(last[1], last[2]) <=> c >= cols /\ d >= rows
          /\ More("ZRLE", R, last) <=> ~Past(last[1], last[2])
      BY <1>3, <1>5, <2>2, <3>1, WhereOutside
    <3> QED BY <1>7, <1>16, <2>1, <3>2
  <2>4. NextTile = last
    BY <1>14, <1>15, <1>16, <2>1, <2>2, <2>3
  <2> QED BY <2>2, <2>3, <2>4
<1>17. CASE a + 1 < cols
  <2>1. PICK l : l = n + 1 /\ PlaceIs(l, m, a + 1, b)
    <3>1. a + 1 < m
      BY <1>2, <1>7, <1>17
    <3> QED BY <1>2, <1>11, <3>1, PlaceNext
  <2>2. Skips(l)
    BY <1>11, <2>1 DEF Skips
  <2>3. NextTile = At(A, a + 1, B, b) /\ More("ZRLE", R, NextTile)
    BY <1>7, <1>11, <1>16, <1>17, <2>1, <2>2
  <2>4. PlaceIs(k + 1, cols, a + 1, b)
    BY <1>6, <1>7, <1>17, PlaceNext
  <2>5. k + 1 < cols * rows
    BY <1>7, <2>4, PlaceBound
  <2>6. TileAt("ZRLE", R, j, k + 1) = At(A, a + 1, B, b)
    BY <1>7, <1>8, <2>4
  <2> QED BY <1>5, <2>3, <2>5, <2>6 DEF Follows
<1>18. CASE a + 1 >= cols /\ b + 1 < rows
  <2>1. PICK l : PlaceIs(l, m, 0, b + 1) /\ l \in Nat
    <3>1. m * (b + 1) + 0 \in Nat
      BY <1>2, <1>7
    <3> QED BY <1>2, <1>7, <3>1 DEF PlaceIs
  <2>2. n < l
    <3>1. b < b + 1
      BY <1>7
    <3> QED BY <1>2, <1>11, <2>1, <3>1, PlaceOrder
  <2>3. l <= m * m
    <3>1. l < m * m
      BY <1>2, <1>7, <1>18, <2>1, PlaceBound
    <3> QED BY <1>15, <2>1, <3>1
  <2>4. ASSUME NEW i, NEW c, NEW d, PlaceIs(i, m, c, d), n < i, i < l, d \in 0 .. m - 1
        PROVE  (c >= cols \/ d >= rows) /\ ~(c >= cols /\ d >= rows)
    <3>1. b < d \/ (b = d /\ a < c)
      BY <1>2, <1>11, <2>4, PlaceOrder
    <3>2. d < b + 1 \/ (d = b + 1 /\ c < 0)
      BY <1>2, <2>1, <2>4, PlaceOrder
    <3>3. c \in Nat /\ d \in Nat
      BY <1>2, <2>4 DEF PlaceIs
    <3> QED BY <1>7, <1>18, <3>1, <3>2, <3>3
  <2>5. Skips(l)
    BY <1>13, <2>1, <2>3, <2>4
  <2>6. NextTile = At(A, 0, B, b + 1) /\ More("ZRLE", R, NextTile)
    BY <1>7, <1>16, <1>18, <2>1, <2>2, <2>5
  <2>7. PlaceIs(k + 1, cols, 0, b + 1)
    BY <1>6, <1>7, <1>18, PlaceNext
  <2>8. k + 1 < cols * rows
    BY <1>7, <1>18, <2>7, PlaceBound
  <2>9. TileAt("ZRLE", R, j, k + 1) = At(A, 0, B, b + 1)
    BY <1>7, <1>8, <1>18, <2>7
  <2> QED BY <1>5, <2>6, <2>8, <2>9 DEF Follows
<1>19. CASE a + 1 >= cols /\ b + 1 >= rows
  <2>1. a + 1 = cols /\ b + 1 = rows
    BY <1>7, <1>19
  <2>2. ~(k + 1 < NumTiles("ZRLE", R, j))
    <3>1. PlaceIs(k + 1, cols, 0, b + 1)
      BY <1>6, <1>7, <1>19, PlaceNext
    <3>2. ~(b + 1 < rows)
      BY <1>7, <1>19
    <3> QED BY <1>5, <1>7, <3>1, <3>2, PlaceBound
  \* Nothing but a tile of this row or of the rows that are missing comes behind it.
  <2>3. ASSUME NEW i, NEW c, NEW d, PlaceIs(i, m, c, d), n < i
        PROVE  c \in Nat /\ d \in Nat /\ (d >= rows \/ (d = b /\ c >= cols))
    <3>1. b < d \/ (b = d /\ a < c)
      BY <1>2, <1>11, <2>3, PlaceOrder
    <3>2. c \in Nat /\ d \in Nat
      BY <1>2, <2>3 DEF PlaceIs
    <3> QED BY <1>7, <2>1, <3>1, <3>2
  <2>4. CASE cols < m /\ rows < m
    <3>1. PICK l : PlaceIs(l, m, cols, rows) /\ l \in Nat
      <4>1. m * rows + cols \in Nat /\ cols \in 0 .. m - 1
        BY <1>2, <1>7, <2>4
      <4> QED BY <1>7, <4>1 DEF PlaceIs
    <3>2. n < l
      BY <1>2, <1>7, <1>11, <3>1, PlaceOrder
    <3>3. l < m * m /\ l <= m * m
      <4>1. l < m * m
        BY <1>2, <1>7, <2>4, <3>1, PlaceBound
      <4> QED BY <1>15, <3>1, <4>1
    <3>4. ASSUME NEW i, NEW c, NEW d, PlaceIs(i, m, c, d), n < i, i < l, d \in 0 .. m - 1
          PROVE  (c >= cols \/ d >= rows) /\ ~(c >= cols /\ d >= rows)
      <4>1. c \in Nat /\ d \in Nat /\ (d >= rows \/ (d = b /\ c >= cols))
        BY <2>3, <3>4
      <4>2. d < rows \/ (d = rows /\ c < cols)
        BY <1>2, <3>1, <3>4, PlaceOrder
      <4> QED BY <1>7, <4>1, <4>2
    <3>5. Skips(l)
      BY <1>13, <3>1, <3>3, <3>4
    <3>6. PICK last : last = At(A, cols, B, rows) /\ last = Tile(A, B, l)
      BY <3>1, TileIs DEF m
    <3>7. Past(last[1], last[2]) /\ ~More("ZRLE", R, last)
      <4>1. cols \in 0 .. ZCols - 1 /\ rows \in 0 .. ZCols - 1
        BY <1>2, <1>7, <2>4 DEF m
      <4>2. /\ Past(last[1], last[2]) <=> cols >= cols /\ rows >= rows
            /\ More("ZRLE", R, last) <=> ~Past(last[1], last[2])
        BY <1>3, <1>5, <3>6, <4>1, WhereOutside
      <4> QED BY <1>7, <4>2
    <3>8. NextTile = last
      BY <1>14, <3>1, <3>2, <3>3, <3>5, <3>6, <3>7
    <3>9. ~(A + 1 < C) /\ ~(B + 1 < D)
      <4>1. R.w <= SubrectSize * (A + 1) /\ R.h <= SubrectSize * (B + 1)
        BY <1>5, <2>4 DEF Stretch, m
      <4>2. SubrectSize * (A + 1) \in Nat /\ SubrectSize * (B + 1) \in Nat
        BY <1>2, <1>3
      <4>3. ~(SubrectSize * (A + 1) < R.w) /\ ~(SubrectSize * (B + 1) < R.h)
        BY <1>2, <4>1, <4>2
      <4> QED BY <1>1, <1>3, <4>3
    <3>10. ~(j + 1 < NumSubs("ZRLE", R))
      <4>1. PlaceIs(j + 1, C, 0, B + 1)
        <5>1. A + 1 >= C
          BY <1>1, <1>3, <3>9
        <5> QED BY <1>1, <1>3, <5>1, PlaceNext
      <4> QED BY <1>1, <3>9, <4>1, PlaceBound
    <3> QED BY <2>2, <3>7, <3>8, <3>10 DEF Follows
  <2>5. CASE ~(cols < m /\ rows < m)
    <3>1. n < m * m
      <4>1. b < m
        BY <1>2, <1>7
      <4> QED BY <1>2, <1>11, <4>1, PlaceBound
    <3>2. ASSUME NEW i, NEW c, NEW d, PlaceIs(i, m, c, d), n < i, i < m * m, d \in 0 .. m - 1
          PROVE  (c >= cols \/ d >= rows) /\ ~(c >= cols /\ d >= rows)
      <4>1. c \in Nat /\ d \in Nat /\ (d >= rows \/ (d = b /\ c >= cols))
        BY <2>3, <3>2
      <4>2. c < m /\ d < m
        BY <1>2, <3>2 DEF PlaceIs
      <4> QED BY <1>2, <1>7, <2>5, <4>1, <4>2
    <3>3. Skips(m * m)
      <4>1. m * m <= m * m
        BY <1>15
      <4> QED BY <1>13, <1>15, <3>2, <4>1
    <3>4. ASSUME ~(Outside(Leaves(A, B)[1], Leaves(A, B)[2])
                   /\ ~Past(Leaves(A, B)[1], Leaves(A, B)[2]))
          PROVE  NextTile = Leaves(A, B)
      <4>1. m * m <= m * m /\ ~(m * m < m * m)
        BY <1>15
      <4> QED BY <1>14, <1>15, <3>1, <3>3, <3>4, <4>1
    <3>5. PICK s : s = SubrectSize /\ s \in Nat
      BY <1>2
    <3>6. PICK sA, sB \in Nat :
            /\ sA = s * A /\ sB = s * B /\ s * (A + 1) = sA + s /\ s * (B + 1) = sB + s
            /\ s * 0 = 0 /\ ZTileSize * 0 = 0
      BY <1>2, <1>3, <3>5
    <3>7. /\ sA < R.w /\ sB < R.h
          /\ A + 1 < C <=> sA + s < R.w
          /\ B + 1 < D <=> sB + s < R.h
      <4>1. A \in Int /\ B \in Int /\ A + 1 \in Int /\ B + 1 \in Int
        BY <1>3
      <4>2. /\ s * A < R.w /\ s * B < R.h
            /\ A + 1 < C <=> s * (A + 1) < R.w
            /\ B + 1 < D <=> s * (B + 1) < R.h
        BY <1>1, <1>3, <3>5, <4>1
      <4> QED BY <3>6, <4>2
    <3>8. /\ At(A + 1, 0, B, 0) = <<sA + s, sB>>
          /\ At(0, 0, B + 1, 0) = <<0, sB + s>>
          /\ At(A + 1, 0, B + 1, 0) = <<sA + s, sB + s>>
      <4>1. /\ At(A + 1, 0, B, 0) = <<(sA + s) + 0, sB + 0>>
            /\ At(0, 0, B + 1, 0) = <<0 + 0, (sB + s) + 0>>
            /\ At(A + 1, 0, B + 1, 0) = <<(sA + s) + 0, (sB + s) + 0>>
        BY <3>5, <3>6 DEF At
      <4>2. (sA + s) + 0 = sA + s /\ (sB + s) + 0 = sB + s /\ sB + 0 = sB /\ 0 + 0 = 0
        BY <3>5, <3>6
      <4> QED BY <4>1, <4>2
    <3>9. Leaves(A, B) = IF A + 1 < C THEN At(A + 1, 0, B, 0)
                         ELSE IF B + 1 < D THEN At(0, 0, B + 1, 0)
                         ELSE At(A + 1, 0, B + 1, 0)
      <4>1. SubrectSize * (A + 1) = sA + s /\ SubrectSize * (B + 1) = sB + s
        BY <3>5, <3>6
      <4> QED BY <3>7, <4>1 DEF Leaves
    <3>10. CASE A + 1 < C
      <4>1. Leaves(A, B) = <<sA + s, sB>> /\ sA + s < R.w
        BY <3>7, <3>8, <3>9, <3>10
      <4>2. NextTile = Leaves(A, B) /\ More("ZRLE", R, NextTile)
        BY <1>2, <3>4, <3>5, <3>6, <3>7, <4>1 DEF Outside, More
      <4>3. PlaceIs(j + 1, C, A + 1, B)
        BY <1>1, <1>3, <3>10, PlaceNext
      <4>4. j + 1 < NumSubs("ZRLE", R)
        BY <1>1, <1>3, <4>3, PlaceBound
      <4>5. TileAt("ZRLE", R, j + 1, 0) = At(A + 1, 0, B, 0)
        BY <1>3, <4>3, FirstTile DEF C, D
      <4> QED BY <2>2, <3>9, <3>10, <4>2, <4>4, <4>5 DEF Follows
    <3>11. CASE ~(A + 1 < C) /\ B + 1 < D
      <4>1. Leaves(A, B) = <<0, sB + s>> /\ sB + s < R.h
        BY <3>7, <3>8, <3>9, <3>11
      <4>2. NextTile = Leaves(A, B) /\ More("ZRLE", R, NextTile)
        BY <1>2, <3>4, <3>5, <3>6, <3>7, <4>1 DEF Outside, More
      <4>3. PlaceIs(j + 1, C, 0, B + 1)
        <5>1. A + 1 >= C
          BY <1>1, <1>3, <3>11
        <5> QED BY <1>1, <1>3, <5>1, PlaceNext
      <4>4. j + 1 < NumSubs("ZRLE", R)
        BY <1>1, <1>3, <3>11, <4>3, PlaceBound
      <4>5. TileAt("ZRLE", R, j + 1, 0) = At(0, 0, B + 1, 0)
        BY <3>11, <4>3, FirstTile DEF C, D
      <4> QED BY <2>2, <3>9, <3>11, <4>2, <4>4, <4>5 DEF Follows
    <3>12. CASE ~(A + 1 < C) /\ ~(B + 1 < D)
      <4>1. Leaves(A, B) = <<sA + s, sB + s>> /\ ~(sA + s < R.w) /\ ~(sB + s < R.h)
        BY <3>7, <3>8, <3>9, <3>12
      <4>2. NextTile = Leaves(A, B) /\ ~More("ZRLE", R, NextTile)
        BY <1>2, <3>4, <3>5, <3>6, <4>1 DEF Past, More
      <4>3. PlaceIs(j + 1, C, 0, B + 1)
        <5>1. A + 1 >= C
          BY <1>1, <1>3, <3>12
        <5> QED BY <1>1, <1>3, <5>1, PlaceNext
      <4>4. ~(j + 1 < NumSubs("ZRLE", R))
        BY <1>1, <1>3, <3>12, <4>3, PlaceBound
      <4> QED BY <2>2, <4>2, <4>4 DEF Follows
    <3> QED BY <3>10, <3>11, <3>12
  <2> QED BY <2>4, <2>5
<1> QED
  <2>1. (a + 1 < cols \/ a + 1 >= cols) /\ (b + 1 < rows \/ b + 1 >= rows)
    BY <1>7
  <2> QED BY <1>17, <1>18, <1>19, <2>1

----------------------------------------------------------------------------
(* The cursor and the subrectangles, for every encoder.                      *)

AllEncoders == {"Raw", "Hextile", "TRLE", "ZRLE"}

\* Where the tiles of Hextile and TRLE are.
LEMMA RowTiles ==
  ASSUME NEW e \in {"Hextile", "TRLE"}, NEW R, RectOk(R), NEW k \in Nat, k < NumTiles(e, R, 0)
  PROVE  \E a, b \in Nat : /\ TileAt(e, R, 0, k) = <<TileSize * a, TileSize * b>>
                           /\ k = 0 <=> a = 0 /\ b = 0
<1> DEFINE s == SizeOf(e)
           cols == CeilDiv(R.w, s)
           rows == CeilDiv(R.h, s)
<1>1. s = TileSize /\ s \in Nat \ {0} /\ Sub(e, R, 0) = R
  BY Sizes DEF SizeOf, Sub
<1>2. InGrid(e, R, R, cols, rows)
  BY GridTiles DEF RectOk
<1> HIDE DEF s, cols, rows
<1>3. /\ cols \in Nat \ {0} /\ rows \in Nat \ {0} /\ NumTiles(e, R, 0) = cols * rows
      /\ \A l, a, b : PlaceIs(l, cols, a, b) /\ b < rows
           => TileAt(e, R, 0, l) = <<R.x - R.x + s * a, R.y - R.y + s * b>>
  BY <1>1, <1>2 DEF InGrid, NumTiles, TileAt, SubTiles, s
<1>4. PICK a, b : PlaceIs(k, cols, a, b)
  BY <1>3, PlaceExists
<1>5. /\ a \in Nat /\ b \in Nat /\ b < rows
      /\ k = 0 <=> a = 0 /\ b = 0
  <2>1. a \in 0 .. cols - 1 /\ b \in Nat /\ k = cols * b + a
    BY <1>4 DEF PlaceIs
  <2>2. cols * b \in Nat /\ (cols * b = 0 <=> b = 0)
    BY <1>3, <2>1
  <2>3. b < rows
    BY <1>3, <1>4, PlaceBound
  <2> QED BY <1>3, <2>1, <2>2, <2>3
<1>6. R.x - R.x = 0 /\ R.y - R.y = 0
  BY DEF RectOk
<1>7. 0 + s * a = s * a /\ 0 + s * b = s * b
  BY <1>1, <1>5
<1>8. TileAt(e, R, 0, k) = <<TileSize * a, TileSize * b>>
  BY <1>1, <1>3, <1>4, <1>5, <1>6, <1>7
<1> QED BY <1>5, <1>8

\* Tile k of subrectangle j of ZRLE.
LEMMA ZTiles ==
  ASSUME NEW R, RectOk(R), NEW j \in Nat, j < NumSubs("ZRLE", R)
  PROVE  \E A, B \in Nat :
           /\ PlaceIs(j, SubColumns(R), A, B)
           /\ NumTiles("ZRLE", R, j) \in Nat \ {0}
           /\ \A k \in Nat : k < NumTiles("ZRLE", R, j) =>
                \E a, b \in 0 .. ZCols - 1 : /\ TileAt("ZRLE", R, j, k) = At(A, a, B, b)
                                             /\ k = 0 <=> a = 0 /\ b = 0
<1> DEFINE C == SubColumns(R)
           D == SubRows(R)
<1>1. C \in Nat \ {0} /\ D \in Nat \ {0} /\ NumSubs("ZRLE", R) = C * D
  BY SubCounts DEF SubCount
<1> HIDE DEF C, D
<1>2. PICK A, B : PlaceIs(j, C, A, B) /\ A \in Nat /\ B \in Nat /\ B < D
  <2>1. PICK A, B : PlaceIs(j, C, A, B)
    BY <1>1, PlaceExists
  <2>2. B < D
    BY <1>1, <2>1, PlaceBound
  <2>3. A \in Nat /\ B \in Nat
    BY <1>1, <2>1 DEF PlaceIs
  <2> QED BY <2>1, <2>2, <2>3
<1>3. PICK cols, rows : ZGrid(R, j, A, B, cols, rows)
  BY <1>2, ZGridIs DEF C, D
<1>4. /\ cols \in 1 .. ZCols /\ rows \in 1 .. ZCols /\ ZCols \in Nat
      /\ NumTiles("ZRLE", R, j) = cols * rows
      /\ \A k, a, b : PlaceIs(k, cols, a, b) /\ b < rows => TileAt("ZRLE", R, j, k) = At(A, a, B, b)
  BY <1>3, ZSizes DEF ZGrid, Stretch
<1>5. cols * rows \in Nat \ {0}
  BY <1>4
<1>6. ASSUME NEW k \in Nat, k < cols * rows
      PROVE  \E a, b \in 0 .. ZCols - 1 : /\ TileAt("ZRLE", R, j, k) = At(A, a, B, b)
                                          /\ k = 0 <=> a = 0 /\ b = 0
  <2>1. cols \in Nat \ {0} /\ rows \in Nat
    BY <1>4
  <2>2. PICK a, b : PlaceIs(k, cols, a, b)
    BY <2>1, PlaceExists
  <2>3. b < rows
    BY <1>6, <2>1, <2>2, PlaceBound
  <2>4. a \in 0 .. cols - 1 /\ b \in Nat /\ k = cols * b + a
    BY <2>2 DEF PlaceIs
  <2>5. cols * b \in Nat /\ (cols * b = 0 <=> b = 0)
    BY <2>1, <2>4
  <2>6. k = 0 <=> a = 0 /\ b = 0
    BY <2>1, <2>4, <2>5
  <2>7. a \in 0 .. ZCols - 1 /\ b \in 0 .. ZCols - 1
    BY <1>4, <2>1, <2>3, <2>4
  <2>8. TileAt("ZRLE", R, j, k) = At(A, a, B, b)
    BY <1>4, <2>2, <2>3
  <2> QED BY <2>6, <2>7, <2>8
<1> QED BY <1>2, <1>4, <1>5, <1>6 DEF C

\* Every subrectangle has a tile, and the first is at the corner of the frame.
LEMMA Counted ==
  ASSUME NEW e \in AllEncoders, NEW R, RectOk(R)
  PROVE  /\ NumSubs(e, R) \in Nat \ {0}
         /\ \A j \in Nat : j < NumSubs(e, R) => NumTiles(e, R, j) \in Nat \ {0}
         /\ TileAt(e, R, 0, 0) = <<0, 0>>
<1>1. CASE e = "Raw"
  <2>1. SubTiles(e, R, 0) = [i \in 1 .. R.h |-> <<0, i - 1>>] /\ NumSubs(e, R) = 1
    BY <1>1 DEF SubTiles, TilesOf, Sub, NumSubs
  <2>2. R.h \in Nat \ {0}
    BY DEF RectOk
  <2>3. NumTiles(e, R, 0) = R.h /\ TileAt(e, R, 0, 0) = <<0, 0>>
    BY <2>1, <2>2 DEF NumTiles, TileAt
  <2>4. \A j \in Nat : j < NumSubs(e, R) => j = 0
    BY <2>1
  <2> QED BY <2>1, <2>2, <2>3, <2>4
<1>2. CASE e \in {"Hextile", "TRLE"}
  <2>1. NumSubs(e, R) = 1 /\ Sub(e, R, 0) = R
    BY <1>2 DEF NumSubs, Sub
  <2>2. NumTiles(e, R, 0) \in Nat \ {0}
    <3>1. InGrid(e, R, R, CeilDiv(R.w, SizeOf(e)), CeilDiv(R.h, SizeOf(e)))
      BY <1>2, GridTiles DEF RectOk
    <3>2. PICK cols, rows \in Nat \ {0} : NumTiles(e, R, 0) = cols * rows
      BY <2>1, <3>1 DEF InGrid, NumTiles, SubTiles
    <3> QED BY <3>2
  <2>3. TileAt(e, R, 0, 0) = <<0, 0>>
    <3>1. PICK a, b \in Nat : /\ TileAt(e, R, 0, 0) = <<TileSize * a, TileSize * b>>
                              /\ 0 = 0 <=> a = 0 /\ b = 0
      BY <1>2, <2>2, RowTiles
    <3>2. TileSize * a = 0 /\ TileSize * b = 0
      BY <3>1, Sizes
    <3> QED BY <3>1, <3>2
  <2>4. \A j \in Nat : j < NumSubs(e, R) => j = 0
    BY <2>1
  <2> QED BY <2>1, <2>2, <2>3, <2>4
<1>3. CASE e = "ZRLE"
  <2>1. SubColumns(R) \in Nat \ {0} /\ SubRows(R) \in Nat \ {0}
        /\ NumSubs(e, R) = SubColumns(R) * SubRows(R)
    BY <1>3, SubCounts DEF SubCount
  <2>2. NumSubs(e, R) \in Nat \ {0}
    <3>1. PICK C, D \in Nat \ {0} : NumSubs(e, R) = C * D
      BY <2>1
    <3> QED BY <3>1
  <2>3. PlaceIs(0, SubColumns(R), 0, 0) /\ 0 < SubRows(R)
    BY <2>1 DEF PlaceIs
  <2>4. TileAt(e, R, 0, 0) = At(0, 0, 0, 0)
    BY <1>3, <2>3, FirstTile
  <2>5. At(0, 0, 0, 0) = <<0, 0>>
    BY Sizes DEF At
  <2>6. \A j \in Nat : j < NumSubs(e, R) => NumTiles(e, R, j) \in Nat \ {0}
    BY <1>3, ZTiles
  <2> QED BY <2>2, <2>4, <2>5, <2>6
<1> QED BY <1>1, <1>2, <1>3 DEF AllEncoders

\* isNewSubrect tells the first tile of a subrectangle from the others.
LEMMA NewSubrects ==
  ASSUME NEW e \in AllEncoders, frameEncoder = e, NEW R, RectOk(R),
         NEW j \in Nat, j < NumSubs(e, R), NEW k \in Nat, k < NumTiles(e, R, j),
         NEW x, NEW y, <<x, y>> = TileAt(e, R, j, k)
  PROVE  NewSubrect(x, y) <=> k = 0
<1>1. CASE e # "ZRLE"
  <2>1. j = 0
    BY <1>1 DEF NumSubs
  <2>2. CASE e = "Raw"
    <3>1. SubTiles(e, R, 0) = [i \in 1 .. R.h |-> <<0, i - 1>>] /\ R.h \in Nat
      BY <2>2 DEF SubTiles, TilesOf, Sub, RectOk
    <3>2. k + 1 \in 1 .. R.h /\ k + 1 - 1 = k
      BY <2>1, <3>1 DEF NumTiles
    <3>3. SubTiles(e, R, 0)[k + 1] = <<0, k + 1 - 1>>
      <4> DEFINE T == SubTiles(e, R, 0)
                 i == k + 1
      <4>1. T = [n \in 1 .. R.h |-> <<0, n - 1>>] /\ i \in 1 .. R.h
        BY <3>1, <3>2
      <4> HIDE DEF T, i
      <4>2. T[i] = <<0, i - 1>>
        BY <4>1
      <4> QED BY <4>2 DEF T, i
    <3>4. x = 0 /\ y = k
      BY <2>1, <3>2, <3>3 DEF TileAt
    <3> QED BY <1>1, <3>4 DEF NewSubrect
  <2>3. CASE e # "Raw"
    <3>1. e \in {"Hextile", "TRLE"}
      BY <1>1, <2>3 DEF AllEncoders
    <3>2. PICK a, b \in Nat : /\ TileAt(e, R, 0, k) = <<TileSize * a, TileSize * b>>
                              /\ k = 0 <=> a = 0 /\ b = 0
      BY <2>1, <3>1, RowTiles
    <3>3. (TileSize * a = 0 <=> a = 0) /\ (TileSize * b = 0 <=> b = 0)
      BY Sizes
    <3>4. x = TileSize * a /\ y = TileSize * b
      BY <2>1, <3>2
    <3> QED BY <1>1, <3>2, <3>3, <3>4 DEF NewSubrect
  <2> QED BY <2>2, <2>3
<1>2. CASE e = "ZRLE"
  <2>1. PICK A, B \in Nat :
           /\ PlaceIs(j, SubColumns(R), A, B)
           /\ NumTiles("ZRLE", R, j) \in Nat \ {0}
           /\ \A l \in Nat : l < NumTiles("ZRLE", R, j) =>
                \E a, b \in 0 .. ZCols - 1 : /\ TileAt("ZRLE", R, j, l) = At(A, a, B, b)
                                             /\ l = 0 <=> a = 0 /\ b = 0
    <3>1. j < NumSubs("ZRLE", R)
      BY <1>2
    <3> HIDE DEF ZCols
    <3> QED BY <3>1, ZTiles
  <2>2. PICK a, b \in 0 .. ZCols - 1 : /\ TileAt("ZRLE", R, j, k) = At(A, a, B, b)
                                       /\ k = 0 <=> a = 0 /\ b = 0
    BY <1>2, <2>1
  <2>3. /\ a \in 0 .. ZCols /\ b \in 0 .. ZCols
        /\ a # ZCols /\ b # ZCols
    BY <2>2, ZSizes
  <2>4. x = SubrectSize * A + ZTileSize * a /\ y = SubrectSize * B + ZTileSize * b
    BY <1>2, <2>2 DEF At
  <2>5. (x % SubrectSize = 0 <=> a = 0) /\ (y % SubrectSize = 0 <=> b = 0)
    <3>1. /\ (SubrectSize * A + ZTileSize * a) % SubrectSize = 0 <=> a \in {0, ZCols}
          /\ (SubrectSize * B + ZTileSize * b) % SubrectSize = 0 <=> b \in {0, ZCols}
      BY <2>1, <2>3, WhereSubsBegin
    <3> QED BY <2>3, <2>4, <3>1
  <2> QED BY <1>2, <2>2, <2>5 DEF NewSubrect
<1> QED BY <1>1, <1>2

\* getSubrect, at the first tile.
LEMMA Subrects ==
  ASSUME NEW e \in AllEncoders, frameEncoder = e, NEW R, RectOk(R), fbUpdateRect = R,
         NEW j \in Nat, j < NumSubs(e, R), <<tile_x, tile_y>> = TileAt(e, R, j, 0)
  PROVE  GetSubrect = Sub(e, R, j)
<1>1. CASE e # "ZRLE"
  BY <1>1 DEF GetSubrect, Sub
<1>2. CASE e = "ZRLE"
  <2>1. SubColumns(R) \in Nat \ {0} /\ SubRows(R) \in Nat \ {0}
        /\ NumSubs(e, R) = SubColumns(R) * SubRows(R)
    BY <1>2, SubCounts DEF SubCount
  <2>2. PICK A, B : PlaceIs(j, SubColumns(R), A, B)
    BY <2>1, PlaceExists
  <2>3. B < SubRows(R) /\ A \in Nat /\ B \in Nat
    <3>1. B < SubRows(R)
      BY <2>1, <2>2, PlaceBound
    <3> QED BY <2>1, <2>2, <3>1 DEF PlaceIs
  <2>4. j % SubColumns(R) = A /\ j \div SubColumns(R) = B
    BY <2>1, <2>2, PlaceUnique
  <2>5. <<tile_x, tile_y>> = At(A, 0, B, 0)
    BY <1>2, <2>2, <2>3, FirstTile
  <2>6. tile_x = SubrectSize * A /\ tile_y = SubrectSize * B
    BY <2>3, <2>5, Sizes DEF At
  <2>7. tile_x % SubrectSize = 0 /\ tile_y % SubrectSize = 0 /\ tile_x \in Int /\ tile_y \in Int
    <3>1. PICK s : s = SubrectSize /\ s \in Nat \ {0}
      BY Sizes
    <3>2. (s * A + 0) % s = 0 /\ (s * B + 0) % s = 0
      BY <2>3, <3>1, DivModIs
    <3>3. tile_x = s * A + 0 /\ tile_y = s * B + 0
      BY <2>3, <2>6, <3>1
    <3> QED BY <2>3, <3>1, <3>2, <3>3
  <2>8. tile_x - (tile_x % SubrectSize) = tile_x /\ tile_y - (tile_y % SubrectSize) = tile_y
    BY <2>7
  <2>9. GetSubrect = SubAt(R, tile_x, tile_y)
    BY <1>2, <2>8 DEF GetSubrect, SubAt
  <2> QED BY <1>2, <2>4, <2>6, <2>9 DEF Sub
<1> QED BY <1>1, <1>2

\* advanceToNextTile of each encoder that has one.
LEMMA CursorFollows ==
  ASSUME NEW e \in AllEncoders \ {"Raw"}, frameEncoder = e, NEW R, RectOk(R), fbUpdateRect = R,
         NEW j \in Nat, j < NumSubs(e, R), NEW k \in Nat, k < NumTiles(e, R, j),
         <<tile_x, tile_y>> = TileAt(e, R, j, k)
  PROVE  Follows(e, R, j, k, NextTile)
<1>1. CASE e = "ZRLE"
  BY <1>1, ZFollows
<1>2. CASE e # "ZRLE"
  <2>1. j = 0
    BY <1>2 DEF NumSubs
  <2> QED BY <1>2, <2>1, RowFollows DEF AllEncoders
<1> QED BY <1>1, <1>2

----------------------------------------------------------------------------
(* Subrectangles partition the rectangle of a frame.                         *)

\* Where subrectangle j of ZRLE is.
LEMMA SubIs ==
  ASSUME NEW R, RectOk(R), NEW j \in Nat, j < NumSubs("ZRLE", R)
  PROVE  \E A, B \in Nat :
           /\ PlaceIs(j, SubColumns(R), A, B)
           /\ SubrectSize * A < R.w /\ SubrectSize * B < R.h
           /\ Sub("ZRLE", R, j) = SubAt(R, SubrectSize * A, SubrectSize * B)
<1>1. SubCount(R)
  BY SubCounts
<1>2. PICK A, B : PlaceIs(j, SubColumns(R), A, B)
  BY <1>1, PlaceExists DEF SubCount
<1>3. A \in Nat /\ A < SubColumns(R) /\ B \in Nat /\ B < SubRows(R)
  <2>1. B < SubRows(R)
    BY <1>1, <1>2, PlaceBound DEF SubCount
  <2> QED BY <1>1, <1>2, <2>1 DEF PlaceIs, SubCount
<1>4. SubrectSize * A < R.w /\ SubrectSize * B < R.h
  BY <1>1, <1>3 DEF SubCount
<1>5. j % SubColumns(R) = A /\ j \div SubColumns(R) = B
  BY <1>1, <1>2, PlaceUnique DEF SubCount
<1>6. Sub("ZRLE", R, j) = SubAt(R, SubrectSize * A, SubrectSize * B)
  BY <1>5 DEF Sub
<1> QED BY <1>2, <1>3, <1>4, <1>6

LEMMA SubsOk ==
  ASSUME NEW e \in AllEncoders, NEW R, RectOk(R), NEW j \in Nat, j < NumSubs(e, R)
  PROVE  RectOk(Sub(e, R, j))
<1>1. CASE e # "ZRLE"
  BY <1>1 DEF Sub
<1>2. CASE e = "ZRLE"
  <2>1. PICK A, B \in Nat : /\ SubrectSize * A < R.w /\ SubrectSize * B < R.h
                            /\ Sub(e, R, j) = SubAt(R, SubrectSize * A, SubrectSize * B)
    BY <1>2, SubIs
  <2>2. PICK s, x, y \in Nat : /\ s = SubrectSize /\ s > 0 /\ x = SubrectSize * A /\ y = SubrectSize * B
                               /\ x < R.w /\ y < R.h
    BY <2>1, Sizes
  <2>3. Sub(e, R, j) = [x |-> R.x + x, w |-> Smaller(x + s, R.w) - x,
                        y |-> R.y + y, h |-> Smaller(y + s, R.h) - y]
    BY <2>1, <2>2 DEF SubAt
  <2>4. /\ R.x + x \in Nat /\ R.y + y \in Nat
        /\ Smaller(x + s, R.w) - x \in Nat \ {0} /\ Smaller(y + s, R.h) - y \in Nat \ {0}
    BY <2>2 DEF RectOk, Smaller
  <2> DEFINE w == Smaller(x + s, R.w) - x
             h == Smaller(y + s, R.h) - y
  <2>5. w \in Nat /\ w > 0 /\ h \in Nat /\ h > 0
    BY <2>4
  <2> HIDE DEF w, h
  <2>6. Sub(e, R, j) = [x |-> R.x + x, w |-> w, y |-> R.y + y, h |-> h]
    BY <2>3 DEF w, h
  <2> QED BY <2>4, <2>5, <2>6 DEF RectOk
<1> QED BY <1>1, <1>2

\* Two subrectangles, which lie in different columns or rows, have no pixel in common.
LEMMA SubsDisjoint ==
  ASSUME NEW e \in AllEncoders, NEW R, RectOk(R),
         NEW i \in Nat, i < NumSubs(e, R), NEW j \in Nat, j < NumSubs(e, R), i # j
  PROVE  Pixels(Sub(e, R, i)) \cap Pixels(Sub(e, R, j)) = {}
<1>1. e = "ZRLE"
  <2>1. CASE e # "ZRLE"
    BY <2>1 DEF NumSubs
  <2> QED BY <2>1
<1>2. PICK A, B \in Nat : /\ PlaceIs(i, SubColumns(R), A, B)
                          /\ Sub("ZRLE", R, i) = SubAt(R, SubrectSize * A, SubrectSize * B)
  BY <1>1, SubIs
<1>3. PICK C, D \in Nat : /\ PlaceIs(j, SubColumns(R), C, D)
                          /\ Sub("ZRLE", R, j) = SubAt(R, SubrectSize * C, SubrectSize * D)
  BY <1>1, SubIs
<1>4. A # C \/ B # D
  BY <1>2, <1>3 DEF PlaceIs
<1>5. PICK s \in Nat \ {0} : s = SubrectSize
  BY Sizes
<1>6. \A c, d \in Nat : c < d => s * c \in Nat /\ s * d \in Nat /\ s * c + s <= s * d
  BY <1>5, TimesMono
<1>7. ASSUME NEW w \in Nat, NEW o \in Nat, NEW c \in Nat, NEW d \in Nat, c # d,
             NEW p \in o + s * c .. o + s * c + (Smaller(s * c + s, w) - s * c) - 1,
             p \in o + s * d .. o + s * d + (Smaller(s * d + s, w) - s * d) - 1
      PROVE  FALSE
  <2>1. PICK sc, sd \in Nat : sc = s * c /\ sd = s * d /\ (sc + s <= sd \/ sd + s <= sc)
    BY <1>6, <1>7
  <2>2. p \in Int /\ o + sc <= p /\ p < o + sc + s /\ o + sd <= p /\ p < o + sd + s
    BY <1>5, <1>7, <2>1 DEF Smaller
  <2> QED BY <1>5, <2>1, <2>2
<1> SUFFICES ASSUME NEW p \in Pixels(Sub(e, R, i)), p \in Pixels(Sub(e, R, j)) PROVE FALSE
  OBVIOUS
<1>8. PICK x, y : /\ x \in R.x + s * A .. R.x + s * A + (Smaller(s * A + s, R.w) - s * A) - 1
                  /\ y \in R.y + s * B .. R.y + s * B + (Smaller(s * B + s, R.h) - s * B) - 1
                  /\ p = <<x, y>>
  BY <1>1, <1>2, <1>5 DEF Pixels, SubAt
<1>9. /\ x \in R.x + s * C .. R.x + s * C + (Smaller(s * C + s, R.w) - s * C) - 1
      /\ y \in R.y + s * D .. R.y + s * D + (Smaller(s * D + s, R.h) - s * D) - 1
  BY <1>1, <1>3, <1>5, <1>8 DEF Pixels, SubAt
<1>10. R.x \in Nat /\ R.y \in Nat /\ R.w \in Nat /\ R.h \in Nat
  BY DEF RectOk
<1>11. CASE A # C
  BY <1>7, <1>8, <1>9, <1>10, <1>11
<1>12. CASE B # D
  BY <1>7, <1>8, <1>9, <1>10, <1>12
<1> QED BY <1>4, <1>11, <1>12

\* Every pixel of the rectangle is in one of them, and they have no others.
LEMMA SubsCover ==
  ASSUME NEW e \in AllEncoders, NEW R, RectOk(R)
  PROVE  UNION {Pixels(Sub(e, R, j)) : j \in 0 .. NumSubs(e, R) - 1} = Pixels(R)
<1>1. CASE e # "ZRLE"
  BY <1>1 DEF NumSubs, Sub
<1>2. CASE e = "ZRLE"
  <2>1. PICK s \in Nat \ {0} : s = SubrectSize
    BY Sizes
  <2>2. /\ SubColumns(R) \in Nat \ {0} /\ SubRows(R) \in Nat \ {0}
        /\ NumSubs(e, R) = SubColumns(R) * SubRows(R)
        /\ \A A \in Int : A < SubColumns(R) <=> s * A < R.w
        /\ \A B \in Int : B < SubRows(R) <=> s * B < R.h
    BY <1>2, <2>1, SubCounts DEF SubCount
  <2>3. R.x \in Nat /\ R.y \in Nat /\ R.w \in Nat /\ R.h \in Nat
    BY DEF RectOk
  \* One side: piece A of a side of length w, and where a point of the side is.
  <2>4. ASSUME NEW w \in Nat, NEW o \in Nat, NEW A \in Nat, s * A < w,
               NEW p \in o + s * A .. o + s * A + (Smaller(s * A + s, w) - s * A) - 1
        PROVE  p \in o .. o + w - 1
    <3>1. PICK sA \in Nat : sA = s * A
      BY <2>1
    <3> QED BY <2>1, <2>4, <3>1 DEF Smaller
  <2>5. ASSUME NEW w \in Nat, NEW o \in Nat, NEW p \in o .. o + w - 1
        PROVE  \E A \in Nat : /\ s * A < w
                              /\ p \in o + s * A .. o + s * A + (Smaller(s * A + s, w) - s * A) - 1
    <3>1. PICK n \in Nat : p = o + n /\ n < w
      <4>1. p - o \in Nat /\ p = o + (p - o) /\ p - o < w
        BY <2>5
      <4> QED BY <4>1
    <3>2. PICK A \in Nat, t \in 0 .. s - 1 : n = s * A + t
      <4>1. n = s * (n \div s) + (n % s) /\ n \div s \in Nat /\ n % s \in 0 .. s - 1
        BY <2>1, <3>1, DivMod
      <4> QED BY <4>1
    <3>3. PICK sA \in Nat : sA = s * A
      BY <2>1
    <3>4. s * A < w /\ p \in o + s * A .. o + s * A + (Smaller(s * A + s, w) - s * A) - 1
      BY <2>1, <2>5, <3>1, <3>2, <3>3 DEF Smaller
    <3> QED BY <3>4
  <2>6. ASSUME NEW j \in 0 .. NumSubs(e, R) - 1
        PROVE  Pixels(Sub(e, R, j)) \subseteq Pixels(R)
    <3>1. j \in Nat /\ j < NumSubs("ZRLE", R)
      BY <1>2, <2>2
    <3>2. PICK A, B \in Nat : /\ SubrectSize * A < R.w /\ SubrectSize * B < R.h
                              /\ Sub("ZRLE", R, j) = SubAt(R, SubrectSize * A, SubrectSize * B)
      BY <3>1, SubIs
    <3> SUFFICES ASSUME NEW p \in Pixels(Sub(e, R, j)) PROVE p \in Pixels(R)
      OBVIOUS
    <3>3. PICK x, y : /\ x \in R.x + s * A .. R.x + s * A + (Smaller(s * A + s, R.w) - s * A) - 1
                      /\ y \in R.y + s * B .. R.y + s * B + (Smaller(s * B + s, R.h) - s * B) - 1
                      /\ p = <<x, y>>
      BY <1>2, <2>1, <3>2 DEF Pixels, SubAt
    <3>4. x \in R.x .. R.x + R.w - 1 /\ y \in R.y .. R.y + R.h - 1
      BY <2>1, <2>3, <2>4, <3>2, <3>3
    <3> QED BY <3>3, <3>4 DEF Pixels
  <2>7. ASSUME NEW p \in Pixels(R)
        PROVE  \E j \in 0 .. NumSubs(e, R) - 1 : p \in Pixels(Sub(e, R, j))
    <3>1. PICK x, y : x \in R.x .. R.x + R.w - 1 /\ y \in R.y .. R.y + R.h - 1 /\ p = <<x, y>>
      BY DEF Pixels
    <3>2. PICK A \in Nat : /\ s * A < R.w
                           /\ x \in R.x + s * A .. R.x + s * A + (Smaller(s * A + s, R.w) - s * A) - 1
      BY <2>3, <2>5, <3>1
    <3>3. PICK B \in Nat : /\ s * B < R.h
                           /\ y \in R.y + s * B .. R.y + s * B + (Smaller(s * B + s, R.h) - s * B) - 1
      BY <2>3, <2>5, <3>1
    <3>4. PICK j : PlaceIs(j, SubColumns(R), A, B) /\ j \in Nat
      <4>1. A \in 0 .. SubColumns(R) - 1 /\ SubColumns(R) * B + A \in Nat
        BY <2>2, <3>2
      <4> QED BY <3>3, <4>1 DEF PlaceIs
    <3>5. j < NumSubs(e, R)
      <4>1. B < SubRows(R)
        BY <2>2, <3>3
      <4> QED BY <2>2, <3>4, <4>1, PlaceBound
    <3>6. Sub(e, R, j) = SubAt(R, s * A, s * B)
      <4>1. j % SubColumns(R) = A /\ j \div SubColumns(R) = B
        BY <2>2, <3>4, PlaceUnique
      <4> QED BY <1>2, <2>1, <4>1 DEF Sub
    <3>7. p \in Pixels(SubAt(R, s * A, s * B))
      BY <2>1, <3>1, <3>2, <3>3 DEF Pixels, SubAt
    <3>8. j \in 0 .. NumSubs(e, R) - 1
      <4>1. PICK n \in Nat : n = NumSubs(e, R)
        BY <2>2
      <4> QED BY <3>4, <3>5, <4>1
    <3> QED BY <3>6, <3>7, <3>8
  <2> QED BY <2>6, <2>7
<1> QED BY <1>1, <1>2

----------------------------------------------------------------------------
(* What has been sent of a frame.                                            *)

CursorEntry == [rect |-> NoRect, tiles |-> <<>>]

\* c is 1 if a cursor precedes the picture, and 0 if none does.
Entry(e, R, c, i) ==
  IF i <= c THEN CursorEntry
  ELSE [rect |-> Sub(e, R, i - c - 1), tiles |-> SubTiles(e, R, i - c - 1)]

\* The first j subrectangles, complete.
Whole(e, R, c, j) == [i \in 1 .. c + j |-> Entry(e, R, c, i)]

\* After them, k tiles of the next one.
Beginning(s, k)  == [i \in 1 .. k |-> s[i]]
Begun(e, R, j, k) == [rect |-> Sub(e, R, j), tiles |-> Beginning(SubTiles(e, R, j), k)]
Partly(e, R, c, j, k) ==
  [i \in 1 .. c + j + 1 |-> IF i <= c + j THEN Entry(e, R, c, i) ELSE Begun(e, R, j, k)]

LEMMA AppendIs ==
  ASSUME NEW n \in Nat, NEW s, NEW x, s = [i \in 1 .. n |-> s[i]]
  PROVE  Append(s, x) = [i \in 1 .. n + 1 |-> IF i = n + 1 THEN x ELSE s[i]]
OBVIOUS

LEMMA TilesAreSeq ==
  ASSUME NEW e, NEW R, NEW r, RectOk(r)
  PROVE  /\ TilesOf(e, R, r) = [i \in 1 .. Len(TilesOf(e, R, r)) |-> TilesOf(e, R, r)[i]]
         /\ \A i \in 1 .. Len(TilesOf(e, R, r)) : \E x, y : TilesOf(e, R, r)[i] = <<x, y>>
<1> DEFINE T == TilesOf(e, R, r)
           cols == CeilDiv(r.w, SizeOf(e))
           rows == CeilDiv(r.h, SizeOf(e))
           n == IF e = "Raw" THEN r.h ELSE cols * rows
<1>1. DOMAIN T = 1 .. n /\ T = [i \in DOMAIN T |-> T[i]]
  BY DEF TilesOf
<1>2. \A i \in 1 .. n : \E x, y : T[i] = <<x, y>>
  <2>1. CASE e = "Raw"
    BY <2>1 DEF TilesOf
  <2>2. CASE e # "Raw"
    <3> DEFINE X(i) == r.x - R.x + ((i - 1) % cols) * SizeOf(e)
               Y(i) == r.y - R.y + ((i - 1) \div cols) * SizeOf(e)
    <3>1. T = [i \in 1 .. n |-> <<X(i), Y(i)>>]
      BY <2>2 DEF TilesOf
    <3> HIDE DEF X, Y, T, n
    <3> QED BY <3>1
  <2> QED BY <2>1, <2>2
<1>3. n \in Nat
  <2>1. CASE e = "Raw"
    BY <2>1 DEF RectOk
  <2>2. CASE e # "Raw"
    <3>1. InGrid(e, R, r, cols, rows)
      BY <2>2, GridTiles DEF RectOk
    <3>2. cols \in Nat /\ rows \in Nat
      BY <3>1 DEF InGrid
    <3> HIDE DEF cols, rows
    <3>3. cols * rows \in Nat
      BY <3>2
    <3> QED BY <2>2, <3>3
  <2> QED BY <2>1, <2>2
<1> HIDE DEF T, n
<1>4. Len(T) = n
  BY <1>1, <1>3
<1>5. T = [i \in 1 .. Len(T) |-> T[i]] /\ \A i \in 1 .. Len(T) : \E x, y : T[i] = <<x, y>>
  BY <1>1, <1>2, <1>4
<1> QED BY <1>5 DEF T

\* A subrectangle's header follows what has been sent (the head of vncFBUpdateChunk).
LEMMA HeaderFollows ==
  ASSUME NEW e, NEW R, NEW c \in Nat, NEW j \in Nat
  PROVE  Append(Whole(e, R, c, j), [rect |-> Sub(e, R, j), tiles |-> <<>>]) = Partly(e, R, c, j, 0)
<1> DEFINE s == Whole(e, R, c, j)
           x == Begun(e, R, j, 0)
<1>1. x = [rect |-> Sub(e, R, j), tiles |-> <<>>]
  <2>1. Beginning(SubTiles(e, R, j), 0) = <<>>
    BY DEF Beginning
  <2> QED BY <2>1 DEF Begun
<1>2. s = [i \in 1 .. c + j |-> Entry(e, R, c, i)] /\ c + j \in Nat
  BY DEF Whole
<1> HIDE DEF s, x
<1>3. s = [i \in 1 .. c + j |-> s[i]]
  BY <1>2
<1>4. Append(s, x) = [i \in 1 .. c + j + 1 |-> IF i = c + j + 1 THEN x ELSE s[i]]
  BY <1>2, <1>3, AppendIs
<1>5. Append(s, x) = Partly(e, R, c, j, 0)
  BY <1>2, <1>4 DEF Partly, x
<1> QED BY <1>1, <1>5 DEF s

\* The next tile goes behind it.
Behind(s, t) == [s EXCEPT ![Len(s)].tiles = Append(@, t)]

LEMMA TileGoesBehind ==
  ASSUME NEW e, NEW R, NEW c \in Nat, NEW j \in Nat, NEW k \in Nat,
         NEW s, s = Partly(e, R, c, j, k), NEW t, t = TileAt(e, R, j, k)
  PROVE  Behind(s, t) = Partly(e, R, c, j, k + 1)
<1> DEFINE n == c + j
           T == SubTiles(e, R, j)
           B(l) == Beginning(T, l)
<1>1. n \in Nat /\ c + j + 1 = n + 1
  OBVIOUS
<1>2. \A l : Partly(e, R, c, j, l) = [i \in 1 .. n + 1 |-> IF i <= n THEN Entry(e, R, c, i)
                                       ELSE [rect |-> Sub(e, R, j), tiles |-> B(l)]]
  BY DEF Partly, Begun
<1>3. Append(B(k), t) = B(k + 1)
  <2>1. B(k) = [i \in 1 .. k |-> T[i]] /\ B(k + 1) = [i \in 1 .. k + 1 |-> T[i]] /\ t = T[k + 1]
    BY DEF Beginning, TileAt
  <2> HIDE DEF B, T
  <2>2. B(k) = [i \in 1 .. k |-> B(k)[i]]
    BY <2>1
  <2>3. Append(B(k), t) = [i \in 1 .. k + 1 |-> IF i = k + 1 THEN t ELSE B(k)[i]]
    BY <2>2, AppendIs
  <2> QED BY <2>1, <2>3
<1> HIDE DEF n, T, B
<1>4. s = [i \in 1 .. n + 1 |-> IF i <= n THEN Entry(e, R, c, i)
             ELSE [rect |-> Sub(e, R, j), tiles |-> B(k)]]
  BY <1>2
<1>5. Len(s) = n + 1 /\ s[n + 1].tiles = B(k)
  BY <1>1, <1>4
<1>6. [s EXCEPT ![n + 1].tiles = B(k + 1)] = Partly(e, R, c, j, k + 1)
  <2> DEFINE last == [rect |-> Sub(e, R, j), tiles |-> B(k)]
             after == [rect |-> Sub(e, R, j), tiles |-> B(k + 1)]
  <2>1. [last EXCEPT !.tiles = B(k + 1)] = after
    OBVIOUS
  <2>2. s = [i \in 1 .. n + 1 |-> IF i <= n THEN Entry(e, R, c, i) ELSE last]
    BY <1>4
  <2>3. Partly(e, R, c, j, k + 1) = [i \in 1 .. n + 1 |-> IF i <= n THEN Entry(e, R, c, i) ELSE after]
    BY <1>2
  <2>4. s[n + 1] = last
    BY <1>1, <2>2
  <2> HIDE DEF last, after
  <2>5. [s EXCEPT ![n + 1] = after] = Partly(e, R, c, j, k + 1)
    BY <1>1, <2>2, <2>3
  <2>6. [s EXCEPT ![n + 1].tiles = B(k + 1)] = [s EXCEPT ![n + 1] = after]
    BY <2>1, <2>4
  <2> QED BY <2>5, <2>6
<1>7. \A l : l = n + 1 => [s EXCEPT ![l].tiles = Append(@, t)] = [s EXCEPT ![l].tiles = B(k + 1)]
  <2> SUFFICES ASSUME NEW l, l = n + 1
               PROVE  [s EXCEPT ![l].tiles = Append(@, t)] = [s EXCEPT ![l].tiles = B(k + 1)]
    OBVIOUS
  <2>1. Append(s[l].tiles, t) = B(k + 1)
    BY <1>3, <1>5
  <2> QED BY <2>1
<1> QED BY <1>5, <1>6, <1>7 DEF Behind

\* With its last tile a subrectangle is complete.
LEMMA BecomesWhole ==
  ASSUME NEW e \in AllEncoders, NEW R, RectOk(R), NEW c \in Nat, NEW j \in Nat, j < NumSubs(e, R)
  PROVE  Partly(e, R, c, j, NumTiles(e, R, j)) = Whole(e, R, c, j + 1)
<1> DEFINE n == c + j
           T == SubTiles(e, R, j)
<1>1. n \in Nat /\ c + j + 1 = n + 1 /\ c + (j + 1) = n + 1 /\ n + 1 - c - 1 = j /\ ~(n + 1 <= c)
  OBVIOUS
<1>2. T = [i \in 1 .. NumTiles(e, R, j) |-> T[i]]
  BY SubsOk, TilesAreSeq DEF SubTiles, NumTiles
<1>3. Begun(e, R, j, NumTiles(e, R, j)) = [rect |-> Sub(e, R, j), tiles |-> T]
  BY <1>2 DEF Begun, Beginning
<1>4. Entry(e, R, c, n + 1) = Begun(e, R, j, NumTiles(e, R, j))
  BY <1>1, <1>3 DEF Entry
<1>5. Partly(e, R, c, j, NumTiles(e, R, j))
        = [i \in 1 .. n + 1 |-> IF i <= n THEN Entry(e, R, c, i) ELSE Begun(e, R, j, NumTiles(e, R, j))]
  BY DEF Partly
<1>6. Whole(e, R, c, j + 1) = [i \in 1 .. n + 1 |-> Entry(e, R, c, i)]
  BY <1>1 DEF Whole
<1> HIDE DEF n, T
<1>7. \A i \in 1 .. n + 1 : i <= n \/ i = n + 1
  BY <1>1
<1> QED BY <1>4, <1>5, <1>6, <1>7

\* The cursor, or nothing, goes before the picture.
LEMMA CursorFirst ==
  ASSUME NEW e, NEW R
  PROVE  Whole(e, R, 0, 0) = <<>> /\ Whole(e, R, 1, 0) = <<CursorEntry>>
<1>1. Whole(e, R, 0, 0) = [i \in 1 .. 0 |-> Entry(e, R, 0, i)]
  BY DEF Whole
<1>2. Whole(e, R, 1, 0) = [i \in 1 .. 1 |-> Entry(e, R, 1, i)] /\ Entry(e, R, 1, 1) = CursorEntry
  BY DEF Whole, Entry
<1> QED BY <1>1, <1>2

----------------------------------------------------------------------------
(* The invariant of a frame: how much of it has been sent, and where the     *)
(* cursor is.                                                                *)

\* The cursor is at tile k of subrectangle j.
Stands(e, R, j, k) ==
  /\ j \in Nat /\ j < NumSubs(e, R)
  /\ k \in Nat /\ k < NumTiles(e, R, j)
  /\ <<tile_x, tile_y>> = TileAt(e, R, j, k)

\* Between two chunks a subrectangle is complete, or is to be continued without a header.
InChunk(e, R, c) ==
  \E j, k : /\ Stands(e, R, j, k)
            /\ sent = IF k = 0 THEN Whole(e, R, c, j) ELSE Partly(e, R, c, j, k)

\* A tile can only wait behind others.
InTiles(e, R, c) ==
  \E k : /\ Stands(e, R, 0, k) /\ sent = Partly(e, R, c, 0, k)
         /\ bytesAvail < BufSize => k > 0

\* Once the last tile of a subrectangle is in the buffer, the cursor is at the next one.
InCompress(e, R, c) ==
  /\ zpc # "aborted" /\ (zpc = "done" => ~gotMore)
  /\ gotMore => \E j, k : Stands(e, R, j, k) /\ sent = Partly(e, R, c, j, k)
  /\ ~gotMore => \E j \in Nat :
       /\ j < NumSubs(e, R) /\ sent = Whole(e, R, c, j + 1)
       /\ IF gotMoreAfterwards THEN Stands(e, R, j + 1, 0) ELSE j + 1 = NumSubs(e, R)

Sending(e, R, c) ==
  /\ numRects = c + NumSubs(e, R)
  /\ pc = "chunk" => InChunk(e, R, c)
  /\ pc \in {"line", "tiles"} => InTiles(e, R, c)
  /\ pc = "compress" => InCompress(e, R, c)
  /\ pc = "finish" => sent = Whole(e, R, c, NumSubs(e, R))

\* What each encoder may be doing.
AtWork ==
  /\ frameEncoder \in AllEncoders
  /\ pc \in {"deferred", "header"} => tile_x = 0 /\ tile_y = 0 /\ ~tooLong
  /\ frameEncoder # "ZRLE" => ~tooLong
  /\ pc = "line" => frameEncoder = "Raw"
  /\ pc = "tiles" => frameEncoder \in {"Hextile", "TRLE"}
  /\ pc = "compress" => frameEncoder = "ZRLE" /\ zpc # "idle"

Sends == pc \in {"chunk", "line", "tiles", "compress", "finish"}

FrameInv ==
  /\ AtWork
  /\ Sends /\ ~tooLong /\ ~Empty(askedRect)
       => \E c \in {0, 1} : Sending(frameEncoder, Aligned(askedRect), c)

frameVars == <<askedRect, frameEncoder, tile_x, tile_y, bytesAvail, pc, numRects, sent, tooLong,
               gotMore, gotMoreAfterwards, zpc>>

LEMMA FrameUnchanged ==
  ASSUME FrameInv, UNCHANGED frameVars
  PROVE  FrameInv'
BY DEF FrameInv, AtWork, Sends, Sending, InChunk, InTiles, InCompress, Stands, frameVars

\* The rectangle of a frame that is not empty has pixels.
LEMMA NotEmpty ==
  ASSUME AskedFits, AlignInv, ~Empty(askedRect)
  PROVE  RectOk(Aligned(askedRect))
<1> DEFINE r == askedRect
           d == r.x % AlignTo
<1>1. Askable(r) /\ Width < Word
  BY DEF AlignInv, AskedFits
<1>2. /\ Aligned(r).w = r.w + d /\ Aligned(r).h = r.h
      /\ Askable(Aligned(r)) /\ d \in Nat
  BY <1>1, AlignedFacts
<1> HIDE DEF d
<1>3. r.w \in Nat /\ r.h \in Nat /\ r.w # 0 /\ r.h # 0
  BY <1>1 DEF Askable, Empty
<1>4. r.w + d > 0 /\ r.h > 0
  BY <1>2, <1>3
<1>5. Aligned(r).w > 0 /\ Aligned(r).h > 0 /\ Aligned(r) \in [x : Nat, y : Nat, w : Nat, h : Nat]
  BY <1>2, <1>4 DEF Askable
<1> QED BY <1>5 DEF RectOk

\* A frame begins with nothing sent.
LEMMA PrepareFrames ==
  ASSUME FrameInv, NEW r, PrepareFrame(r)
  PROVE  FrameInv'
BY DEF FrameInv, AtWork, Sends, PrepareFrame

LEMMA HeaderStep ==
  ASSUME AskedFits, AlignInv, FrameInv, NEW hasCursor \in BOOLEAN, SendHeader(hasCursor)
  PROVE  FrameInv'
<1> DEFINE e == frameEncoder
           R == Aligned(askedRect)
           c == IF hasCursor THEN 1 ELSE 0
<1>1. /\ e \in AllEncoders /\ tile_x = 0 /\ tile_y = 0 /\ ~tooLong /\ fbUpdateRect = R
      /\ pc = "header"
  BY DEF SendHeader, FrameInv, AtWork, AlignInv
<1>2. /\ pc' = "chunk" /\ UNCHANGED <<askedRect, frameEncoder, tile_x, tile_y, tooLong>>
      /\ numRects' = NumOfSubrects + c
      /\ sent' = IF hasCursor THEN <<CursorEntry>> ELSE <<>>
  BY DEF SendHeader, rects, cursor, CursorEntry
<1>3. AtWork'
  BY <1>1, <1>2 DEF AtWork
<1>4. ASSUME ~Empty(askedRect)
      PROVE  Sending(e, R, c)'
  <2>1. RectOk(R)
    BY <1>4, NotEmpty
  <2> HIDE DEF e, R
  <2>2. /\ NumSubs(e, R) \in Nat \ {0} /\ NumTiles(e, R, 0) \in Nat \ {0}
        /\ TileAt(e, R, 0, 0) = <<0, 0>>
    BY <1>1, <2>1, Counted
  <2>3. NumOfSubrects = NumSubs(e, R)
    BY <1>1 DEF NumOfSubrects, NumSubs, SubColumns, SubRows, e
  <2>4. Stands(e, R, 0, 0)'
    BY <1>1, <1>2, <2>2 DEF Stands, e, R
  <2>5. sent' = Whole(e, R, c, 0)
    BY <1>2, CursorFirst
  <2>6. InChunk(e, R, c)'
    BY <1>2, <2>4, <2>5 DEF InChunk, Stands, e, R
  <2>7. numRects' = c + NumSubs(e, R)
    BY <1>2, <2>2, <2>3
  <2> QED BY <1>2, <2>6, <2>7 DEF Sending, InChunk, Stands, e, R
<1>5. c \in {0, 1}
  OBVIOUS
<1> HIDE DEF c
<1>6. Sends' /\ ~tooLong' /\ ~Empty(askedRect)'
        => \E i \in {0, 1} : Sending(frameEncoder, Aligned(askedRect), i)'
  BY <1>2, <1>4, <1>5
<1> QED BY <1>3, <1>6 DEF FrameInv

\* Where a frame that has been followed so far stands.
LEMMA Underway ==
  ASSUME AskedFits, AlignInv, FrameInv, pc \in {"chunk", "line", "tiles", "compress"},
         ~tooLong, ~Empty(askedRect)
  PROVE  /\ frameEncoder \in AllEncoders /\ RectOk(Aligned(askedRect))
         /\ fbUpdateRect = Aligned(askedRect)
         /\ \E c \in {0, 1} : Sending(frameEncoder, Aligned(askedRect), c)
BY NotEmpty DEF FrameInv, AtWork, Sends, AlignInv

LEMMA ChunkStep ==
  ASSUME AskedFits, AlignInv, FrameInv, StartChunk
  PROVE  FrameInv'
<1>1. /\ pc = "chunk" /\ UNCHANGED <<askedRect, frameEncoder, tile_x, tile_y, numRects, tooLong>>
      /\ sent' = IF NewSubrect(tile_x, tile_y) /\ ~tooLong
                 THEN Append(sent, [rect |-> GetSubrect, tiles |-> <<>>]) ELSE sent
      /\ bytesAvail' = BufSize
      /\ pc' = IF frameEncoder = "Raw" THEN "line"
               ELSE IF frameEncoder = "ZRLE" THEN "compress" ELSE "tiles"
      /\ frameEncoder = "ZRLE" => zpc' = "loop" /\ gotMore' = TRUE
  BY DEF StartChunk, BeginCompressed, rects, flags, cursor
<1>2. AtWork'
  BY <1>1 DEF FrameInv, AtWork, AllEncoders
<1>3. ASSUME ~tooLong, ~Empty(askedRect)
      PROVE  \E c \in {0, 1} : Sending(frameEncoder, Aligned(askedRect), c)'
  <2> DEFINE e == frameEncoder
             R == Aligned(askedRect)
  <2>1. e \in AllEncoders /\ RectOk(R) /\ fbUpdateRect = R
    BY <1>1, <1>3, Underway
  <2>2. PICK c \in {0, 1} : Sending(e, R, c)
    BY <1>1, <1>3, Underway
  <2>3. PICK j, k : /\ Stands(e, R, j, k)
                    /\ sent = IF k = 0 THEN Whole(e, R, c, j) ELSE Partly(e, R, c, j, k)
    BY <1>1, <2>2 DEF Sending, InChunk
  <2>4. /\ j \in Nat /\ j < NumSubs(e, R) /\ k \in Nat /\ k < NumTiles(e, R, j)
        /\ <<tile_x, tile_y>> = TileAt(e, R, j, k)
    BY <2>3 DEF Stands
  <2>5. NewSubrect(tile_x, tile_y) <=> k = 0
    BY <2>1, <2>4, NewSubrects
  <2>6. sent' = Partly(e, R, c, j, k)
    <3>1. CASE k = 0
      <4>1. GetSubrect = Sub(e, R, j)
        BY <2>1, <2>4, <3>1, Subrects
      <4>2. sent' = Append(Whole(e, R, c, j), [rect |-> Sub(e, R, j), tiles |-> <<>>])
        BY <1>1, <1>3, <2>3, <2>5, <3>1, <4>1
      <4> QED BY <2>4, <3>1, <4>2, HeaderFollows
    <3>2. CASE k # 0
      BY <1>1, <2>3, <2>5, <3>2
    <3> QED BY <3>1, <3>2
  <2> HIDE DEF R
  <2>7. Stands(e, R, j, k)'
    BY <1>1, <2>3 DEF Stands, R
  <2>8. CASE e = "ZRLE"
    <3>1. InCompress(e, R, c)'
      BY <1>1, <2>6, <2>7, <2>8 DEF InCompress, Stands, R
    <3> QED BY <1>1, <2>2, <2>8, <3>1 DEF Sending, InCompress, Stands, R
  <2>9. CASE e # "ZRLE"
    <3>1. j = 0
      BY <2>4, <2>9 DEF NumSubs
    <3>2. ~(bytesAvail' < BufSize)
      BY <1>1, BufferAssumption
    <3>3. InTiles(e, R, c)'
      BY <1>1, <2>6, <2>7, <3>1, <3>2 DEF InTiles, Stands, R
    <3> QED BY <1>1, <2>2, <2>9, <3>3 DEF Sending, InTiles, Stands, R
  <2> QED BY <2>8, <2>9
<1> QED BY <1>1, <1>2, <1>3 DEF FrameInv

\* What a tile that was put makes of the frame.
LEMMA Put1 ==
  ASSUME NEW e \in AllEncoders, NEW R, RectOk(R), NEW c \in {0, 1}, NEW j, NEW k,
         Stands(e, R, j, k), sent = Partly(e, R, c, j, k), ~tooLong, Put(cursor)
  PROVE  sent' = IF k + 1 < NumTiles(e, R, j) THEN Partly(e, R, c, j, k + 1)
                 ELSE Whole(e, R, c, j + 1)
<1>1. /\ j \in Nat /\ j < NumSubs(e, R) /\ k \in Nat /\ k < NumTiles(e, R, j)
      /\ cursor = TileAt(e, R, j, k) /\ c \in Nat
  BY DEF Stands, cursor
<1>2. sent' = Behind(sent, cursor)
  BY DEF Put, Behind
<1>3. sent' = Partly(e, R, c, j, k + 1)
  BY <1>1, <1>2, TileGoesBehind
<1>4. CASE ~(k + 1 < NumTiles(e, R, j))
  <2>1. NumTiles(e, R, j) \in Nat
    BY <1>1, Counted
  <2>2. k + 1 = NumTiles(e, R, j)
    BY <1>1, <1>4, <2>1
  <2> QED BY <1>1, <1>3, <1>4, <2>2, BecomesWhole
<1> QED BY <1>3, <1>4

\* What the next place is, in one subrectangle.
LEMMA OneSubrect ==
  ASSUME NEW e, e # "ZRLE", NEW R, NEW k, NEW p, Follows(e, R, 0, k, p)
  PROVE  /\ NumSubs(e, R) = 1
         /\ IF k + 1 < NumTiles(e, R, 0) THEN p = TileAt(e, R, 0, k + 1) /\ More(e, R, p)
            ELSE ~More(e, R, p)
BY DEF Follows, NumSubs

LEMMA TilePair ==
  ASSUME NEW e \in AllEncoders, NEW R, RectOk(R), NEW j \in Nat, j < NumSubs(e, R),
         NEW k \in Nat, k < NumTiles(e, R, j)
  PROVE  \E x, y : TileAt(e, R, j, k) = <<x, y>>
<1>1. RectOk(Sub(e, R, j)) /\ NumTiles(e, R, j) \in Nat
  BY SubsOk, Counted
<1>2. k + 1 \in 1 .. NumTiles(e, R, j)
  BY <1>1
<1> QED BY <1>1, <1>2, TilesAreSeq DEF TileAt, SubTiles, NumTiles

LEMMA TileStep ==
  ASSUME AskedFits, AlignInv, FrameInv, NEW len \in TileLens, EncodeNextTile(len)
  PROVE  FrameInv'
<1> DEFINE more == GotMore(tile_x', tile_y')
           full == bytesAvail' < MinBytesAvail
<1>1. /\ pc = "tiles" /\ UNCHANGED <<askedRect, frameEncoder, numRects, tooLong>>
      /\ Put(cursor) /\ tile_x' = NextTile[1] /\ tile_y' = NextTile[2]
      /\ pc' = IF more /\ ~full THEN "tiles" ELSE IF more THEN "chunk" ELSE "finish"
  BY DEF EncodeNextTile, ChunkPc, flags
<1>2. AtWork'
  BY <1>1 DEF FrameInv, AtWork
<1>3. ASSUME ~tooLong, ~Empty(askedRect)
      PROVE  \E c \in {0, 1} : Sending(frameEncoder, Aligned(askedRect), c)'
  <2> DEFINE e == frameEncoder
             R == Aligned(askedRect)
             p == <<tile_x', tile_y'>>
  <2>1. e \in AllEncoders /\ e # "Raw" /\ e # "ZRLE" /\ RectOk(R) /\ fbUpdateRect = R
    BY <1>1, <1>3, Underway DEF FrameInv, AtWork
  <2>2. PICK c \in {0, 1} : Sending(e, R, c)
    BY <1>1, <1>3, Underway
  <2>3. PICK k : Stands(e, R, 0, k) /\ sent = Partly(e, R, c, 0, k)
    BY <1>1, <2>2 DEF Sending, InTiles
  <2>4. /\ 0 < NumSubs(e, R) /\ k \in Nat /\ k < NumTiles(e, R, 0)
        /\ <<tile_x, tile_y>> = TileAt(e, R, 0, k)
    BY <2>3 DEF Stands
  <2>5. Follows(e, R, 0, k, NextTile)
    BY <2>1, <2>4, CursorFollows
  <2>6. /\ NumSubs(e, R) = 1
        /\ IF k + 1 < NumTiles(e, R, 0)
           THEN NextTile = TileAt(e, R, 0, k + 1) /\ More(e, R, NextTile)
           ELSE ~More(e, R, NextTile)
    BY <2>1, <2>5, OneSubrect
  <2>7. more <=> More(e, R, NextTile)
    BY <1>1, <2>1 DEF More, GotMore
  <2>8. sent' = IF k + 1 < NumTiles(e, R, 0) THEN Partly(e, R, c, 0, k + 1)
                ELSE Whole(e, R, c, 0 + 1)
    BY <1>1, <1>3, <2>1, <2>3, Put1
  <2> HIDE DEF more, full, R
  <2>9. CASE k + 1 < NumTiles(e, R, 0)
    <3>1. \E x, y : TileAt(e, R, 0, k + 1) = <<x, y>>
      BY <2>1, <2>4, <2>9, TilePair
    <3>2. Stands(e, R, 0, k + 1)'
      BY <1>1, <2>4, <2>6, <2>9, <3>1 DEF Stands, R
    <3>3. k + 1 \in Nat /\ k + 1 # 0 /\ k + 1 > 0 /\ sent' = Partly(e, R, c, 0, k + 1)
      BY <2>4, <2>8, <2>9
    <3>4. CASE pc' = "tiles"
      <4>1. InTiles(e, R, c)'
        BY <1>1, <3>2, <3>3 DEF InTiles, Stands, R
      <4> QED BY <1>1, <2>2, <3>4, <4>1 DEF Sending, InTiles, Stands, R
    <3>5. CASE pc' = "chunk"
      <4>1. InChunk(e, R, c)'
        BY <1>1, <3>2, <3>3 DEF InChunk, Stands, R
      <4> QED BY <1>1, <2>2, <3>5, <4>1 DEF Sending, InChunk, Stands, R
    <3> QED BY <1>1, <2>6, <2>7, <2>9, <3>4, <3>5
  <2>10. CASE ~(k + 1 < NumTiles(e, R, 0))
    <3>1. pc' = "finish" /\ sent' = Whole(e, R, c, NumSubs(e, R))
      BY <1>1, <2>6, <2>7, <2>8, <2>10
    <3> QED BY <1>1, <2>2, <3>1 DEF Sending, R
  <2> QED BY <2>9, <2>10
<1> QED BY <1>1, <1>2, <1>3 DEF FrameInv

LEMMA WaitStep ==
  ASSUME AskedFits, AlignInv, FrameInv, NEW len \in TileLens, TileWaits(len)
  PROVE  FrameInv'
<1>1. /\ pc = "tiles" /\ pc' = "chunk" /\ bytesAvail < BufSize
      /\ UNCHANGED <<askedRect, frameEncoder, tile_x, tile_y, numRects, sent, tooLong>>
  BY DEF TileWaits, rects, flags, cursor, wire
<1>2. AtWork'
  BY <1>1 DEF FrameInv, AtWork
<1>3. ASSUME ~tooLong, ~Empty(askedRect)
      PROVE  \E c \in {0, 1} : Sending(frameEncoder, Aligned(askedRect), c)'
  <2> DEFINE e == frameEncoder
             R == Aligned(askedRect)
  <2>1. PICK c \in {0, 1} : Sending(e, R, c)
    BY <1>1, <1>3, Underway
  <2>2. PICK k : Stands(e, R, 0, k) /\ sent = Partly(e, R, c, 0, k) /\ (bytesAvail < BufSize => k > 0)
    BY <1>1, <2>1 DEF Sending, InTiles
  <2>3. k # 0
    BY <1>1, <2>2 DEF Stands
  <2> HIDE DEF R
  <2>4. Stands(e, R, 0, k)'
    BY <1>1, <2>2 DEF Stands, R
  <2>5. InChunk(e, R, c)'
    BY <1>1, <2>2, <2>3, <2>4 DEF InChunk, Stands, R
  <2> QED BY <1>1, <2>1, <2>5 DEF Sending, InChunk, Stands, R
<1> QED BY <1>1, <1>2, <1>3 DEF FrameInv

LEMMA LineStep ==
  ASSUME AskedFits, AlignInv, FrameInv, RawLine
  PROVE  FrameInv'
<1>1. /\ pc = "line" /\ UNCHANGED <<askedRect, frameEncoder, tile_x, numRects, tooLong>>
      /\ Put(cursor) /\ tile_y' = tile_y + 1
      /\ pc' = IF tile_y' < fbUpdateRect.h THEN "chunk" ELSE "finish"
  BY DEF RawLine, ChunkPc, flags
<1>2. AtWork'
  BY <1>1 DEF FrameInv, AtWork
<1>3. ASSUME ~tooLong, ~Empty(askedRect)
      PROVE  \E c \in {0, 1} : Sending(frameEncoder, Aligned(askedRect), c)'
  <2> DEFINE e == frameEncoder
             R == Aligned(askedRect)
             p == <<tile_x, tile_y + 1>>
  <2>1. e \in AllEncoders /\ e = "Raw" /\ RectOk(R) /\ fbUpdateRect = R
    BY <1>1, <1>3, Underway DEF FrameInv, AtWork
  <2>2. PICK c \in {0, 1} : Sending(e, R, c)
    BY <1>1, <1>3, Underway
  <2>3. PICK k : Stands(e, R, 0, k) /\ sent = Partly(e, R, c, 0, k)
    BY <1>1, <2>2 DEF Sending, InTiles
  <2>4. /\ 0 < NumSubs(e, R) /\ k \in Nat /\ k < NumTiles(e, R, 0)
        /\ <<tile_x, tile_y>> = TileAt(e, R, 0, k)
    BY <2>3 DEF Stands
  <2>5. Follows(e, R, 0, k, p)
    BY <2>1, <2>4, RawFollows
  <2>6. /\ NumSubs(e, R) = 1
        /\ IF k + 1 < NumTiles(e, R, 0) THEN p = TileAt(e, R, 0, k + 1) /\ More(e, R, p)
           ELSE ~More(e, R, p)
    BY <2>1, <2>5, OneSubrect
  <2>7. tile_y' < fbUpdateRect.h <=> More(e, R, p)
    BY <1>1, <2>1 DEF More
  <2>8. sent' = IF k + 1 < NumTiles(e, R, 0) THEN Partly(e, R, c, 0, k + 1)
                ELSE Whole(e, R, c, 0 + 1)
    BY <1>1, <1>3, <2>1, <2>3, Put1
  <2> HIDE DEF R
  <2>9. CASE k + 1 < NumTiles(e, R, 0)
    <3>1. Stands(e, R, 0, k + 1)'
      BY <1>1, <2>4, <2>6, <2>9 DEF Stands, R
    <3>2. k + 1 # 0 /\ pc' = "chunk" /\ sent' = Partly(e, R, c, 0, k + 1)
      BY <1>1, <2>4, <2>6, <2>7, <2>8, <2>9
    <3>3. InChunk(e, R, c)'
      BY <1>1, <3>1, <3>2 DEF InChunk, Stands, R
    <3> QED BY <1>1, <2>2, <3>2, <3>3 DEF Sending, InChunk, Stands, R
  <2>10. CASE ~(k + 1 < NumTiles(e, R, 0))
    <3>1. pc' = "finish" /\ sent' = Whole(e, R, c, NumSubs(e, R))
      BY <1>1, <2>6, <2>7, <2>8, <2>10
    <3> QED BY <1>1, <2>2, <3>1 DEF Sending, R
  <2> QED BY <2>9, <2>10
<1> QED BY <1>1, <1>2, <1>3 DEF FrameInv

\* ZRLE: the cursor goes on with the tile that is put into the buffer.
LEMMA FetchedStep ==
  ASSUME AskedFits, AlignInv, FrameInv, NEW len \in TileLens, CompressTile(len)
  PROVE  FrameInv'
<1> DEFINE more == GotMore(tile_x', tile_y')
           new  == NewSubrect(tile_x', tile_y')
<1>1. /\ pc = "compress" /\ gotMore
      /\ UNCHANGED <<askedRect, frameEncoder, numRects, pc>>
      /\ Put(cursor)
      /\ IF len <= Room THEN tile_x' = NextTile[1] /\ tile_y' = NextTile[2] /\ UNCHANGED tooLong
         ELSE tooLong' = TRUE /\ UNCHANGED cursor
      /\ gotMoreAfterwards' = more /\ gotMore' = (more /\ ~new) /\ zpc' = "call"
  BY DEF CompressTile, Fetch, NeedsTile, rects, flags
<1>2. AtWork'
  BY <1>1 DEF FrameInv, AtWork
<1>3. ASSUME ~tooLong', ~Empty(askedRect)
      PROVE  \E c \in {0, 1} : Sending(frameEncoder, Aligned(askedRect), c)'
  <2> DEFINE e == frameEncoder
             R == Aligned(askedRect)
             p == <<tile_x', tile_y'>>
  <2>1. ~tooLong /\ tile_x' = NextTile[1] /\ tile_y' = NextTile[2]
    BY <1>1, <1>3
  <2>2. e \in AllEncoders /\ e = "ZRLE" /\ RectOk(R) /\ fbUpdateRect = R
    BY <1>1, <1>3, <2>1, Underway DEF FrameInv, AtWork
  <2>3. PICK c \in {0, 1} : Sending(e, R, c)
    BY <1>1, <1>3, <2>1, Underway
  <2>4. PICK j, k : Stands(e, R, j, k) /\ sent = Partly(e, R, c, j, k)
    BY <1>1, <2>3 DEF Sending, InCompress
  <2>5. /\ j \in Nat /\ j < NumSubs(e, R) /\ k \in Nat /\ k < NumTiles(e, R, j)
        /\ <<tile_x, tile_y>> = TileAt(e, R, j, k)
    BY <2>4 DEF Stands
  <2>6. Follows(e, R, j, k, NextTile)
    BY <2>2, <2>5, CursorFollows
  <2>7. more <=> More(e, R, NextTile)
    BY <2>1, <2>2 DEF More, GotMore
  <2>8. sent' = IF k + 1 < NumTiles(e, R, j) THEN Partly(e, R, c, j, k + 1)
                ELSE Whole(e, R, c, j + 1)
    BY <1>1, <2>1, <2>2, <2>4, Put1
  <2>9. \A i, l : /\ i \in Nat /\ i < NumSubs(e, R) /\ l \in Nat /\ l < NumTiles(e, R, i)
                  /\ NextTile = TileAt(e, R, i, l)
                  => /\ p = TileAt(e, R, i, l)
                     /\ new <=> l = 0
    <3> SUFFICES ASSUME NEW i \in Nat, i < NumSubs(e, R), NEW l \in Nat, l < NumTiles(e, R, i),
                        NextTile = TileAt(e, R, i, l)
                 PROVE  /\ p = TileAt(e, R, i, l)
                        /\ new <=> l = 0
      OBVIOUS
    <3>1. PICK x, y : TileAt(e, R, i, l) = <<x, y>>
      BY <2>2, TilePair
    <3>2. x = tile_x' /\ y = tile_y'
      BY <2>1, <3>1
    <3>3. NewSubrect(x, y) <=> l = 0
      BY <2>2, <3>1, NewSubrects
    <3> QED BY <3>1, <3>2, <3>3
  <2> HIDE DEF R, more, new
  <2>10. CASE k + 1 < NumTiles(e, R, j)
    <3>1. NextTile = TileAt(e, R, j, k + 1) /\ More(e, R, NextTile) /\ k + 1 \in Nat /\ k + 1 # 0
      BY <2>5, <2>6, <2>10 DEF Follows
    <3>2. p = TileAt(e, R, j, k + 1) /\ ~new
      BY <2>5, <2>9, <2>10, <3>1
    <3>3. gotMore' = TRUE
      BY <1>1, <2>7, <3>1, <3>2
    <3>4. Stands(e, R, j, k + 1)'
      BY <1>1, <2>5, <2>10, <3>1, <3>2 DEF Stands, R
    <3>5. InCompress(e, R, c)'
      BY <1>1, <2>8, <2>10, <3>3, <3>4 DEF InCompress, Stands, R
    <3> QED BY <1>1, <2>3, <3>5 DEF Sending, InCompress, Stands, R
  <2>11. CASE ~(k + 1 < NumTiles(e, R, j)) /\ j + 1 < NumSubs(e, R)
    <3>1. NextTile = TileAt(e, R, j + 1, 0) /\ More(e, R, NextTile) /\ j + 1 \in Nat
      BY <2>5, <2>6, <2>11 DEF Follows
    <3>2. NumTiles(e, R, j + 1) \in Nat \ {0}
      BY <2>2, <2>11, <3>1, Counted
    <3>3. p = TileAt(e, R, j + 1, 0) /\ new
      BY <2>9, <2>11, <3>1, <3>2
    <3>4. gotMore' = FALSE /\ gotMoreAfterwards' = TRUE
      BY <1>1, <2>7, <3>1, <3>3 DEF GotMore, more
    <3>5. Stands(e, R, j + 1, 0)'
      BY <1>1, <2>11, <3>1, <3>2, <3>3 DEF Stands, R
    <3>6. InCompress(e, R, c)'
      BY <1>1, <2>5, <2>8, <2>11, <3>4, <3>5 DEF InCompress, Stands, R
    <3> QED BY <1>1, <2>3, <3>6 DEF Sending, InCompress, Stands, R
  <2>12. CASE ~(k + 1 < NumTiles(e, R, j)) /\ ~(j + 1 < NumSubs(e, R))
    <3>1. ~More(e, R, NextTile)
      BY <2>6, <2>12 DEF Follows
    <3>2. gotMore' = FALSE /\ gotMoreAfterwards' = FALSE
      BY <1>1, <2>7, <3>1 DEF GotMore, more
    <3>3. j + 1 = NumSubs(e, R)
      <4>1. NumSubs(e, R) \in Nat
        BY <2>2, Counted
      <4> QED BY <2>5, <2>12, <4>1
    <3>4. InCompress(e, R, c)'
      BY <1>1, <2>5, <2>8, <2>12, <3>2, <3>3 DEF InCompress, Stands, R
    <3> QED BY <1>1, <2>3, <3>4 DEF Sending, InCompress, Stands, R
  <2> QED BY <2>10, <2>11, <2>12
<1> QED BY <1>1, <1>2, <1>3 DEF FrameInv

\* What the loop of getCompressedChunk does between two tiles.
LEMMA LoopStep ==
  ASSUME zpc # "idle", Compress
  PROVE  /\ UNCHANGED <<gotMore, gotMoreAfterwards>>
         /\ zpc' # "idle"
         /\ zpc' = "done" => ~gotMore
<1>1. ~BeginCompressed
  BY DEF BeginCompressed
<1>2. CASE NoRoom
  BY <1>2 DEF NoRoom
<1>3. CASE FlushOutputBuffer
  BY <1>3 DEF FlushOutputBuffer
<1>4. CASE CompressNormal
  BY <1>4 DEF CompressNormal
<1>5. ASSUME NEW n, NEW block, CodeBufferFull(n, block)
      PROVE  /\ UNCHANGED <<gotMore, gotMoreAfterwards>>
             /\ zpc' # "idle" /\ (zpc' = "done" => ~gotMore)
  BY <1>5 DEF CodeBufferFull
<1>6. ASSUME NEW block, FlushBlock(block)
      PROVE  /\ UNCHANGED <<gotMore, gotMoreAfterwards>>
             /\ zpc' # "idle" /\ (zpc' = "done" => ~gotMore)
  BY <1>6 DEF FlushBlock
<1>7. CASE CompressFails
  BY <1>7 DEF CompressFails
<1>8. CASE Finish
  BY <1>8 DEF Finish, Succeeded
<1>9. CASE CompressMore
  BY <1>9 DEF CompressMore, Continues
<1>10. CASE MoveInput
  BY <1>10 DEF MoveInput, Continues
<1>11. CASE NoOutputRoom
  BY <1>11 DEF NoOutputRoom
<1> QED BY <1>1, <1>2, <1>3, <1>4, <1>5, <1>6, <1>7, <1>8, <1>9, <1>10, <1>11 DEF Compress

LEMMA CompressingStep ==
  ASSUME AskedFits, AlignInv, FrameInv, CompressStep
  PROVE  FrameInv'
<1>1. /\ pc = "compress" /\ Compress /\ tooLong' = (tooLong \/ zpc' = "aborted")
      /\ UNCHANGED <<askedRect, frameEncoder, tile_x, tile_y, bytesAvail, pc, numRects, sent>>
  BY DEF CompressStep, rects, flags, cursor
<1>2. frameEncoder = "ZRLE" /\ zpc # "idle"
  BY <1>1 DEF FrameInv, AtWork
<1>3. /\ UNCHANGED <<gotMore, gotMoreAfterwards>>
      /\ zpc' # "idle" /\ (zpc' = "done" => ~gotMore)
  BY <1>1, <1>2, LoopStep
<1>4. AtWork'
  BY <1>1, <1>2, <1>3 DEF FrameInv, AtWork
<1>5. ASSUME ~tooLong', ~Empty(askedRect)
      PROVE  \E c \in {0, 1} : Sending(frameEncoder, Aligned(askedRect), c)'
  <2>1. ~tooLong /\ zpc' # "aborted"
    BY <1>1, <1>5
  <2>2. PICK c \in {0, 1} : Sending(frameEncoder, Aligned(askedRect), c)
    BY <1>1, <1>5, <2>1, Underway
  <2>3. Sending(frameEncoder, Aligned(askedRect), c)'
    BY <1>1, <1>3, <2>1, <2>2 DEF Sending, InCompress, Stands
  <2> QED BY <2>3
<1> QED BY <1>1, <1>4, <1>5 DEF FrameInv

LEMMA CompressedStep ==
  ASSUME AskedFits, AlignInv, FrameInv, CompressedChunk
  PROVE  FrameInv'
<1>1. /\ pc = "compress" /\ zpc \in {"done", "aborted"}
      /\ pc' = IF gotMoreAfterwards THEN "chunk" ELSE "finish"
      /\ tooLong => tooLong'
      /\ UNCHANGED <<askedRect, frameEncoder, tile_x, tile_y, bytesAvail, numRects, sent>>
  BY DEF CompressedChunk, EndCompressed, ChunkPc, cursor
<1>2. AtWork'
  BY <1>1 DEF FrameInv, AtWork
<1>3. ASSUME ~tooLong, ~Empty(askedRect)
      PROVE  \E c \in {0, 1} : Sending(frameEncoder, Aligned(askedRect), c)'
  <2> DEFINE e == frameEncoder
             R == Aligned(askedRect)
  <2>1. PICK c \in {0, 1} : Sending(e, R, c)
    BY <1>1, <1>3, Underway
  <2>2. InCompress(e, R, c) /\ ~gotMore
    BY <1>1, <2>1 DEF Sending, InCompress
  <2>3. PICK j \in Nat :
          /\ j < NumSubs(e, R) /\ sent = Whole(e, R, c, j + 1)
          /\ IF gotMoreAfterwards THEN Stands(e, R, j + 1, 0) ELSE j + 1 = NumSubs(e, R)
    BY <2>2 DEF InCompress
  <2> HIDE DEF R
  <2>4. CASE gotMoreAfterwards
    <3>1. Stands(e, R, j + 1, 0)' /\ pc' = "chunk"
      BY <1>1, <1>3, <2>3, <2>4 DEF Stands, R
    <3>2. InChunk(e, R, c)'
      BY <1>1, <2>3, <3>1 DEF InChunk, Stands, R
    <3> QED BY <1>1, <2>1, <3>1, <3>2 DEF Sending, InChunk, Stands, R
  <2>5. CASE ~gotMoreAfterwards
    BY <1>1, <1>3, <2>1, <2>3, <2>5 DEF Sending, R
  <2> QED BY <2>4, <2>5
<1> QED BY <1>1, <1>2, <1>3 DEF FrameInv, Sends

LEMMA FinishStep ==
  ASSUME FrameInv, FinishFBUpdate
  PROVE  FrameInv'
<1>1. CASE fbUpdatePending /\ changesPending
  <2>1. PrepareFrame(fbUpdateRect)
    BY <1>1 DEF FinishFBUpdate, SendFBUpdate
  <2> QED BY <2>1, PrepareFrames
<1>2. CASE fbUpdatePending /\ ~changesPending
  <2>1. pc' = "idle" /\ UNCHANGED <<frameEncoder, tooLong>>
    BY <1>2 DEF FinishFBUpdate, SendFBUpdate, wire
  <2> QED BY <2>1 DEF FrameInv, AtWork, Sends
<1>3. CASE ~fbUpdatePending
  <2>1. pc' = "idle" /\ UNCHANGED frameEncoder /\ ~tooLong'
    BY <1>3 DEF FinishFBUpdate, flags
  <2> QED BY <2>1 DEF FrameInv, AtWork, Sends
<1> QED BY <1>1, <1>2, <1>3

LEMMA RequestStep ==
  ASSUME FrameInv, NEW r, NEW incremental \in BOOLEAN, FBUpdateRequest(r, incremental)
  PROVE  FrameInv'
<1>1. CASE pc = "idle" /\ incremental /\ ~changesPending
  <2>1. pc' = "idle" /\ UNCHANGED <<frameEncoder, tooLong>>
    BY <1>1 DEF FBUpdateRequest, SendFBUpdate, wire
  <2> QED BY <2>1 DEF FrameInv, AtWork, Sends
<1>2. CASE pc = "idle" /\ ~(incremental /\ ~changesPending)
  <2>1. PrepareFrame(r)
    BY <1>2 DEF FBUpdateRequest, SendFBUpdate
  <2> QED BY <2>1, PrepareFrames
<1>3. CASE pc # "idle"
  <2>1. UNCHANGED frameVars
    BY <1>3 DEF FBUpdateRequest, frameVars, rects, cursor, wire, zvars
  <2> QED BY <2>1, FrameUnchanged
<1> QED BY <1>1, <1>2, <1>3

LEMMA DirtyStep ==
  ASSUME FrameInv, NEW r, GotDirtyRect(r)
  PROVE  FrameInv'
<1>1. CASE pc = "idle" /\ running
  <2>1. PrepareFrame(r)
    BY <1>1 DEF GotDirtyRect
  <2> QED BY <2>1, PrepareFrames
<1>2. CASE ~(pc = "idle" /\ running)
  <2>1. UNCHANGED frameVars
    BY <1>2 DEF GotDirtyRect, frameVars, rects, cursor, wire, zvars
  <2> QED BY <2>1, FrameUnchanged
<1> QED BY <1>1, <1>2

LEMMA FrameStep ==
  ASSUME AskedFits, AlignInv, FrameInv, [Next]_vars
  PROVE  FrameInv'
<1>1. CASE FormatChanges
  <2>1. UNCHANGED frameVars
    BY <1>1 DEF FormatChanges, frameVars, rects, cursor, wire, zvars
  <2> QED BY <2>1, FrameUnchanged
<1>2. CASE FBSyncTasks
  <2>1. /\ pc = "deferred" /\ pc' = "header"
        /\ UNCHANGED <<frameEncoder, tile_x, tile_y, tooLong>>
    BY <1>2 DEF FBSyncTasks, cursor, wire
  <2> QED BY <2>1 DEF FrameInv, AtWork, Sends
<1>3. CASE UNCHANGED vars
  <2>1. UNCHANGED frameVars
    BY <1>3 DEF vars, frameVars, rects, flags, cursor, wire, zvars
  <2> QED BY <2>1, FrameUnchanged
<1> QED
  BY <1>1, <1>2, <1>3, RequestStep, DirtyStep, HeaderStep, ChunkStep, TileStep, WaitStep,
     FetchedStep, CompressingStep, CompressedStep, LineStep, FinishStep DEF Next

LEMMA InitFrame == Init => FrameInv
<1> SUFFICES ASSUME Init PROVE FrameInv
  OBVIOUS
<1>1. pc = "idle" /\ ~tooLong /\ frameEncoder \in Encoders
  BY DEF Init
<1> QED BY <1>1, FrameAssumption DEF FrameInv, AtWork, Sends, AllEncoders

\* What a client reads behind a header is what the tiles of the subrectangle are.
LEMMA ExpectedIs ==
  ASSUME NEW R, fbUpdateRect.x = R.x, fbUpdateRect.y = R.y, NEW r
  PROVE  Expected(r) = TilesOf(frameEncoder, R, r)
BY DEF Expected, TilesOf, SizeOf

\* The pictures of a frame that is complete are its subrectangles, in their order.
LEMMA PicturesAre ==
  ASSUME NEW e \in AllEncoders, NEW R, RectOk(R), NEW c \in {0, 1},
         sent = Whole(e, R, c, NumSubs(e, R))
  PROVE  /\ Len(sent) = c + NumSubs(e, R)
         /\ Pictures = c + 1 .. c + NumSubs(e, R)
         /\ \A i \in Pictures : /\ i - c - 1 \in 0 .. NumSubs(e, R) - 1
                                /\ sent[i].rect = Sub(e, R, i - c - 1)
                                /\ sent[i].tiles = SubTiles(e, R, i - c - 1)
<1> DEFINE n == NumSubs(e, R)
<1>1. n \in Nat /\ c \in Nat
  BY Counted
<1>2. sent = [i \in 1 .. c + n |-> Entry(e, R, c, i)]
  BY DEF Whole
<1> HIDE DEF n
<1>3. Len(sent) = c + n /\ \A i \in 1 .. c + n : sent[i] = Entry(e, R, c, i)
  BY <1>1, <1>2
<1>4. \A i \in 1 .. c + n : i <= c => sent[i].rect = NoRect
  BY <1>1, <1>3 DEF Entry, CursorEntry
<1>5. ASSUME NEW i \in 1 .. c + n, ~(i <= c)
      PROVE  /\ i - c - 1 \in 0 .. n - 1
             /\ sent[i].rect = Sub(e, R, i - c - 1)
             /\ sent[i].tiles = SubTiles(e, R, i - c - 1)
             /\ sent[i].rect # NoRect
  <2> DEFINE j == i - c - 1
  <2>1. j \in 0 .. n - 1 /\ j \in Nat /\ j < n
    BY <1>1, <1>5
  <2>2. sent[i].rect = Sub(e, R, j) /\ sent[i].tiles = SubTiles(e, R, j)
    BY <1>3, <1>5 DEF Entry
  <2> HIDE DEF j
  <2>3. RectOk(Sub(e, R, j))
    BY <2>1, SubsOk DEF n
  <2>4. Sub(e, R, j) # NoRect
    BY <2>3 DEF RectOk, NoRect
  <2>5. sent[i].rect # NoRect
    BY <2>2, <2>4
  <2> QED BY <2>1, <2>2, <2>5 DEF j
<1>6. Pictures = {i \in 1 .. c + n : ~(i <= c)}
  BY <1>3, <1>4, <1>5 DEF Pictures
<1>7. Pictures = c + 1 .. c + n
  BY <1>1, <1>6
<1>8. \A i \in Pictures :
         /\ i - c - 1 \in 0 .. n - 1
         /\ sent[i].rect = Sub(e, R, i - c - 1) /\ sent[i].tiles = SubTiles(e, R, i - c - 1)
  BY <1>5, <1>6
<1> QED BY <1>3, <1>7, <1>8 DEF n

LEMMA CompleteFrame ==
  ASSUME AskedFits, AlignInv, FrameInv
  PROVE  FrameAsAnnounced
<1> DEFINE e == frameEncoder
           R == Aligned(askedRect)
           n == NumSubs(e, R)
<1> SUFFICES ASSUME Complete
             PROVE  /\ Len(sent) = numRects
                    /\ \A i \in Pictures : sent[i].tiles = Expected(sent[i].rect)
                    /\ \A i, j \in Pictures :
                         i # j => Pixels(sent[i].rect) \cap Pixels(sent[j].rect) = {}
                    /\ UNION {Pixels(sent[i].rect) : i \in Pictures} = Pixels(R)
  BY DEF FrameAsAnnounced
<1>1. /\ e \in AllEncoders /\ RectOk(R)
      /\ fbUpdateRect.x = R.x /\ fbUpdateRect.y = R.y /\ pc = "finish"
  BY NotEmpty DEF Complete, FrameInv, AtWork, AlignInv
<1>2. PICK c \in {0, 1} : Sending(e, R, c)
  BY <1>1 DEF Complete, FrameInv, Sends
<1> HIDE DEF R
<1>3. numRects = c + n /\ sent = Whole(e, R, c, n)
  BY <1>1, <1>2 DEF Sending
<1>4. /\ Len(sent) = c + n
      /\ Pictures = c + 1 .. c + n
      /\ \A i \in Pictures : /\ i - c - 1 \in 0 .. n - 1
                             /\ sent[i].rect = Sub(e, R, i - c - 1)
                             /\ sent[i].tiles = SubTiles(e, R, i - c - 1)
  BY <1>1, <1>3, PicturesAre
<1>5. n \in Nat \ {0}
  BY <1>1, Counted
<1> HIDE DEF n
<1>6. ASSUME NEW i \in Pictures
      PROVE  sent[i].tiles = Expected(sent[i].rect)
  <2>1. Expected(Sub(e, R, i - c - 1)) = TilesOf(e, R, Sub(e, R, i - c - 1))
    BY <1>1, ExpectedIs
  <2> QED BY <1>4, <2>1 DEF SubTiles
<1>7. ASSUME NEW i \in Pictures, NEW j \in Pictures, i # j
      PROVE  Pixels(sent[i].rect) \cap Pixels(sent[j].rect) = {}
  <2> DEFINE k == i - c - 1
             l == j - c - 1
  <2>1. k \in Nat /\ k < n /\ l \in Nat /\ l < n /\ k # l
    BY <1>4, <1>5, <1>7
  <2>2. sent[i].rect = Sub(e, R, k) /\ sent[j].rect = Sub(e, R, l)
    BY <1>4
  <2> HIDE DEF k, l
  <2>3. Pixels(Sub(e, R, k)) \cap Pixels(Sub(e, R, l)) = {}
    BY <1>1, <2>1, SubsDisjoint DEF n
  <2> QED BY <2>2, <2>3
<1>8. UNION {Pixels(sent[i].rect) : i \in Pictures}
        = UNION {Pixels(Sub(e, R, j)) : j \in 0 .. n - 1}
  <2>1. \A i \in Pictures : \E j \in 0 .. n - 1 : sent[i].rect = Sub(e, R, j)
    BY <1>4
  <2>2. ASSUME NEW j \in 0 .. n - 1
        PROVE  \E i \in Pictures : sent[i].rect = Sub(e, R, j)
    <3>1. PICK i : i = j + c + 1
      OBVIOUS
    <3>2. i \in Pictures /\ i - c - 1 = j
      BY <1>4, <1>5, <3>1
    <3> QED BY <1>4, <3>2
  <2> QED BY <2>1, <2>2
<1>9. UNION {Pixels(Sub(e, R, j)) : j \in 0 .. n - 1} = Pixels(R)
  BY <1>1, SubsCover DEF n
<1> QED BY <1>3, <1>4, <1>6, <1>7, <1>8, <1>9

\* A frame that is sent with room enough is what its headers announce: as many rectangles
\* as vncSendFBUpdateHeader counts, each with the tiles that the client decodes there and in
\* that order, together the whole rectangle and no pixel twice (vncSendFBUpdateChunk and the
\* tile cursors of Raw, Hextile, TRLE and ZRLE). For screens, rectangles, tiles and
\* subrectangles of any size, and whatever comes between the chunks.
THEOREM FramesAnnounced ==
  ASSUME AskedFits
  PROVE  Spec => []FrameAsAnnounced
<1>1. Init => ZInv /\ AlignInv /\ FrameInv
  BY ZInitially, InitAligned, InitFrame DEF Init
<1>2. ZInv /\ AlignInv /\ FrameInv /\ [Next]_vars => (ZInv /\ AlignInv /\ FrameInv)'
  BY ZInductive, FrameStepCompresses, AlignStep, FrameStep
<1>3. AlignInv /\ FrameInv => FrameAsAnnounced
  BY CompleteFrame
<1> QED BY <1>1, <1>2, <1>3, PTL DEF Spec
=============================================================================
