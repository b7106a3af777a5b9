------------------------------ MODULE FrameTiles ------------------------------
(***************************************************************************)
(* One frame after the other: the rectangle of a request or of the retrace *)
(* task, its alignment, its subrectangles and tiles, and the chunks they   *)
(* are sent in (VNCServer.cpp 1001-1250, VNCEncoder.cpp 348-545, the Raw   *)
(* encoder). Who drives a frame is the matter of UpdatePipeline; this      *)
(* module follows the rectangle and the tile cursor, and the compression   *)
(* of ZRLE, which is InPlaceDeflate. What a client makes of the stream is  *)
(* in the history variables.                                               *)
(***************************************************************************)
EXTENDS InPlaceDeflate, Sequences, FiniteSets

CONSTANTS
  Width, Height,  \* fbWidth, fbHeight
  AlignTo,        \* 8 on an indexed screen, 32 / depth in true colour
  TileSize,       \* 16
  ZTileSize,      \* 64, of ZRLE
  SubrectSize,    \* ZRLESubrectSize
  MinBytesAvail,  \* minBytesAvail
  Encoders,       \* what the client and the settings may choose
  Requests,       \* rectangles a client asks for
  DirtyRects      \* rectangles the retrace task finds

ASSUME FrameAssumption ==
  /\ {Width, Height, AlignTo, TileSize, ZTileSize, SubrectSize} \subseteq Nat \ {0}
  /\ MinBytesAvail \in Nat /\ SubrectSize % ZTileSize = 0
  /\ Encoders \subseteq {"Raw", "Hextile", "TRLE", "ZRLE"}
  /\ Requests \cup DirtyRects \subseteq [x : Nat, y : Nat, w : Nat, h : Nat]

VARIABLES
  fbUpdateRect,
  fbUpdatePending,
  callback,         \* the retrace task has been asked for a rectangle
  changesPending,   \* VNCPalette::hasChangesPending()
  encoderChanged,   \* the client has named other encodings: begin() will defer
  frameEncoder,     \* selectedEncoder
  tile_x, tile_y,
  bytesAvail,       \* room in the buffer for more tiles of this chunk
  pc,               \* what the send chain does next; "idle": no frame is in progress
  numRects,         \* history: the rectangles that the header announced,
  sent,             \*   what followed, as [rect, tiles], a tile as its offset
  askedRect,        \*   the rectangle as it was before it was aligned
  tooLong,          \*   "Insufficient buffer space", "Aborting!" or "too much data" in this frame
  running           \* vncState = VNC_RUNNING

rects  == <<fbUpdateRect, askedRect>>
flags  == <<fbUpdatePending, callback, changesPending, encoderChanged, frameEncoder, running>>
cursor == <<tile_x, tile_y>>
wire   == <<numRects, sent, tooLong>>
vars   == <<rects, flags, cursor, bytesAvail, pc, wire, zvars>>

Word  == 65536
Smaller(a, b) == IF a < b THEN a ELSE b
CeilDiv(n, d) == (n + d - 1) \div d
Empty(r) == r.w = 0 \/ r.h = 0
NoRect   == [x |-> 0, y |-> 0, w |-> 0, h |-> 0]

Init ==
  /\ ZInit
  /\ fbUpdateRect = NoRect /\ askedRect = NoRect
  /\ fbUpdatePending = FALSE /\ callback = FALSE
  /\ changesPending = FALSE /\ encoderChanged = TRUE
  /\ frameEncoder \in Encoders
  /\ tile_x = 0 /\ tile_y = 0 /\ bytesAvail = 0
  /\ pc = "idle" /\ numRects = 0 /\ sent = <<>> /\ tooLong = FALSE /\ running = TRUE

----------------------------------------------------------------------------
(* The start of a frame.                                                     *)

\* A faulty variant: the width is not enlarged by what x has moved.
AlignedNarrow(r) ==
  LET dx == r.x % AlignTo  x == r.x - dx  w == r.w IN
  [r EXCEPT !.x = IF x + w > Width THEN (Width - w) % Word ELSE x, !.w = w]

\* The rectangle starts on a boundary that the tile routines can read from.
Aligned(r) ==
  LET dx == r.x % AlignTo  x == r.x - dx  w == (r.w + dx) % Word IN
  [r EXCEPT !.x = IF x + w > Width THEN (Width - w) % Word ELSE x, !.w = w]

\* vncPrepareForFBUpdate for the rectangle r, with VNCEncoder::begin().
PrepareFrame(r) ==
  /\ fbUpdateRect' = Aligned(r) /\ askedRect' = r
  /\ fbUpdatePending' = FALSE
  /\ tile_x' = 0 /\ tile_y' = 0
  /\ pc' = IF changesPending \/ encoderChanged THEN "deferred" ELSE "header"
  /\ numRects' = 0 /\ sent' = <<>> /\ tooLong' = FALSE
  /\ UNCHANGED <<changesPending, encoderChanged, frameEncoder, bytesAvail, running, zvars>>

\* vncSendFBUpdate, with fbUpdateRect = r. A second request for a dirty rectangle
\* is answered by the first.
SendFBUpdate(incremental, r) ==
  IF incremental /\ ~changesPending
  THEN /\ callback' = TRUE
       /\ fbUpdateRect' = r /\ pc' = "idle"
       /\ UNCHANGED <<fbUpdatePending, changesPending, encoderChanged, frameEncoder, running,
                      askedRect, cursor, bytesAvail, wire, zvars>>
  ELSE PrepareFrame(r) /\ UNCHANGED callback

\* Messages and retraces come while a call is outstanding, never within a routine.
Between == pc \in {"idle", "deferred", "header", "chunk", "finish"}

FBUpdateRequest(r, incremental) ==
  /\ Between
  /\ IF pc = "idle" THEN SendFBUpdate(incremental, r)
     ELSE /\ fbUpdatePending' = TRUE
          /\ UNCHANGED <<rects, callback, changesPending, encoderChanged, frameEncoder, running,
                         cursor, bytesAvail, pc, wire, zvars>>

GotDirtyRect(r) ==
  /\ Between /\ callback
  /\ callback' = FALSE
  /\ IF pc = "idle" /\ running THEN PrepareFrame(r)
     ELSE UNCHANGED <<rects, fbUpdatePending, changesPending, encoderChanged,
                      frameEncoder, running, cursor, bytesAvail, pc, wire, zvars>>

\* The client sets another pixel format, or an application another colour table.
FormatChanges ==
  /\ Between
  /\ changesPending' = TRUE
  /\ UNCHANGED <<rects, fbUpdatePending, callback, encoderChanged, frameEncoder, running,
                 cursor, bytesAvail, pc, wire, zvars>>

\* The tasks of the event loop that a frame was deferred for.
FBSyncTasks ==
  /\ pc = "deferred"
  /\ changesPending' = FALSE /\ encoderChanged' = FALSE
  /\ pc' = "header"
  /\ UNCHANGED <<rects, fbUpdatePending, callback, frameEncoder, running, cursor, bytesAvail,
                 wire, zvars>>

----------------------------------------------------------------------------
(* Subrectangles and the tile cursor.                                        *)

NumOfSubrects ==
  IF frameEncoder # "ZRLE" THEN 1
  ELSE CeilDiv(fbUpdateRect.w, SubrectSize) * CeilDiv(fbUpdateRect.h, SubrectSize)

NewSubrect(x, y) ==
  IF frameEncoder = "ZRLE" THEN x % SubrectSize = 0 /\ y % SubrectSize = 0
  ELSE x = 0 /\ y = 0

GetSubrect ==
  IF frameEncoder # "ZRLE" THEN fbUpdateRect
  ELSE LET x == tile_x - (tile_x % SubrectSize)
           y == tile_y - (tile_y % SubrectSize) IN
       [x |-> fbUpdateRect.x + x, w |-> Smaller(x + SubrectSize, fbUpdateRect.w) - x,
        y |-> fbUpdateRect.y + y, h |-> Smaller(y + SubrectSize, fbUpdateRect.h) - y]

Outside(x, y) == x >= fbUpdateRect.w \/ y >= fbUpdateRect.h
Past(x, y)    == x >= fbUpdateRect.w /\ y >= fbUpdateRect.h

\* One round of the loop of advanceToNextTile: in rows within a subrectangle, then
\* to the subrectangle on the right, then to the one below on the left.
ZStep(x, y) ==
  LET right == x + ZTileSize  down == y + ZTileSize IN
  IF right % SubrectSize # 0 THEN <<right, y>>
  ELSE IF down % SubrectSize # 0 THEN <<right - SubrectSize, down>>
  ELSE IF right < fbUpdateRect.w THEN <<right, down - SubrectSize>>
  ELSE IF down < fbUpdateRect.h THEN <<0, down>>
  ELSE <<right, down>>

\* The rounds go on until a tile lies within the rectangle, or all have been there.
\* A subrectangle has few tiles: more rounds than it has are never needed.
ZAdvanced ==
  LET round[n \in Nat] ==
        IF n = 0 THEN <<tile_x, tile_y>>
        ELSE LET p == round[n - 1] IN
             IF n = 1 \/ (Outside(p[1], p[2]) /\ ~Past(p[1], p[2])) THEN ZStep(p[1], p[2]) ELSE p
  IN round[2 * (SubrectSize \div ZTileSize) * (SubrectSize \div ZTileSize)]

\* A faulty variant: a row whose last tile is whole is followed by an empty tile.
AdvancedTooFar ==
  IF tile_x + TileSize <= fbUpdateRect.w THEN <<tile_x + TileSize, tile_y>>
  ELSE IF tile_y + TileSize < fbUpdateRect.h THEN <<0, tile_y + TileSize>>
  ELSE <<tile_x + TileSize, tile_y + TileSize>>

\* In TRLE and Hextile, row by row.
Advanced ==
  IF tile_x + TileSize < fbUpdateRect.w THEN <<tile_x + TileSize, tile_y>>
  ELSE IF tile_y + TileSize < fbUpdateRect.h THEN <<0, tile_y + TileSize>>
  ELSE <<tile_x + TileSize, tile_y + TileSize>>

NextTile == IF frameEncoder = "ZRLE" THEN ZAdvanced ELSE Advanced

----------------------------------------------------------------------------
(* The chunks of a frame.                                                    *)

\* The colour map, the header and the cursor. hasCursor: one more rectangle.
SendHeader(hasCursor) ==
  /\ pc = "header"
  /\ fbUpdatePending' = FALSE
  /\ numRects' = NumOfSubrects + (IF hasCursor THEN 1 ELSE 0)
  /\ sent' = IF hasCursor THEN <<[rect |-> NoRect, tiles |-> <<>>]>> ELSE <<>>
  /\ pc' = "chunk"
  /\ UNCHANGED <<rects, callback, changesPending, encoderChanged, frameEncoder, running, cursor,
                 bytesAvail, tooLong, zvars>>

\* The head of vncFBUpdateChunk: a new subrectangle has a header.
StartChunk ==
  /\ pc = "chunk"
  /\ sent' = IF NewSubrect(tile_x, tile_y) /\ ~tooLong
             THEN Append(sent, [rect |-> GetSubrect, tiles |-> <<>>]) ELSE sent
  /\ bytesAvail' = BufSize
  /\ pc' = IF frameEncoder = "Raw" THEN "line"
           ELSE IF frameEncoder = "ZRLE" THEN "compress" ELSE "tiles"
  /\ IF frameEncoder = "ZRLE" THEN BeginCompressed ELSE UNCHANGED zvars
  /\ UNCHANGED <<rects, flags, cursor, numRects, tooLong>>

\* A tile, or what stands for it, goes behind the last header. Once one was too long,
\* no client can follow, and the history ends.
Put(tile) ==
  sent' = IF tooLong THEN sent ELSE [sent EXCEPT ![Len(sent)].tiles = Append(@, tile)]

GotMore(x, y) == y < fbUpdateRect.h \/ x < fbUpdateRect.w

\* A chunk is complete: it is sent, and names what comes next.
ChunkPc(gotmore) == IF gotmore THEN "chunk" ELSE "finish"
ChunkRect(gotmore) ==
  IF gotmore THEN fbUpdateRect ELSE [fbUpdateRect EXCEPT !.w = 0, !.h = 0]

\* getUncompressedChunk for Hextile and TRLE: a tile of length len that fits.
EncodeNextTile(len) ==
  /\ pc = "tiles" /\ len <= bytesAvail
  /\ Put(cursor)
  /\ tile_x' = NextTile[1] /\ tile_y' = NextTile[2]
  /\ bytesAvail' = bytesAvail - len
  /\ LET more == GotMore(tile_x', tile_y')  full == bytesAvail' < MinBytesAvail IN
     /\ pc' = IF more /\ ~full THEN "tiles" ELSE ChunkPc(more)
     /\ fbUpdateRect' = ChunkRect(more)
  /\ UNCHANGED <<askedRect, flags, numRects, tooLong, zvars>>

\* A tile that does not fit behind others waits for the next chunk.
TileWaits(len) ==
  /\ pc = "tiles" /\ len > bytesAvail /\ bytesAvail < BufSize
  /\ pc' = "chunk"
  /\ UNCHANGED <<rects, flags, cursor, bytesAvail, wire, zvars>>

\* ZRLE, one tile at a time. Without room for it there is a solid tile in its place,
\* and the cursor stays.
CompressTile(len) ==
  /\ pc = "compress"
  /\ Put(cursor)
  /\ IF len <= Room THEN tile_x' = NextTile[1] /\ tile_y' = NextTile[2] /\ UNCHANGED tooLong
     ELSE tooLong' = TRUE /\ UNCHANGED cursor
  /\ Fetch(Length(len), GotMore(tile_x', tile_y'), NewSubrect(tile_x', tile_y'))
  /\ UNCHANGED <<rects, flags, bytesAvail, pc, numRects>>

CompressStep ==
  /\ pc = "compress"
  /\ Compress
  /\ tooLong' = (tooLong \/ zpc' = "aborted")
  /\ UNCHANGED <<rects, flags, cursor, bytesAvail, pc, numRects, sent>>

\* Data that is too long is an error of the server, and not sent; the frame goes on, with
\* an empty chunk in its place. Once more the client cannot follow.
CompressedChunk ==
  /\ pc = "compress"
  /\ EndCompressed
  /\ running' = (running /\ ~TooMuch)
  /\ tooLong' = (tooLong \/ EntryLength # total_out + Prefix)
  /\ pc' = ChunkPc(gotMoreAfterwards)
  /\ fbUpdateRect' = ChunkRect(gotMoreAfterwards)
  /\ UNCHANGED <<askedRect, fbUpdatePending, callback, changesPending, encoderChanged, frameEncoder,
                 cursor, bytesAvail, numRects, sent>>

\* Raw sends a line at a time and keeps the cursor in step.
RawLine ==
  /\ pc = "line"
  /\ Put(cursor)
  /\ tile_y' = tile_y + 1
  /\ LET more == tile_y' < fbUpdateRect.h IN
     pc' = ChunkPc(more) /\ fbUpdateRect' = ChunkRect(more)
  /\ UNCHANGED <<askedRect, flags, tile_x, bytesAvail, numRects, tooLong, zvars>>

\* vncFinishFBUpdate: a request that came during the frame is answered now, with
\* the rectangle that the last chunk has left behind.
FinishFBUpdate ==
  /\ pc = "finish"
  /\ IF fbUpdatePending THEN SendFBUpdate(TRUE, fbUpdateRect)
     ELSE /\ pc' = "idle"
          /\ askedRect' = NoRect /\ numRects' = 0 /\ sent' = <<>> /\ tooLong' = FALSE
          /\ UNCHANGED <<fbUpdateRect, flags, cursor, bytesAvail, zvars>>

Next ==
  \/ \E r \in Requests, incremental \in BOOLEAN : FBUpdateRequest(r, incremental)
  \/ \E r \in DirtyRects : GotDirtyRect(r)
  \/ FormatChanges
  \/ FBSyncTasks
  \/ \E hasCursor \in BOOLEAN : SendHeader(hasCursor)
  \/ StartChunk
  \/ \E len \in TileLens : EncodeNextTile(len)
  \/ \E len \in TileLens : TileWaits(len)
  \/ \E len \in TileLens : CompressTile(len)
  \/ CompressStep
  \/ CompressedChunk
  \/ RawLine
  \/ FinishFBUpdate

Spec == Init /\ [][Next]_vars

----------------------------------------------------------------------------
(* Properties.                                                               *)

\* What a client reads behind the header of rectangle r: tiles in rows, from the
\* corner of r on, or as many lines as r has.
Expected(r) ==
  LET size == IF frameEncoder = "ZRLE" THEN ZTileSize ELSE TileSize
      cols == CeilDiv(r.w, size) IN
  IF frameEncoder = "Raw" THEN [i \in 1 .. r.h |-> <<0, i - 1>>]
  ELSE [i \in 1 .. cols * CeilDiv(r.h, size) |->
          <<r.x - fbUpdateRect.x + ((i - 1) % cols) * size,
            r.y - fbUpdateRect.y + ((i - 1) \div cols) * size>>]

Pixels(r) == (r.x .. r.x + r.w - 1) \X (r.y .. r.y + r.h - 1)

\* The cursor's rectangle is not part of the picture.
Pictures == {i \in 1 .. Len(sent) : sent[i].rect # NoRect}

\* A frame that had something to send, all of it sent in room enough.
Complete == pc = "finish" /\ ~tooLong /\ ~Empty(askedRect)

\* The stream is what its headers announce: as many rectangles as the frame's header
\* says, each with the tiles that the client decodes there, and together they are the
\* whole rectangle, no pixel twice. Only true where no tile was too long for the buffer.
FrameAsAnnounced ==
  Complete =>
    /\ Len(sent) = numRects
    /\ \A i \in Pictures : sent[i].tiles = Expected(sent[i].rect)
    /\ \A i, j \in Pictures : i # j => Pixels(sent[i].rect) \cap Pixels(sent[j].rect) = {}
    /\ UNION {Pixels(sent[i].rect) : i \in Pictures} = Pixels(Aligned(askedRect))

Screen == (0 .. Width - 1) \X (0 .. Height - 1)

\* Alignment loses nothing that was asked for, of what the screen has, and reads nothing
\* beside the screen, even if the client asks for more than there is. The rectangle that
\* is moved back for that need not start on a boundary any more; any other does.
AlignedCovers ==
  pc \in {"deferred", "header"} =>
    /\ Pixels(askedRect) \cap Screen \subseteq Pixels(fbUpdateRect)
    /\ fbUpdateRect.x + fbUpdateRect.w <= Width
    /\ askedRect.x + askedRect.w <= Width => fbUpdateRect.x % AlignTo = 0

\* A frame is sent because there is something to show.
NoEmptyFrame == pc = "header" => ~Empty(fbUpdateRect)
=============================================================================
