----------------------------- MODULE EncoderSetup -----------------------------
(***************************************************************************)
(* What has to be in place before a frame is sent: an encoding, a buffer   *)
(* of the right size, the compressor, the pixel format and the colours     *)
(* (VNCEncoder::begin and fbSyncTasks, VNCPalette, the life of the         *)
(* compressor in VNCEncoderZLib). A frame chooses at interrupt level; what *)
(* needs memory or the Toolbox is done by the event loop, while the frame  *)
(* waits.                                                                  *)
(***************************************************************************)
EXTENDS Integers, FiniteSets

CONSTANTS
  Depths,      \* of the screen: 1 .. 8 are indexed, 16 and 32 true colour
  ClientEncodings, \* bound: the encodings that a client may name
  AllowSets,   \* encodings that the settings may allow
  TrueFormats, \* true colour formats that a client may ask for, by bits per pixel
  MaxTables,   \* bound: colour tables that applications set
  FbWidth,     \* fbWidth
  SmallBuffer, \* the colour table and the cursor need this much in any case
  TrleBuffer, HextileBuffer, ZrleBuffer, \* the minBufferSize() of these
  Mishaps      \* what may happen that the code is not made for

Encodings == {"TRLE", "Hextile", "ZRLE", "Tight", "Raw"}
AllMishaps ==
  {"noEncoder",     \* no encoding is both allowed and known to the client
   "tightKept",     \* a client is sent Tight that has not named it, as one before it had
   "rawGrows",      \* in Raw, a format with more bytes per pixel, or one for a new client
   "backToIndexed", \* a client of an indexed screen that had true colour wants indices
   "formatRace",    \* a format comes between the copy of the last one and its removal
   "trueTable",     \* the colour table changes for a client in true colour
   "noTable",       \* the screen has no colour table, or one of another size
   "tightThenZrle", \* a client that was sent Tight is found to know ZRLE
   "tightThenHextile", \* or Hextile, whose buffer has the size of that of Tight
   "noMemory",      \* for the buffer or the table of true colours
   "noCompressor"}  \* memory for the buffer, and none for the compressor

ASSUME SetupAssumption ==
  /\ Depths \subseteq {1, 2, 4, 8, 16, 32}
  /\ ClientEncodings \subseteq Encodings /\ AllowSets \subseteq SUBSET Encodings
  /\ TrueFormats \subseteq {8, 16, 32} /\ MaxTables \in Nat
  /\ {FbWidth, SmallBuffer, TrleBuffer, HextileBuffer, ZrleBuffer} \subseteq Nat \ {0}
  /\ Mishaps \subseteq AllMishaps

VARIABLES
  fbDepth, allowed,      \* fixed while the server runs
  clientTakes,           \* the vncFlags.clientTakes... of encodings
  selectedEncoder, lastSelectedEncoder,
  fbUpdateBufferSize,    \* 0: fbUpdateBuffer is NULL
  deflator,              \* "none", "fresh": it has given nothing out, or "used"
  fbPixFormat, pendingPixFormat,
  fbColorMapNeedsUpdate,
  ctSeed,                \* the colour table that was last read
  vncTrueColors,         \* what the table in true colour was made of, or NoColors
  table,                 \* the colour table of the screen
  spc,                   \* the place of the frame, or of the server without a session
  named, asked,          \* history: what this client has named and asked for,
  expected, due,         \*   the formats and the colours that this frame may have,
  clientTable,           \*   the last colour map it was sent,
  inflating              \*   whether it has seen compressed data

encoder  == <<selectedEncoder, lastSelectedEncoder>>
memory   == <<fbUpdateBufferSize, deflator>>
formats  == <<fbPixFormat, pendingPixFormat>>
colours  == <<fbColorMapNeedsUpdate, ctSeed, vncTrueColors>>
settings == <<fbDepth, allowed>>
history  == <<named, asked, expected, due, clientTable, inflating>>
svars == <<settings, clientTakes, encoder, memory, formats, colours, table, spc, history>>

Indexed(bits) == [trueColor |-> FALSE, bitsPerPixel |-> bits]
TrueColor(bits) == [trueColor |-> TRUE, bitsPerPixel |-> bits]
NoFormat == TrueColor(0)
NoColors == [seed |-> -1, format |-> NoFormat]
Unfilled == [seed |-> -1, format |-> Indexed(8)]
None     == "none"

OnTrueColor == fbDepth >= 16
ScreenFormat(depth) == IF depth >= 16 THEN TrueColor(32) ELSE Indexed(8)

SetupInit ==
  /\ fbDepth \in Depths /\ allowed \in AllowSets
  /\ clientTakes = {} /\ selectedEncoder = None /\ lastSelectedEncoder = None
  /\ fbUpdateBufferSize = 0 /\ deflator = None
  /\ fbPixFormat = Indexed(8) /\ pendingPixFormat = NoFormat
  /\ fbColorMapNeedsUpdate = FALSE /\ ctSeed = -1 /\ vncTrueColors = NoColors
  /\ table = 0 /\ spc = "listening"
  /\ named = {} /\ asked = Indexed(8) /\ expected = {Indexed(8)}
  /\ due = -1 /\ clientTable = -1 /\ inflating = FALSE

NeedsZLib == selectedEncoder \in {"ZRLE", "Tight"}

Larger(a, b) == IF a < b THEN b ELSE a

RowBytes(format) == FbWidth * (format.bitsPerPixel \div 8)

\* A row of Raw in format f needs no more than what the buffer has for the format now.
RawFits(f) ==
  "Raw" \in allowed => RowBytes(f) <= Larger(SmallBuffer, RowBytes(fbPixFormat))

----------------------------------------------------------------------------
(* Sessions.                                                                 *)

Reset(d) == IF d = None THEN None ELSE "fresh"

\* A faulty variant: the compressor goes on where it was with the last client.
NewSessionKeepsStream ==
  /\ spc = "listening"
  /\ "rawGrows" \in Mishaps \/ fbUpdateBufferSize = 0 \/ RawFits(ScreenFormat(fbDepth))
  /\ fbPixFormat' = ScreenFormat(fbDepth) /\ pendingPixFormat' = NoFormat
  /\ fbColorMapNeedsUpdate' = ~OnTrueColor
  /\ clientTakes' = clientTakes \cap {"Tight"}
  /\ selectedEncoder' = None
  /\ spc' = "idle"
  /\ named' = {} /\ asked' = ScreenFormat(fbDepth) /\ expected' = {ScreenFormat(fbDepth)}
  /\ due' = -1 /\ clientTable' = -1 /\ inflating' = FALSE
  /\ UNCHANGED <<settings, lastSelectedEncoder, memory, ctSeed, vncTrueColors, table>>

\* What the server does before ServerInit: beginNewSession and VNCEncoder::clear, which
\* forgets neither Tight nor lastSelectedEncoder.
NewSession ==
  /\ spc = "listening"
  /\ "rawGrows" \in Mishaps \/ fbUpdateBufferSize = 0 \/ RawFits(ScreenFormat(fbDepth))
  /\ fbPixFormat' = ScreenFormat(fbDepth) /\ pendingPixFormat' = NoFormat
  /\ fbColorMapNeedsUpdate' = ~OnTrueColor
  /\ deflator' = IF NeedsZLib THEN Reset(deflator) ELSE deflator
  /\ clientTakes' = clientTakes \cap {"Tight"}
  /\ selectedEncoder' = None
  /\ spc' = "idle"
  /\ named' = {} /\ asked' = ScreenFormat(fbDepth) /\ expected' = {ScreenFormat(fbDepth)}
  /\ due' = -1 /\ clientTable' = -1 /\ inflating' = FALSE
  /\ UNCHANGED <<settings, lastSelectedEncoder, fbUpdateBufferSize, ctSeed, vncTrueColors,
                 table>>

EndSession ==
  /\ spc = "idle"
  /\ spc' = "listening"
  /\ UNCHANGED <<settings, clientTakes, encoder, memory, formats, colours, table, history>>

\* A compressor is only set up when there is none.
CompressSetup(d) == IF d = None THEN "fresh" ELSE d

CompressDestroy == deflator' = None

FreeMemory == fbUpdateBufferSize' = 0 /\ CompressDestroy

\* vncServerStop: VNCEncoder::destroy and VNCPalette::destroy.
Stop ==
  /\ spc \in {"listening", "idle", "failed"}
  /\ FreeMemory /\ vncTrueColors' = NoColors
  /\ spc' = "stopped"
  /\ UNCHANGED <<settings, clientTakes, encoder, formats, fbColorMapNeedsUpdate, ctSeed,
                 table, history>>

\* vncServerStart: the depth of the screen and the settings may be others now.
Start ==
  /\ spc = "stopped"
  /\ fbDepth' \in Depths /\ allowed' \in AllowSets
  /\ ctSeed' = -1
  /\ spc' = "listening"
  /\ UNCHANGED <<clientTakes, encoder, memory, formats, fbColorMapNeedsUpdate,
                 vncTrueColors, table, history>>

----------------------------------------------------------------------------
(* Messages of the client, at interrupt level.                               *)

InSession == spc \notin {"listening", "stopped", "failed"}

ClientEncoding(e) ==
  /\ InSession
  /\ clientTakes' = clientTakes \cup {e} /\ named' = named \cup {e}
  /\ UNCHANGED <<settings, encoder, memory, formats, colours, table, spc, asked, expected,
                 due, clientTable, inflating>>

\* A client in indices who asks for what it has is not mentioned to VNCPalette.
SetPixelFormat(f) ==
  /\ InSession
  /\ f.trueColor \/ ~OnTrueColor
  /\ asked' = f /\ expected' = expected \cup {f}
  /\ pendingPixFormat' = IF f.trueColor THEN f ELSE pendingPixFormat
  /\ "formatRace" \in Mishaps \/ spc # "clearing"
  /\ "backToIndexed" \in Mishaps \/ f.trueColor \/ ~asked.trueColor
  /\ "rawGrows" \in Mishaps \/ RawFits(f)
  /\ UNCHANGED <<settings, clientTakes, encoder, memory, fbPixFormat, colours, table, spc,
                 named, due, clientTable, inflating>>

----------------------------------------------------------------------------
(* The colour table of the screen.                                           *)

SetTable ==
  /\ table < MaxTables /\ ~OnTrueColor
  /\ "trueTable" \in Mishaps \/ (~fbPixFormat.trueColor /\ ~asked.trueColor)
  /\ table' = table + 1
  /\ UNCHANGED <<settings, clientTakes, encoder, memory, formats, colours, spc, history>>

\* The idle task of the palette. It is a step of the event loop, as the synchronised
\* tasks are, which do not pause for it.
CheckColorTable ==
  /\ spc \in {"idle", "sync", "send"}
  /\ ~OnTrueColor /\ table # ctSeed
  /\ fbColorMapNeedsUpdate' = TRUE
  /\ UNCHANGED <<settings, clientTakes, encoder, memory, formats, ctSeed, vncTrueColors,
                 table, spc, history>>

HasWaitingColorMapUpdate == fbColorMapNeedsUpdate /\ ~fbPixFormat.trueColor

\* A faulty variant: a format alone is not a change.
ChangesAreColours == HasWaitingColorMapUpdate

HasChangesPending == HasWaitingColorMapUpdate \/ pendingPixFormat # NoFormat

----------------------------------------------------------------------------
(* The start of a frame, at interrupt level.                                 *)

\* The first encoding in the order of VNCEncoder::begin; in true colour, Raw is sent
\* whether the client has named it or not.
Choice ==
  LET can(e) == e \in allowed /\ e \in clientTakes IN
  IF OnTrueColor THEN
    IF "Raw" \in allowed THEN "Raw" ELSE IF can("ZRLE") THEN "ZRLE" ELSE None
  ELSE IF can("TRLE") THEN "TRLE"
  ELSE IF can("Hextile") THEN "Hextile"
  ELSE IF can("ZRLE") THEN "ZRLE"
  ELSE IF can("Tight") THEN "Tight"
  ELSE IF can("Raw") /\ ~fbPixFormat.trueColor /\ fbDepth = 8 THEN "Raw" ELSE None

\* A faulty variant: an encoder that has changed is not left to the event loop.
BeginAtOnce ==
  /\ selectedEncoder' = Choice /\ lastSelectedEncoder' = Choice
  /\ spc' = IF \/ fbUpdateBufferSize = 0
               \/ HasChangesPending
            THEN "sync" ELSE "colormap"

\* VNCEncoder::begin, and what vncPrepareForFBUpdate makes of it: without an encoder
\* the answer is the one that means "later".
Begin ==
  /\ selectedEncoder' = Choice /\ lastSelectedEncoder' = Choice
  /\ spc' = IF \/ Choice = None
               \/ Choice # lastSelectedEncoder
               \/ fbUpdateBufferSize = 0
               \/ Choice \in {"ZRLE", "Tight"} /\ deflator = None
               \/ HasChangesPending
            THEN "sync" ELSE "colormap"

Prepare ==
  /\ spc = "idle"
  /\ "noEncoder" \in Mishaps \/ Choice # None
  /\ "tightKept" \in Mishaps \/ Choice # "Tight" \/ "Tight" \in named
  /\ \/ "tightThenZrle" \in Mishaps
     \/ ~(inflating /\ selectedEncoder = "Tight" /\ Choice = "ZRLE")
  /\ \/ "tightThenHextile" \in Mishaps
     \/ ~(inflating /\ selectedEncoder = "Tight" /\ Choice = "Hextile")
  /\ Begin
  /\ expected' = {asked}
  /\ due' = IF OnTrueColor THEN -1 ELSE IF fbColorMapNeedsUpdate THEN table ELSE ctSeed
  /\ UNCHANGED <<settings, clientTakes, memory, formats, colours, table, named, asked,
                 clientTable, inflating>>

----------------------------------------------------------------------------
(* The tasks of the event loop.                                              *)

\* minBufferSize() of the encoder. Without one the size is whatever was on the stack,
\* but never less than the small buffer.
MinBufferSize ==
  LET size == CASE selectedEncoder = "TRLE"    -> TrleBuffer
                [] selectedEncoder = "Hextile" -> HextileBuffer
                [] selectedEncoder = "ZRLE"    -> ZrleBuffer
                [] selectedEncoder = "Raw"     -> RowBytes(fbPixFormat)
                [] OTHER                       -> 0 IN
  Larger(size, SmallBuffer)

\* VNCEncoder::fbSyncTasks. A buffer of another size is freed, and the compressor with it.
EncoderTasks ==
  /\ spc = "sync"
  /\ LET other == fbUpdateBufferSize # MinBufferSize
         kept  == IF other /\ fbUpdateBufferSize # 0 THEN None ELSE deflator IN
     \/ /\ fbUpdateBufferSize' = MinBufferSize
        /\ deflator' = IF NeedsZLib THEN CompressSetup(kept) ELSE kept
        /\ spc' = "palette"
     \* No memory for the buffer: an error. None for the compressor: it is not told.
     \/ /\ "noMemory" \in Mishaps /\ other
        /\ FreeMemory /\ spc' = "failed"
     \/ /\ "noCompressor" \in Mishaps /\ NeedsZLib /\ kept = None
        /\ fbUpdateBufferSize' = MinBufferSize /\ deflator' = None
        /\ spc' = "palette"
  /\ UNCHANGED <<settings, clientTakes, encoder, formats, colours, table, history>>

\* VNCPalette::fbSyncTasks: the copy of the format that was asked for.
CopyFormat ==
  /\ spc = "palette"
  /\ fbPixFormat' = IF pendingPixFormat # NoFormat THEN pendingPixFormat ELSE fbPixFormat
  /\ spc' = IF pendingPixFormat # NoFormat THEN "clearing" ELSE "table"
  /\ UNCHANGED <<settings, clientTakes, encoder, memory, pendingPixFormat, colours, table,
                 history>>

\* Its removal, another statement.
ClearFormat ==
  /\ spc = "clearing"
  /\ pendingPixFormat' = NoFormat
  /\ fbColorMapNeedsUpdate' = IF OnTrueColor THEN fbColorMapNeedsUpdate ELSE TRUE
  /\ spc' = "table"
  /\ UNCHANGED <<settings, clientTakes, encoder, memory, fbPixFormat, ctSeed, vncTrueColors,
                 table, history>>

\* A faulty variant: the colours are only made when the format is another.
ReadColorTableOnce ==
  /\ spc = "table"
  /\ IF fbColorMapNeedsUpdate /\ ~OnTrueColor /\ vncTrueColors.format # fbPixFormat
     THEN /\ ctSeed' = table
          /\ vncTrueColors' = IF fbPixFormat.trueColor
                              THEN [seed |-> table, format |-> fbPixFormat] ELSE vncTrueColors
     ELSE UNCHANGED <<ctSeed, vncTrueColors>>
  /\ spc' = "colormap"
  /\ UNCHANGED <<settings, clientTakes, encoder, memory, formats, fbColorMapNeedsUpdate,
                 table, history>>

\* updateColorTable, for an indexed screen: the table is translated for a client in true
\* colour, or laid out in the buffer. Without a table of the right size it leaves the
\* colours as they were, a table that it has just reserved as it finds it, and goes on.
ReadColorTable ==
  /\ spc = "table"
  /\ \/ /\ IF fbColorMapNeedsUpdate /\ ~OnTrueColor
           THEN /\ ctSeed' = table
                /\ vncTrueColors' = IF fbPixFormat.trueColor
                                    THEN [seed |-> table, format |-> fbPixFormat]
                                    ELSE vncTrueColors
           ELSE UNCHANGED <<ctSeed, vncTrueColors>>
        /\ spc' = "colormap"
     \/ /\ "noMemory" \in Mishaps
        /\ fbColorMapNeedsUpdate /\ ~OnTrueColor /\ fbPixFormat.trueColor
        /\ vncTrueColors = NoColors
        /\ spc' = "failed" /\ UNCHANGED <<ctSeed, vncTrueColors>>
     \/ /\ "noTable" \in Mishaps
        /\ fbColorMapNeedsUpdate /\ ~OnTrueColor
        /\ vncTrueColors' = IF fbPixFormat.trueColor /\ vncTrueColors = NoColors
                            THEN Unfilled ELSE vncTrueColors
        /\ spc' = "colormap" /\ UNCHANGED ctSeed
  /\ UNCHANGED <<settings, clientTakes, encoder, memory, formats, fbColorMapNeedsUpdate,
                 table, history>>

----------------------------------------------------------------------------
(* The frame itself.                                                         *)

\* vncSendFBUpdateColorMap: the flag goes when a map was waiting.
SendColorMap ==
  /\ spc = "colormap"
  /\ IF HasWaitingColorMapUpdate
     THEN fbColorMapNeedsUpdate' = FALSE /\ clientTable' = ctSeed
     ELSE UNCHANGED <<fbColorMapNeedsUpdate, clientTable>>
  /\ spc' = "send"
  /\ UNCHANGED <<settings, clientTakes, encoder, memory, formats, ctSeed, vncTrueColors,
                 table, named, asked, expected, due, inflating>>

SendFrame ==
  /\ spc = "send"
  /\ IF NeedsZLib /\ deflator # None
     THEN deflator' = "used" /\ inflating' = TRUE ELSE UNCHANGED <<deflator, inflating>>
  /\ spc' = "idle"
  /\ UNCHANGED <<settings, clientTakes, encoder, fbUpdateBufferSize, formats, colours,
                 table, named, asked, expected, due, clientTable>>

AskedFormats == {Indexed(8)} \cup {TrueColor(b) : b \in TrueFormats}

SetupNext ==
  \/ NewSession \/ EndSession \/ Stop \/ Start
  \/ \E e \in ClientEncodings : ClientEncoding(e)
  \/ \E f \in AskedFormats : SetPixelFormat(f)
  \/ SetTable \/ CheckColorTable
  \/ Prepare
  \/ EncoderTasks \/ CopyFormat \/ ClearFormat \/ ReadColorTable
  \/ SendColorMap \/ SendFrame

SetupSpec == SetupInit /\ [][SetupNext]_svars

----------------------------------------------------------------------------
(* Properties, about a frame that is being sent.                             *)

Sending == spc = "send"

\* A frame is sent in an encoding that the settings allow and the client knows (or Raw,
\* which all know), with a buffer that is large enough for a unit of this encoding, and
\* with a compressor where the encoding needs one: whatever happened since begin() chose.
EncoderReady ==
  Sending =>
    /\ selectedEncoder \in allowed
    /\ selectedEncoder \in named \/ selectedEncoder = "Raw"
    /\ fbUpdateBufferSize >= MinBufferSize
    /\ NeedsZLib => deflator # None

\* A frame has the pixel format that the client had asked for when it began, or one it
\* has asked for since. The last format that was asked for is installed or waits.
FormatFollowed ==
  /\ Sending => fbPixFormat \in expected
  /\ InSession => asked \in {fbPixFormat, pendingPixFormat}

\* On an indexed screen the client decodes with a colour table not older than the one
\* that was known when the frame began: it was sent the table, or its pixels are made
\* of it in the format of this frame.
ColoursCurrent ==
  Sending /\ ~OnTrueColor =>
    IF fbPixFormat.trueColor
    THEN vncTrueColors.seed >= due /\ vncTrueColors.format = fbPixFormat
    ELSE clientTable >= due /\ clientTable >= 0

\* The data of ZRLE and Tight are one compressed stream for each session: the first
\* that a client gets starts one, and what follows continues it.
StreamPerSession ==
  Sending /\ NeedsZLib /\ deflator # None => (deflator = "used" <=> inflating)
=============================================================================
