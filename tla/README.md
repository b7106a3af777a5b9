# MiniVNC: a TLA+ model of the server

MiniVNC serves the screen of a classic Macintosh over VNC (RFB 3.3/3.7). It has no
threads. Everything happens in one of three places that share all globals:

- the **event loop** of `main.cpp` (lines 246-290), which calls the idle tasks;
- **MacTCP completion routines**, at interrupt level: each asynchronous call on a
  parameter block (`epb_recv`, `epb_send`) names the routine that runs when it is
  complete (`tcp.then`), which usually starts the next call; such a chain takes the
  place of a thread;
- the **vertical retrace task** `VNCScreenHash::myVBLTask`, at interrupt level.

An interrupt may come between any two steps of the event loop. Paths below are
relative to `src/mac-cpp-source/`.

## Inventory

| Component | State | Operations | Hard behaviour | What makes it correct |
|---|---|---|---|---|
| Update pipeline (`VNCServer.cpp` 811-1245) | `vncFlags`, `epb_send`, `myWDS`, `vncServerMessage`, `fbUpdateRect`, `runFBSyncedTasks` | client messages, start of a frame, chunks, end of a frame, replies | shared by all three actors; one lock bit; a send record that must not be reused | one driver per frame, no interleaving on the wire, no request forgotten, every request answered |
| Message pump (`VNCServer.cpp` 552-823, `VNCStreamReader`) | `myRDS`, `inStream`, `vncClientMessage`, `resumeReadAt`, `resumeWriteAt` | cut the stream into messages, defer to the event loop, resume | messages over several buffers and receives, in place or copied, at either level | each message handled once, whole and in order |
| Session (`VNCServer.cpp` 169-550, `main.cpp` 321-355, 818-828) | `vncState`, `vncError`, `stream`, `forceVNCAuth` | start, listen, handshake, run, fail, restart, stop | errors on either chain, restart after a disconnect, stop while calls are outstanding | an error leads to a stop or to listening again; a stop is not undone |
| Screen hash (`VNCScreenHash.cpp`) | `callback`, `row`, `dirtyRect`, hash arrays | `requestDirtyRect`, `myVBLTask`, `computeDirty`, sums of a line in three routines | a sweep over several interrupts; a change spread over sweeps; a busy callback; sums by longs and by words | no change of the screen is forgotten; the sums see a changed word |
| Encoder selection (`VNCEncoder.cpp`) | `selectedEncoder`, `lastSelectedEncoder`, `fbUpdateBuffer`, `zLibLoaded` | `begin`, `fbSyncTasks`, `compressSetup`, `compressReset` | chosen at interrupt level, allocated by the event loop, while the client names other encodings | what is sent has its buffer, its compressor and its colours |
| Frames and tiles (`VNCServer.cpp` 1047-1245, `VNCEncoder.cpp` 348-545) | `fbUpdateRect`, the subrectangle, `tile_x`, `tile_y` | alignment, header, tiles, chunks | split over any number of chunks, subrectangles that are announced before they are encoded | the client reads what the header says, each pixel once |
| Palette (`VNCPalette*.cpp`) | `fbPixFormat`, `pendingPixFormat`, `ctSeed`, tables, sizes of a colour | pending format, table update, colour map message, translation | set by interrupts, used by the event loop and by frames; sizes that one encoder leaves to the next | format, table and sizes agree with what the client was told |
| zlib (`VNCEncoderZLib.cpp`, miniz) | the stream, read and write position in one buffer; dictionary, hash chains, code buffer, Huffman tables | `getCompressedChunk`, `tdefl_compress` | compression in place; output that is held back; a dictionary that is written round and round | output never overtakes input; what is inflated is what was compressed |
| Tile encoders (`VNCEncodeTRLE.cpp`, `VNCEncodeHextile.cpp`, `VNCEncodeTRLEMono.cpp`, `VNCEncodeTiles*.cpp`) | `lastInfo`, `lastTile`, `lastBg`, `lastFg`, colour map | choice of a form, palettes that are used again, runs, rectangles, packed pixels | both sides must forget together; twins in C and in 68000 assembly | what is decoded is what was on the screen |
| Cursor (`VNCEncodeCursor.cpp`) | the last cursor, hidden or not | `idleTask`, `needsUpdate`, `getChunk` | low-memory globals | a cursor on the wire has its size; a pointer is hidden only while it is moved |
| TightVNC files (`TightVNCSupport.cpp`) | `TightVNCFileUploadData` in `vncClientMessage`, `fbUpdateBuffer` | list, upload, start, end | a message that spans many receives, over data and a buffer that others use | the file is the bytes of the client; a list is whole |
| Debug log (`DebugLog.cpp`) | a ring | `dprintf` at interrupt level and in the event loop, output by the event loop | writers that interrupt each other and the reader | lines come out whole, once, in order |
| Telemetry (`metrics.c`, `statsd.c`) | counters, one endpoint | count, tick, send, log | reset after reading; an error that a datagram leaves for the next | what happened is told once |
| Keyboard (`libs/ChromiVNC/VNCKeyboard.cpp`) | modifiers, key map | key down, key up | Ctrl and Alt for Cmd; modifiers in any order | applications see the keys that are held |
| Console and configuration (`main.cpp`, `VNCConfig.cpp`, `VNCFrameBuffer.cpp`) | `vncConfig`, the preferences file, windows, screen geometry | launch, quit, start, stop, click, save | settings that a screen turns off; server states that change at interrupt level | the server does what the user chose, also after a launch |

The interactions: the pump dispatches messages to the pipeline; the pipeline asks the
screen hash for a dirty rectangle and is called back by it; it asks the encoder to
begin, and leaves memory and colour tables to the event loop (`runFBSyncedTasks`);
the event loop resumes the pump for messages that need the Toolbox (`resumeReadAt`);
replies go out on the send chain and resume the receive chain when they are sent
(`tcpFinishMultiPartMessage`); the session starts both chains and ends them. A frame asks
the encoder for chunks, the encoder asks for tiles, and a tile is translated by the
palette, compressed by miniz, or both; the retrace task, the pump and the frames all
count into the telemetry and log into the ring, which the event loop empties.

The hazards that follow from this are listed in `PROJECT.json`, each at its line, with
the properties that watch it, or the reason why none does. What a run leaves out because the
code is not made for it stands in the note of its hazard, with the constant that admits it and
the property that then fails.

## Modules

| Module | What it is |
|---|---|
| `UpdatePipeline` | the pipeline, with its properties and, at the front, faulty variants of some actions |
| `UpdatePipelineInv` | the inductive invariant `IInv` |
| `UpdatePipelineTurboInv` | the inductive invariants `TurboInv`, `SingleInv` for TurboVNC clients |
| `UpdatePipeline_proofs` | the theorems |
| `MCUpdatePipeline` | the batches of messages for TLC |
| `MessagePump` | the pump over any division of the byte stream |
| `MessageService` | what the rest of the server expects of the pump |
| `MCMessagePump` | a script of messages, and the deliveries the pump is made for |
| `MessagePump_proofs` | the refinement of `MessageService`, and what no delivery leaves behind |
| `ScreenHash` | the detection of changes, with drawing and frames around it |
| `ScreenHash_proofs` | the theorems about it and `ScreenSums` |
| `Session` | start, handshake, sessions, failure, stop, quit |
| `Session_proofs` | the theorems about it |
| `InPlaceDeflate` | the positions of compression in place |
| `FrameTiles` | the rectangle, the tiles and the chunks of frames, over `InPlaceDeflate` |
| `FrameTiles_proofs` | the theorems about the positions and the alignment, and that a frame is what it announces |
| `EncoderSetup` | what must be in place before a frame is sent |
| `EncoderSetup_proofs` | the theorems about it, and about `WirePixels` |
| `WirePixels` | how a colour becomes bytes, and which sizes the encoders leave to each other |
| `NativeTiles` | the routines on tiles in C: colours, runs, packed pixels |
| `NativeTilesAsm` | the same in assembly, as a machine, against those in C |
| `Tiles_proofs` | the theorems that they write the same, and that a client of `HextileEncoder` sees the tiles |
| `TileEncoder` | TRLE and the tiles of ZRLE: the form of a tile, the palette that is used again |
| `HextileEncoder` | Hextile: rectangles, background and foreground |
| `MonoTiles` | TRLE on a black and white Macintosh, in C++ and in assembly |
| `HuffmanBlocks` | the blocks of miniz, their code tables, and a client that inflates them |
| `Deflate` | the compressor of miniz over `HuffmanBlocks` |
| `ScreenSums` | the three routines that add up a line of the screen |
| `Keyboard`, `DebugLog`, `Telemetry`, `Console` | the components of these names |
| `TightFiles` | lists and uploads of a TightVNC client |
| `Parts_proofs` | the theorems about `Keyboard`, `MonoTiles`, `Console`, `Telemetry`, `DebugLog` and `TightFiles` |
| `MCTiles`, `MCWire` | the data of the tile encoders and of the formats, for two runs of their own |
| `MCParts` | these components side by side, each alone, with their data |

A *faulty variant* is an action with one bug that the code does not have (a lock that
is not looked at, a mark that is not cleared). No specification uses it; put in the
place of the action, it shows that a property would notice.

### UpdatePipeline

`pc[c]` is the function that context `c` is about to run, `ret[c]` where it goes on
after a call that is not a tail call. A step of `"main"` needs an idle interrupt level
(`At`), so an interrupt runs to its end between two steps of the event loop, and the
event loop never runs between two steps of an interrupt. Functions that read shared
state and act on it later are split where an interrupt may come: the request is
decided in `AcceptRequest` and done in `SetPending` or `SetUpdateRect`;
`vncPrepareForFBUpdate` takes the lock in one step and `begin()` is the next.

`out[pb]` counts the calls of a parameter block that are not complete, `then[pb]` is
`ourCompletion`. The code sets `ourCompletion` without looking whether a call is
outstanding, and so does `Post`. `flags` collects the Booleans of the code, and three
facts: `closing` and `seedStale` of the environment, `owed` of the history (a request
was accepted that no header of a frame has followed). `wire` is history: whether the
stream to the client stands between messages, in a frame, or is `"broken"`.

Abstracted: rectangles, pixels, the number of chunks (any), what encodings are chosen
(`encoderChanged` is any value after `SetEncodings`), the content of the messages. Failing
calls: any send or receive may fail when `NetworkFails`; the memory for the buffer or the
palette may be missing in the event loop's tasks. `VInstall` is taken to succeed.
`SetPixelFormat` has the formats that the screen can be converted to; with another one the code
only sets `VNC_ERROR` and goes on with the batch, as it does after an invalid message, and
`"bad"` stands for both. After `vncServerStop` only the states are followed, and what it
destroys is not: further sessions are the matter of `Session`.

### MessagePump

A byte is its offset in what the client sends. `Deliver` lends any number of bytes, cut into
buffers in any way; the other actions are the pieces of `processMessageFragments` between its
labels. `Copy` is `StreamReader::copyTo`, which leaves its loop before it looks at the next
buffer. The sizes of the messages are small numbers of the same kind as those of `VNCTypes.h`: a
fixed one, a head with a length, a head with a count. After its last encoding a client that
takes fences or continuous updates is answered, and whether it does is left open (`MayReturn`).
The count of a SetEncodings is at least one, and a size is what the code takes for it (see the
hazard on `sizeof(fence)`). An unknown message ends the model of the session (`"error"`).

### ScreenHash

`screen` is what the applications have drawn, a long for each cell; `shown` is the
picture of the client, which is history: no variable of the program holds it. A step of
`ComputeHashes` is one retrace interrupt, which adds up `RowChunk` rows; drawing happens
between any two steps. `Report` is the end of a sweep that found dirt before: it calls
`vncGotDirtyRect`, whose two tests are in its guard, and forfeits the rectangle either
way. The task leaves its queue when `vblCount` stays 0 (`queued`). A frame sends its
rectangle from top to bottom, a row at a time, as the row is at that moment.

Abstracted: the width of a sum is `HashMod`, pixels per long is one, encodings are absent,
alignment and clipping of the rectangle too (they enlarge it). Sums can cancel: with
`Erases = TRUE` a picture that moves straight up leaves every column as it was, and
`NoChangeForgotten` fails at once. That is a limit of the method, listed as a hazard; the
runs let longs only grow, which makes the sums tell all changes, so that they ask whether
*the order of things* loses one.

### Session

`out` is the set of calls outstanding on `epb_recv`, `then` its `ourCompletion`; the
routine that `then` names runs when a call is complete (`RecvCompleted`), so that
`vncServerStop`, which writes `then` and posts a release while another call is
outstanding, changes what *that* call does when it completes. `sends` counts the calls on
`epb_send`. `main` is the place of the event loop; `lastState` is the static of
`CheckServerState`. The six routines of the handshake that only make the next call are
one action over the table `Steps`. A frame is one send: that there is more of it changes
nothing here.

External, and modelled from how the code uses it: an abort or a release ends the other
calls of the stream first, with `connectionTerminated`, and the event loop sees none of
it half done; a call without a connection fails with an error the code knows no name for.
What may happen beside that is switched on by `Mishaps`: the network (`terminated`), the
client (`badAuth`, `badMessage`, `tightAuth`), the memory (`noMemory`), and three orders of
events the code is not made for (`lateTasks`, `quitStarting`, `hastyStart`). A release
always completes: the limit of ten seconds in `vncServerStop` is not modelled, nor what it
destroys.

### InPlaceDeflate, FrameTiles

`InPlaceDeflate` has the one buffer of `getCompressedChunk`: compressed bytes at the front,
the next tile `zLibScratchSpace` bytes further on, and only the positions of both. Of miniz
it has what moves them: how much is taken in, how much is `held` back, how much that was
coded is `remaining` for the next call, and that a block may be longer than what it stands
for. `FrameTiles` EXTENDS it and runs it for ZRLE; for the other encodings a chunk is filled
tile by tile (line by line for Raw). `askedRect` and `sent` are history: the rectangle that
was asked for, and each announced rectangle with the tiles that followed it, as the client
decodes them. `Expected` is the client's reading: tiles in rows from the corner. A request may
go past the edge of the screen; only if it is wider than the screen, once it is aligned, does
`fbUpdateRect.x = fbWidth - w` wrap, and this is left out (`AskedFits`).

An error within a frame does not end it. A tile or a chunk for which there is no room is
left out, a chunk whose length passes 16 bits is sent empty or cut short (`TooMuch`,
`EntryLength`), and the send chain goes on to the last chunk, also when the server is no longer
running (`running`); the event loop is what ends the session. Such a frame is marked
(`tooLong`), and `FrameAsAnnounced` speaks of the others.

Two predicates are stated and not run, because they do not hold. `NoEmptyFrame`: a request
that came during a frame is answered with the rectangle that the last chunk has set to
0x0. `NothingLeftBehind`: where miniz still has coded bytes to give out, a call does only that and
takes nothing in; if room remains after the last call of a subrectangle, the loop
reports success, and what was left of the tile is never compressed.

### EncoderSetup

Who chooses and when: `Begin` at interrupt level, the steps of `fbSyncTasks` in the event
loop one by one, `SetPixelFormat` and `SetEncodings` between any two of them. `clientTakes`
are the encodings named so far, `pendingPixFormat` the format that waits, `deflator` the life
of the compressor; `expected`, `due`, `clientTable` and `inflating` are history, the formats
and tables that the client may decode with, and whether it has a stream to go on with.
`int` has four bytes in `setTrueColor`, as in both builds of the repository.

What `Mishaps` admits, each by itself: a frame for which no encoding is both allowed and
known (`noEncoder`) or that goes out in Tight to a client that has not named it
(`tightKept`); a format in which a row of Raw is longer than the buffer that was made for the
format before (`rawGrows`; `RawFits` says when it is not);
a client that had true colour and wants indices (`backToIndexed`), a format between two
steps of `fbSyncTasks` (`formatRace`), a table that changes for a client in true colour
(`trueTable`), a screen without a table of colours or with one of another size (`noTable`:
what was there stays, a table just reserved is not filled, and the frame goes on);
a client that was sent Tight and is found to know ZRLE (`tightThenZrle`)
or Hextile (`tightThenHextile`: its buffer has the size of Tight's, so the compressor is
kept); and a lack of memory, of which `noMemory` breaks nothing.

### WirePixels

`bytesPerColor` and the routines of a colour are set by `setupPIXEL` and `setupCPIXEL` and
used by whoever comes next; an action is a cursor, a tile, a row of Raw, or a change of
format. `WireDecoded` knows only the client's own format and the kind of data. A CPIXEL has three
bytes when the colour bits of the format are exactly 0x00FFFFFF, which is what the code
tests; the fourth byte of a native long is 0. The formats that a client may ask for are such
that this test and the protocol agree (`Ordinary`): a channel has up to eight bits, channels
do not overlap, and in a long they fill the low 24 bits. With fewer bits of colour in a long
the code would send four bytes where the protocol has three. `MCWire` assumes `Ordinary` of
its formats, so that TLC tests it of them.

### NativeTiles, NativeTilesAsm, TileEncoder, HextileEncoder, MonoTiles

A tile is the sequence of its pixels. `NativeTiles` has the C routines as they are: the loop
over words with the run, the carry and the count that starts one below zero. The loop of
`nativeToRle` in assembly is a machine of its own, a label to an action; the colours and the
packed pixels of the assembly are operators, compared on the same tiles. Its counter of
colours has seven bits: on the CodeWarrior build a tile of 129 colours is taken for a tile
of one. (`TwinsAgree` fails if `RleJobs` has such a tile; the run has none.)

`TileEncoder` is `encodeTile`: `Plan` computes the length of each form and chooses, `Wire`
writes it, `LastInfo` is what the encoder remembers, `NextPalette` what the client has.
`OddTiles` admits tiles with every colour of the screen (`"allColors"`, which `tile_palette`
does), with more colours than a palette has (`"manyColors"`), and, on a screen of several bits,
with half a long at the end and colour 0 as the last (`"zeroEnd"`: `nativeToRle` takes the
padding into the last run, and takes off 16 pixels again, the padding of a 1-bit screen).
`RoomChecked`, which is not run, says that the room that was made sure of is the room that is
needed; it does not hold where a colour has several bytes. `HextileEncoder` covers a tile by
rectangles that are merged with those above (`top`), leaves out the most frequent colour, and
keeps `lastBg` and `lastFg`; `MonoTiles` has `lastTile` of the assembly and the C++ routine
without a memory. In each, the client is an operator on what was written, with a state that only
the stream changes.

### HuffmanBlocks, Deflate

`Deflate` is `tdefl_compress` as the server calls it: the dictionary of `DictSize` bytes and its
mirror, `hash` and `next` (never cleared: what was in the memory is taken to be the highest
position), `find_match` with its probes, the lazy and the greedy parser, the code buffer, and
when a block is flushed. `HuffmanBlocks` makes a block of codes: counts, the code sizes of
Moffat and Katajainen, the limit on sizes, canonical codes, the run-length code of the sizes,
and a static or raw block where that is shorter. `DataInflated` inflates every block by the
format alone. Abstracted: the hash adds where the code shifts and exclusive-ors; the zlib header
and checksum; the room for output (that is `InPlaceDeflate`). Of `find_match` and
`compress_lz_codes` the portable variants are modelled, which a big-endian machine compiles.
`RECURSIVE` operators occur here and nowhere in a module with a theorem.

### ScreenSums

Two sweeps over a screen of words, one word or a stretch of them changed in between, by
`computeHashes` (C) or `computeHashesFast` (assembly, which takes what is left of a line word
by word, with the sign extended in the row and without a carry in the column). The sums of
`computeHashesFastest` are compared with these where a line has whole longs; the build that
runs it (`TEST_HASH`) never clears its rows, so the comparison starts from nothing. The
special case of lines 512 pixels wide is the one of whole longs. Base 4 stands for 2^16, two
longs at a time for four.

### Keyboard, DebugLog, Telemetry

`Keyboard` has the map at 0x174, the columns of the table of keys, and the rule that Ctrl
and Alt without Cmd stand for Cmd. A layout has characters for the keys that `Setup` looks at
(`CharKeys`), which are not modifiers. What `KeyMishaps` admits breaks `KeysAsHeld`: two keysyms
of one key held together (`sharedKey`: the first release lets go of both), and a session
that ends with keys down (`leftHeld`: nobody releases them).

`DebugLog` copies a line character by character in the event loop, and at once at interrupt
level; an interrupt may come between a character and its place. `LogMishaps` admits a
line without room for it (`fullRing`: a full ring looks empty, and its lines are lost) and an
interrupt within a copy (`brokenLine`: two lines are mixed).

`Telemetry` takes `metrics_tick` step by step, one counter after the other. A frame takes one
unit of time; whether a second has passed is open; the buffer of 256 bytes is never full. A
datagram may find errors of others (several may wait, or one stand for the next), of which each
attempt takes away one, or no room (`kOTFlowErr`, which is only counted). `missed` is history:
what came between the reading and the resetting of its own counter, or was not sent or heard. It
excuses a hazard of the code, which is listed as such. `AverageIsATime` does not hold and is not
run: a frame between the resets of the sum and of the count (`metrics.c` 79-80) leaves its time
in the sum.

### Console

Launches, settings and windows. The states of the handshake are one, `"WAITING"`; an error has a
number or not, which is all that `CheckServerState` looks at. The preferences file has the
settings of the last quit that was saved, none, or those of another version, which a launch
removes. A save begins when the loop is left (`Leave`) and ends when the file is closed
(`Saved`); in between the machine may crash, and the file or a resource may be refused
(`SaveFails`). A file that cannot be opened at a launch is not modelled. `choices` is history:
what the user last saw in the boxes, and what a screen turned off since. `autoRestart` is left
out of `ChoicesKept`, because the headless build sets it at every launch. The options window is
closed at launch; a screen of an unsupported depth ends the program and is not modelled.

Four predicates are stated and not run, because they do not hold: `BoxesTellTheTruth` (while
a session runs, an encoding that the client does not take shows no tick, and in true colour
the box of Raw may be clicked nevertheless), `StartableAgain`
(a stop after synchronised tasks that failed, `main.cpp` 285, enables neither the button nor
the menu item), `CaptureAgrees` (base address and row length follow the monitor at once,
the depth only when the server starts), `PointerSeen` (a pointer that is hidden when the
setting is turned off stays hidden; and as `VNCEncodeCursor.cpp` 107-108 compares one
coordinate twice, it is not shown when the user moves it straight down).

### TightFiles

A request and any other message is one unit of the stream, a byte of a file is one too.
`rds` is what is left of the receive buffers; `Block`, its first, is all that
`getDataBlock` gives and `finished` knows of. `place` is where the receive chain is, or the
event loop that has taken over: requests are `"deferred"`, the list and the upload go on at
interrupt level. `written`, `listed` and `announced` are history. What `FileMishaps` admits
breaks `TransfersWhole`, each by itself: data in two buffers (`severalBlocks`: the second
is returned unread), a long message that is put together over the upload's file number
(`longFragment`: they share a union), a frame under way when the reply of an upload is sent
or before the first piece of a list is ready (`frameMeetsReply`: the reply clears the lock of
the frame; the list uses its buffer), a file that disappears
(`directoryChanges`: the list never ends). An upload whose last byte ends a receive is
answered only when the client sends something else; no property asks for that answer.
An empty chunk is answered at once. The comment of `tightVNCFileUploadData` says that a modification
time follows it; the code does not read one, and the client of the model sends none.


## Runs

| Run | Configuration | What it asks |
|---|---|---|
| `pipeline` | `UpdatePipeline.cfg` | the send record, the frames on the wire, the owner of the receive buffers, and the invariant of the proofs, for a client without the TurboVNC extensions; the network may fail, the client may close |
| `pipeline_live` | `UpdatePipelineLive.cfg` | every request is answered, every batch worked off |
| `turbo` | `UpdatePipelineTurbo.cfg` | a TurboVNC client: fences, continuous updates |
| `turbo_off` | `UpdatePipelineOff.cfg` | **violated**: switching continuous updates off in place is handled for ever |
| `pump` | `MessagePump.cfg` | the pump implements `MessageService` under the deliveries it is made for |
| `pump_straddle` | `MessagePumpStraddle.cfg` | **violated**: a deferred message over two receives is resumed in its middle |
| `screen_hash` | `ScreenHash.cfg` | no change is forgotten, the picture of the client catches up |
| `session` | `Session.cfg` | any number of sessions and stops: the server is never deaf, a stop is not undone, a session settles, a failure and a quit are followed to their end |
| `session_listen` | `SessionListen.cfg` | **violated**: a client that closes during a frame stops the server in headless mode |
| `parts` | `Parts.cfg` | fourteen smaller components, each alone: what a client decodes is what was on the screen, and what was counted, logged, pressed, chosen or uploaded arrives |
| `tile_palette` | `TilePalette.cfg` | **violated**: a tile with all colours of the screen leaves a stale palette, which a later tile is told to use |
| `wire_cpixel` | `WireCpixel.cfg` | **violated**: in true colour, a tile that follows a cursor has the wrong size |

`parts` chooses a component in its initial states and runs it; the others stay in one of
their first states. Its properties, by component:

| Property | Module | In short |
|---|---|---|
| `FrameAsAnnounced`, `AlignedCovers` | `FrameTiles` | headers, tiles and rectangle agree; alignment loses nothing |
| `OutputBehindInput` | `InPlaceDeflate` | compressed bytes are not written over bytes that were not read (proved) |
| `EncoderReady`, `FormatFollowed`, `ColoursCurrent`, `StreamPerSession` | `EncoderSetup` | buffer, compressor, format, colours and zlib stream fit the frame that is sent |
| `WireDecoded` | `WirePixels` | as many pixels as there are, in the colours of the screen |
| `PixelsDecoded`, `HextileDecoded`, `MonoDecoded` | the tile encoders | the client sees the tile that is on the screen |
| `TwinsAgree` | `NativeTilesAsm` | assembly and C write the same |
| `DataInflated` | `Deflate` | what is inflated is what was compressed, all of it after a flush |
| `SumsNotice` | `ScreenSums` | equal pictures have equal sums, one changed word changes them |
| `KeysAsHeld` | `Keyboard` | applications see the keys that are held |
| `LinesInOrder` | `DebugLog` | lines come out whole, once, in order |
| `ToldOnce` | `Telemetry` | what happened is told once, or lost in one of the ways that are named |
| `ChoicesKept` | `Console` | the server does what the user chose, over launches |
| `TransfersWhole` | `TightFiles` | a file is the bytes of the client, a list is whole |

More disagreements between the code and what it should do are reached by a constant, without
a run of their own:

| Change | Fails | Because |
|---|---|---|
| `pump` with the invariant | `NoFullMessageWaits` | a fragmented message whose last byte ends a receive is not handled until more comes (`VNCServer.cpp` 731) |
| `pump` with `Spec` for `OrderlySpec` | `OnlyLastMessageWaits` | a buffer that ends where the reader stops hides the next (`VNCStreamReader.cpp` 66) |
| `ScreenHash`: `FullFrameWhile` with states of a sweep | `NoChangeForgotten` | a full frame while a sweep is under way loses what the sweep finds |
| `session` with the invariant | `ChallengeAsDecided` | a client of RFB 3.3 gets a challenge where no authentication was decided |
| `WirePixels`: `WireScreens = {8}`, `WireMishaps = {"rawIndexed"}` | `WireDecoded` | Raw is chosen for indexed screens (`VNCEncoder.cpp` 115-116), and reads their pixels as longs (`VNCPaletteTrueColor.cpp` 176-181) |
| `EncoderSetup`: a member of `AllMishaps` but `"noMemory"` | one of its four properties | see the names there |

### Bounds

`MaxOutstanding = 2` calls on a parameter block: the properties ask for at most
one, so two is enough to see one too many. A batch is one of a few sequences of at
most three messages; together they hold every kind of message, the pairs whose order
matters (a format before a request, a request behind a request, a message for the event
loop behind one for interrupts, something behind an unknown message), and a session
receives any number of batches. The script of the pump has seven messages and 27 bytes,
three buffers at a time: every message is cut at each of its bytes, and buffers of one
byte, whole messages and several messages in a buffer all occur. `BufferSize = 5` has room in
`vncClientMessage` for the first cut text and not for the second, so that a text is put
together from pieces and the failure occurs too; `pump_straddle` has room for both.

The screen of `screen_hash` has three rows of two longs, two rows to a chunk: a full
chunk and a short one, a change in a row that was added up and in one that was not, and
rectangles that grow over sweeps; eight values of a sum are more than six longs add up to,
and the sums start as whatever was in memory. In `session`, `MaxSends = 2` is one more than
`BlockHasOneCall` allows; sessions, stops and starts are not counted.

In `parts`:

- Frames: a screen of 7 by 5, tiles of 2, subrectangles of 4: several of each, cut at the right
  and at the bottom; requests of one pixel, from odd columns, up to the edge and past it, and as
  wide as the screen once aligned. A buffer of 8 holds several tiles or one, and miniz holds
  back up to 6 bytes.
- `EncoderSetup`: `MaxTables = 1` change of the table, five encodings to name, three sets of
  allowed ones; sessions are not counted. The sizes of buffer differ where the code's do, so
  that one encoder's is too small for another's; a row of `FbWidth = 6` pixels fits the
  smallest buffer in 8 and 16 bits and not in 32.
- Colours: every value of a channel of five bits and every eighth of one of eight, in seven
  formats. Tiles of 1, 2 and 8 bits with runs that end within a word, at its end and behind it,
  with half a long at the end, with up to three of four colours and up to sixteen of 256; for
  Hextile also one that is sent raw, and tiles after it.
- Deflate: a dictionary of 16, positions modulo 32, 39 bytes: what is compressed goes
  round both. A limit of 3 bits on code sizes is exceeded by the counts of one of the inputs.
- `MaxLogged = 5` lines in a ring of 6 characters wrap it. `MaxEvents = 2` for each counter and
  `MaxSent = 3` datagrams: one before, within and after a tick. `MaxClicks = 1` click for
  `MaxLaunches = 2` launches (once checked with 2 and 3).
- Files: a list of three pieces, an upload of three requests, one of them empty, that is cut at
  every byte, a list after it; `MaxOthers = 2` messages between.

Deadlock is not checked for the pump (the client may have nothing more to say, and a
session may end in error), for `Session` (the program may end), nor for `parts` (a
component is at its end when its data is used up).

### Assumptions on the environment

None of these is enforced by the code.

- `PlainBatches`: no batch holds an update request *behind* a message for the event
  loop. `vncFBUpdateRequest` would then run on the event loop, where a retrace may come
  between its look at `fbUpdateInProgress` (line 1007) and what it does next; the frame
  would have two drivers. The same client at any other time is covered.
- `Timely` (TurboVNC runs only): an answer is sent before anything else happens, a
  message arrives between frames, no retrace interrupts the handling of a message. The
  fence at the end of a frame is sent without the lock, so without this every property
  fails. What `turbo` and the theorems about
  TurboVNC clients show is that nothing *else* goes wrong.
- `OrderlyBatch` (`pump`): a buffer that has a successor does not end where the reader
  stops; a receive does not end within a message for the event loop, nor with one that has
  to be put together from pieces; and a message that is answered does not lie in one buffer.
  `pump_straddle` and `turbo_off` show what happens otherwise. Where a buffer does end there,
  `StreamReader` believes that nothing follows, and the buffers after it are given back
  unread; where a receive ends with a cut text that is in pieces, the text is looked at only
  with the next receive, and the event loop is then sent to the first byte of the message
  after it: the text is lost.
- `screen_hash`: the first frame of a session is a full one, as viewers ask for it, and
  `FullFrameWhile = {"idle"}`: a full frame does not begin while the retrace
  task is at work, neither within a session nor for the next client after one that left
  while it waited.
- `session`: a client does not connect while a frame of the last session still waits or is
  being sent (`lateTasks`; the copy of `epb_recv` would overwrite an `epb_send` in use), the
  user does not quit before the stream is created (`quitStarting`; the event loop would not
  end), nor start while the release is under way (`hastyStart`), and nobody chooses Tight
  authentication where it is not offered (`tightAuth`; the server would be deaf).
- `parts`: `Mishaps = {"noMemory"}`, and no other mishap of `EncoderSetup`, `WirePixels`,
  `Keyboard`, `DebugLog` and `TightFiles`, nor odd tiles. Each constant names what it leaves out;
  the sections above say what then goes wrong.
- `AskedFits`: no request is wider than the screen once it is aligned.
- `Ordinary`: a client asks for a format of channels of up to eight bits beside each other,
  which in a long are the low 24 bits (see `WirePixels`).

### Fairness

`pipeline_live` and `turbo_off`: an interrupt routine runs to its end (weak
fairness of `Interrupt`). The event loop gets time between interrupts, again and again
(strong fairness of `MainLoop`: an interrupt disables it for a while). MacTCP completes
what it was given (strong fairness of `SendCompleted` and `ReadMessages`; a new message
from the client is never promised). A frame has a last chunk (strong fairness of
`SendLastChunk`: the rectangle is finite). The retrace task keeps running and the screen
keeps changing (strong fairness of `GotDirtyRect`): an incremental request on a still
screen has no answer, by intention.

In `screen_hash` the retrace task runs as long as it is queued, a frame goes on, and a
client that has a frame asks for the next one (weak fairness of each); drawing may go on
for ever. In `session` and `session_listen` MacTCP completes what can complete (weak
fairness of `RecvCompletes` and `SendCompletes`) and the event loop goes round again and
again (strong fairness of `EventLoop`); nothing is promised of the user and the client.
`parts` has safety properties only.

Two properties have an escape on purpose. `SessionSettles` allows a failure that
`CheckServerState` does not notice (no code, or the state was already `VNC_ERROR` when it
was last looked at), `QuitEnds` a send that fails after the stop and overwrites
`VNC_STOPPED`. Both are hazards of the code, at lines 613 and 285 of `VNCServer.cpp`, which no property
covers.

## What is proved

`UpdatePipeline_proofs` proves for all values of the constants:

- `TypeCorrect`: `Spec => []TypeOK`, with no further assumption;
- `Invariance`: `PlainClient => (Spec => []IInv)`, and from it the six safety theorems
  `SendRecordSafe`, `FramesSafe`, `FrameDriverUnique`, `SyncTasksSafe`, `RequestsSafe`,
  `StreamSafe`. `PlainClient` says of *every* batch that it has no TurboVNC message and
  no request behind a message for the event loop; batches may be of any length and
  number, and the settings, the failures and the bound on calls are arbitrary.

None of the safety properties is inductive. `FrameHasOneDriver`, say, only holds at the
next step if the code that is about to start a frame still sees the lock free, which it
checked some steps before; this is true because that code runs at interrupt level only
(`PlainInv`, which is where `PlainClient` is used), because a batch is worked off by one
actor at a time (`BatchInv`), and because of `LockInv`: each of four things that can
carry a frame excludes the others and implies `fbUpdateInProgress`. `WireInv` says for
each of them where the stream stands. `OwedInv` is `NoRequestForgotten` strengthened:
while a frame is in progress the callback of the retrace task does *not* count as a
memory of the request, since `myVBLTask` forgets it when it finds the lock taken.
`TypeStep`, `BatchStep`, `LockStep` and `OwedStep` each treat all 47 actions; the facts
about sequences are lemmas of their own before them.

For a TurboVNC client the pipeline needs the timing `Timely`, and two conditions on a batch
(`TurboBatch`): behind a message that may start a frame (a request, the start of continuous
updates) comes none that may be answered, for the answer would fall into the frame; and behind
a message that the event loop keeps (cut text, the start of continuous updates) comes no
request, as for other clients. Under these (`TurboClient`) `TurboInvariance` says that
`TurboInv` is an invariant, whatever fails, and from it follow `TurboSendRecord`,
`TurboFrames`, `TurboSyncTasks`, `TurboRequests`, `ContinuousSafe`, and, if no fence comes
that asks for no answer (`FencesAsk`), `TurboStream`. The parts of `TurboInv`:

- `HolderInv`: an answer under way holds the batch, since its completion goes on with it;
  the event loop holds a batch *undisturbed*, with no interrupt and no send under way; and
  whoever holds one during a frame has nothing more to answer in it. This is how the two
  conditions on batches come in.
- `DriverInv`: the end of a frame sends a fence and then looks for the next frame, without the
  lock: what is begun then has to wait for the synchronised tasks (`HasChangesPending`), so
  that nothing is sent beside the fence.
- `BytesInv` and `PromiseInv` are `WireInv` and `OwedInv` for these carriers; `PromiseInv` adds
  what keeps continuous updates alive until `vncEnableContUpdates` has set the flag.

The end of a frame during which a request came in may begin a frame that waits for the tasks,
and then, under continuous updates, begins it again: for this moment the frame has two
drivers, the routine and the tasks, which does no harm, as the routine only asks for the tasks
once more. `FrameHasOneDriver` therefore needs one more hypothesis, that a batch holds one
request at most (`SingleClient`, `SingleInv`): then none comes in during a frame.
`TurboFrameDriver` states it.

None of the following theorems is inductive as it stands, either. Each module of proofs
states its invariant before the lemmas that keep it; what follows is why it is needed. A
hypothesis on a `...Mishaps` constant, or on the deliveries or rectangles, names what the code
is not made for (see *Assumptions* above); all sizes, scripts, formats, tables and bounds are
arbitrary.

| Module | Theorem | Hypothesis | The invariant, and why |
|---|---|---|---|
| `MessagePump_proofs` | `PumpImplements` (the refinement of `MessageService`), `OnlyTheLastWaits`, `NothingMisread` | `OrderlySpec` | `PumpInv`: for each place of the pump, where the reader stands relative to the next message: at its first byte (`inPlace`, `copyFirst`, `reply`), within it with all its earlier bytes in `vncClientMessage` (`assemble`, `receive`), or before it in buffers that are still lent (`deferred`). The two properties say nothing of the places in between, from which a step leads to theirs |
| `Session_proofs` | `SessionTypes`, `StopSafe` | none | a stop is not undone because `ourCompletion` is `tcpStreamClosed` from the moment the release is posted (`StopInv`) |
| | `Listening` | no `tightAuth` | `RunInv`: which routines go with a running session |
| | `BlocksSafe` | no `lateTasks`, no `hastyStart` | `RecvInv` (one call beside the release, which comes last), `FreshInv` (no frame in a handshake), `FrameInv` (who holds `fbUpdateInProgress`): a call is posted in a state of the session, not by looking at the block |
| `EncoderSetup_proofs` | `SetupTypesSafe` | none | |
| | `EncoderIsReady` | no `noEncoder`, `tightKept`, `rawGrows`, `noCompressor` | `ReadyInv`: the buffer has the size of the *last* encoder, which is the chosen one unless `begin` saw a difference and left the tasks to the event loop |
| | `FormatIsFollowed` | no `formatRace`, `backToIndexed` | `FormatInv`: the last format asked for is the one that waits, or if none waits the one installed |
| | `ColoursAreCurrent` | no `trueTable`, `noTable` | `TrueInv`, `IndexedInv`: in true colour the mark stays up, in indices it is taken down only with the table that was read |
| | `OneStreamPerSession` | no `tightThenZrle`, `tightThenHextile`; `SizesDiffer` | `StreamInv`: the compressor was used if and only if this client has seen it; an encoder without need of it has a buffer of another size, with which it goes |
| | `WireSeen` (of `WirePixels`) | `WireMishaps = {}`, `OrdinaryFormats` | `ColorInv`: in ZRLE the size, the shift and the mask are those of a CPIXEL in the format of the client; elsewhere what sends a colour prepares them first |
| `ScreenHash_proofs` | `ScreenTypes` | none | |
| | `WaiterIsInstalled` | no full frame in the `"setup"` sweep | `CallbackInv` |
| | `NoneForgotten`, `NoneForgottenInSmall` | `~Erases`, `FullFrameWhile \subseteq {"idle"}`, `SumsTell` (or `SumsFit`, which implies it) | `SweepInv`: there are two pictures, of which the sums of the last sweep and of this one *are* the sums, each cell as it was when the sweep came by; a cell that the client sees older than the last sweep is in the rectangle that goes to it. The pictures are no variables of the program: they are quantified, and a step gives the new ones |
| | `OneChangeNoticed` (of `ScreenSums`) | none | `SumsInv`: the rows swept so far have their sums and each column what they add to it, a column of single words as two halves without a carry between them; the last sweep's sums are those of its picture |
| `FrameTiles_proofs` | `DeflateInPlace`, `FrameInPlace` | none | `ZInv`, see below |
| | `AlignmentCovers` | `AskedFits` | `AlignInv`: until it is sent the rectangle is the aligned one |
| | `FramesAnnounced` | `AskedFits` | `FrameInv`, see below |
| `Tiles_proofs` | `TwinsTheSame` | `FewColours` | `TwinInv`, see below |
| | `HextileSeen` | `HexFewColours` | `HexInv`: the client has the colours that `lastBg` and `lastFg` say, unless they say none; for the rectangles `RectInv`, see below |
| `Parts_proofs` | `KeysFollowClient` | `KeyMishaps = {}` | `KeyInv`: the modifiers are remembered as they are and shown with Cmd for Ctrl and Alt |
| | `MonoTilesSeen` | none | `PaletteInv`: where the encoder takes it that the client has the palette, it has |
| | `ChoicesAreKept` | none | `ChoicesInv`: also what a launch *would* find in the file agrees with what was chosen before, while a save is under way too |
| | `CountsToldOnce` | none | `LoopInv`, `RetryInv`: which counters of the tick have been read and reset so far, and whose errors wait |
| | `LogComesOut` | `LogMishaps = {}` | `LogInv`: there are places on a line without an end where the log lines lie one behind another; the ring holds those between the output and what is copied, each place at its remainder by `Capacity`, and they are fewer than `Capacity` |
| | `FilesWhole` | `FileMishaps = {}`, `OneUpload` | `FileInv`: the request under way lies behind other messages only, until the event loop takes it up; from then on what comes next is the rest of its bytes, as many as the upload still expects, and what was written is all that came before. `OneUpload` is about what the client asks for: bytes only with data, data only after a start, no second start after data |

`DeflateInPlace` has `OutputBehindInput` for the compressor alone and `FrameInPlace` for
whole frames, for all sizes of buffer, prefix, scratch space, tiles and codes: the output, and
the room it is promised, end before the input that was not read, which ends before the buffer
does. Together with the types of the positions it is inductive: a fetch puts the input
`Scratch` bytes behind the end of the output, a compression takes input and gives output within
the room it was promised, and moving the input never goes below the output.
`FrameStepCompresses` shows that every step of `FrameTiles` is a step of the compressor or
leaves it alone: with it the invariant of the small specification is one of the large.

`FramesAnnounced` needs to know where the cursor is while a frame is under way.
`FrameTiles_proofs` defines what a frame consists of: its subrectangles, counted from 0, and
the tiles of each, as places. `CursorFollows` shows that `advanceToNextTile` of each encoder
leads from one of these places to the next; for ZRLE, whose rounds also pass places beside the
rectangle, `ZLeads` counts these. `NewSubrects` and `Subrects` show that `isNewSubrect` and
`getSubrect`, which know only the cursor, agree with the counting, and `SubsDisjoint` and
`SubsCover` that the subrectangles partition the rectangle. `FrameInv` then says that what has
been sent is the beginning of what the frame consists of, up to the tile where the cursor
stands, in each place of the send chain; that a tile can only wait behind others (it could
never go otherwise); and that the cursor is already at the next subrectangle when a tile that
ends one is in the compressor. It is the alignment that makes `AskedFits` necessary.

`TwinsTheSame` is about a machine with the labels of the assembly beside a function with the
loops of the C. `TwinInv` says that the registers are the state of the loop in C after the
words that were read (`BetweenWords`), or after the pixels of the word that is looked at
(`InWord`); `test` then holds the differences of the pixels that are left. A step over one pixel
is a step of the inner loop in C (`PixelCounted`, `PixelWritten`). The machine leaves its inner
loop as soon as no difference is left and counts the rest at once, which the loop in C does one
by one: `EqualPixels` shows that both come to the same, although the counter wraps. Where the
machine gives up, the loop in C goes on over the other words and does nothing (`StoppedWords`).
`FewColours` says that no tile has more colours than the palette has places, 127: with more the
twins do differ, see above.

`HextileSeen` goes through the three parts of the encoder. What `nativeToRle` writes for Hextile
is a colour and a count for each run of equal pixels, however the runs lie in the words of the
tile (`HexRunsAre`); two neighbouring runs have different colours, and the counts come to the
size of the tile (`Segments`). The loops over these runs make rectangles. `RectInv` says, at
every step: where the loops stand in the run and in the tile; that each `top` is the number of
a rectangle; that every pixel of every rectangle has its colour; and that each pixel before
the place where the loops stand is in a rectangle. `mergeTop` lengthens the rectangle above by
one row, whatever the height of the new one. That this loses nothing is not evident: a
rectangle of several rows is as wide as the tile and takes all whole rows of its run, so the
one above it, if it is as wide, is of another run and has another colour, and the two are not
merged (`WideAbove`, `MergeKeeps`). Once the tile is covered (`RectsCover`), it does not matter
whether rectangles overlap: all have the colour of the pixels. Last, each form of a tile, with
the colours that are sent or left out, paints it (`FormIs`, `PaintIs`). `HexFewColours` says
that no tile has 256 colours: `nColors` is a byte (`VNCEncodeHextile.cpp`, line 159), counts 0
of them, and the tile is sent as if it had one colour. `HextileAssumption` has the tiles as the
copy of the screen leaves them: they fill whole longs, except that one of a 1-bit screen may
end with half a long.

`WireSeen` follows a colour to the client. `TwoPowers` lists the powers of two up to 2^24, from
which `PowersDivide` has their products. The three bytes of a shifted value make it up again
(`ThreeBytes`, `ShiftedOut`, `CutOff`), so the client, who adds up the bytes that it gets, in
either order, has the sum of the three shifted channels (`ValueIs`); since the channels lie
beside each other, a quotient and a remainder find each of them in that sum (`OneOfThree`,
`ChannelsRead`). Scaling loses at most one step and neither end (`IndexedClose`, `FiveBitsClose`,
by way of eight bits, and `EightBitsClose`), which holds for the largest values that a channel
of up to eight bits may have. What the masked store of a long leaves behind, shifted or swapped,
are those bytes (`StoredIs`), and so is a native long that is copied as it is (`NativeIs`).
Pixels of the same size behind one another can be told apart (`ConcatIs`). What is left is that
the size of the server is that of the client whenever something is sent, `ColorInv`: without
`cursorBeforeTile` nothing but a format changes the sizes that ZRLE relies on.
`WireTilesAssumption` has the tiles of a screen as pixels of that screen; `WireAssumption` has
black and white in the table of colours, which the cursor is made of.

Two techniques stand in for induction, which the prover's library states with an operator as
a parameter: a set of numbers that is not empty has a least element (`LeastNat`, `Least`, from
the well-foundedness of `<`), and a function that is defined from one number to the next is
shown to exist, and to be the one that a `LET` chooses, by the same argument (`Iterates`, for
the rounds of ZRLE). Sums are those of the community modules' folds, with the facts about
them that their one-step equations give.

Only model-checked:

- liveness (`RequestsAnswered`, `BatchesWorkedOff`, `PictureCatchesUp`,
  `SessionSettles`, `QuitEnds`, `FailureEnds`), which rests on fairness and ENABLED, beyond the
  prover;
- `DataInflated`: what the recursive operators of `HuffmanBlocks` and `Deflate` compute;
- `PixelsDecoded`: not proved yet. It needs what the client makes of counts of several bytes
  and of rows of packed indices, and the palette that it keeps from tile to tile; the runs of
  `HextileSeen` and the pieces of `WireSeen` are a start.

## Plan

1. To prove next: `PixelsDecoded`, first that the client's palette is the one that a tile
   uses again.
2. To model next: the limit of ten seconds of `vncServerStop` and what it destroys; the
   statics of the pump and the callback of the retrace task over several sessions; a
   ClientFence without the request bit.
3. To compose: `TileEncoder` as the source of the tiles of `FrameTiles`, so that the palette
   is followed over chunks and frames; an abstract frame service (request, frame, request)
   that `UpdatePipeline` implements.

## Not modelled

- The Tight encoder, whose chunk routine is unfinished; the path, folder and remove
  requests of TightVNC and the choice of its security type.
- Windows beyond the start button, the menu item and the options; texts and layout.
- The comparison of cursor shapes and the mask, which read low memory; the dithered copy of
  the screen of a monochrome build: Toolbox calls without control of their own.
- miniz: inflate, archives and the variants that this program does not compile. The other
  libraries in `libs/`, but for the keyboard: third-party code, or interfaces to MacTCP.
- The scripts of the build and the deployment of the collectors that telemetry is sent to.
