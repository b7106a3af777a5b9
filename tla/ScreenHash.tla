------------------------------ MODULE ScreenHash ------------------------------
(***************************************************************************)
(* The detection of changes on the screen (VNCScreenHash.cpp). A sweep     *)
(* adds up the longs of each row and of each column, a few rows at each    *)
(* retrace interrupt, while applications go on drawing. Two sweeps are     *)
(* compared: the rows and the columns whose sums differ bound what has     *)
(* changed. Around it, what the properties are about: the picture the      *)
(* client has, and frames that bring it up to date a row at a time.        *)
(***************************************************************************)
EXTENDS Integers, FiniteSetsExt, Functions

CONSTANTS
  Height,    \* fbHeight
  Width,     \* COL_HASH_SIZE: a row is Width longs
  RowChunk,  \* rows that one interrupt adds up
  HashMod,   \* sums are unsigned longs: modulo this
  Values,    \* what a long of the screen can be
  Garbage,   \* what may be found in memory from NewPtr
  Erases,    \* TRUE: any drawing. FALSE: longs only grow, so that sums tell all changes
  FullFrameWhile \* what the task may be doing when a full frame begins (see Task)

Rows  == 0 .. Height - 1
Cols  == 0 .. Width - 1
Cells == Rows \X Cols

ASSUME SizeAssumption ==
  Height \in Nat \ {0} /\ Width \in Nat \ {0} /\ RowChunk \in 1 .. Height
ASSUME ValueAssumption ==
  /\ HashMod \in Nat \ {0}
  /\ Values \subseteq 0 .. HashMod - 1 /\ 0 \in Values
  /\ Garbage \subseteq 0 .. HashMod - 1 /\ Garbage # {}
  /\ Erases \in BOOLEAN /\ FullFrameWhile \subseteq {"idle", "setup", "waiting"}

VARIABLES
  screen,       \* the frame buffer, drawn on by everybody
  rowHashPrev, colHashPrev, rowHashNext, colHashNext,
  row,          \* the first row that the sweep has not added up
  dirtyRect,    \* changes found by earlier sweeps and not reported
  callback,     \* whether somebody waits for a report
  queued,       \* whether the task is installed (vblCount # 0)
  connected,    \* whether there is a client
  shown,        \* its picture; Nothing where it has none yet
  frame,        \* the cells that the frame under way still has to send
  fbUpdateInProgress

hashes == <<rowHashPrev, colHashPrev, rowHashNext, colHashNext>>
client == <<connected, shown, frame, fbUpdateInProgress>>
vars   == <<screen, hashes, row, dirtyRect, callback, queued, client>>

Nothing == -1
NoRect  == [x |-> 0, y |-> 0, w |-> 0, h |-> 0]
Empty(r)  == r.w = 0 \/ r.h = 0
CellsOf(r) == (r.y .. r.y + r.h - 1) \X (r.x .. r.x + r.w - 1)

----------------------------------------------------------------------------
(* The sums.                                                                 *)

\* A faulty variant: what was found before is replaced.
UnionLatest(a, b) == IF Empty(a) THEN b ELSE a

\* The smallest rectangle around both.
UnionRect(a, b) ==
  IF Empty(b) THEN a ELSE IF Empty(a) THEN b ELSE
  LET x == Min({a.x, b.x})  y == Min({a.y, b.y}) IN
  [x |-> x, w |-> Max({a.x + a.w, b.x + b.w}) - x,
   y |-> y, h |-> Max({a.y + a.h, b.y + b.h}) - y]

\* computeDirty: from the first to the last sum that differs, both ways.
ComputeDirty ==
  LET cols == {c \in Cols : colHashNext[c] # colHashPrev[c]}
      rows == {r \in Rows : rowHashNext[r] # rowHashPrev[r]} IN
  IF cols = {} \/ rows = {} THEN NoRect
  ELSE [x |-> Min(cols), w |-> Max(cols) + 1 - Min(cols),
        y |-> Min(rows), h |-> Max(rows) + 1 - Min(rows)]

RowSum(r)        == SumFunction([c \in Cols |-> screen[<<r, c>>]])
ColumnSum(rs, c) == SumFunctionOnSet([r \in Rows |-> screen[<<r, c>>]], rs)

Init ==
  /\ screen \in [Cells -> {0}]
  /\ rowHashPrev \in [Rows -> Garbage] /\ colHashPrev \in [Cols -> Garbage]
  /\ rowHashNext = rowHashPrev /\ colHashNext = [c \in Cols |-> 0]
  /\ row = 0 /\ dirtyRect = NoRect
  /\ callback = FALSE /\ queued = TRUE      \* setup: requestDirtyRect(0)
  /\ connected = FALSE /\ shown = [p \in Cells |-> Nothing]
  /\ frame = {} /\ fbUpdateInProgress = FALSE

----------------------------------------------------------------------------
(* The retrace task: myVBLTask.                                              *)

BeginCompute ==
  /\ row' = 0
  /\ colHashNext' = [c \in Cols |-> 0]
  /\ UNCHANGED rowHashNext

\* A faulty variant: the last chunk is as large as the others.
ComputeFullChunk ==
  LET rows == row .. row + RowChunk - 1 IN
  /\ queued /\ row < Height
  /\ rowHashNext' = [r \in Rows |-> IF r \in rows THEN RowSum(r) % HashMod
                                    ELSE rowHashNext[r]]
  /\ colHashNext' = [c \in Cols |-> (colHashNext[c] + ColumnSum(rows \cap Rows, c)) % HashMod]
  /\ row' = Max(rows) + 1
  /\ UNCHANGED <<screen, rowHashPrev, colHashPrev, dirtyRect, callback, queued, client>>

ComputeHashes ==
  LET rows == row .. Min({row + RowChunk, Height}) - 1 IN
  /\ queued /\ row < Height
  /\ rowHashNext' = [r \in Rows |-> IF r \in rows THEN RowSum(r) % HashMod
                                    ELSE rowHashNext[r]]
  /\ colHashNext' = [c \in Cols |-> (colHashNext[c] + ColumnSum(rows, c)) % HashMod]
  /\ row' = Max(rows) + 1
  /\ UNCHANGED <<screen, rowHashPrev, colHashPrev, dirtyRect, callback, queued, client>>

SweepDone == queued /\ row = Height

\* A faulty variant: gotNewDirt, which the code computes and does not use, is asked for.
GotAllDirt == ~Empty(dirtyRect) /\ ~Empty(ComputeDirty)

GotOldDirt == ~Empty(dirtyRect)

\* A faulty variant: vblCount is not set, and the task leaves its queue.
RestartOnce ==
  /\ SweepDone /\ ~GotOldDirt
  /\ dirtyRect' = UnionRect(ComputeDirty, dirtyRect)
  /\ rowHashPrev' = rowHashNext /\ colHashPrev' = colHashNext
  /\ row' = 0
  /\ rowHashNext' = rowHashPrev /\ colHashNext' = [c \in Cols |-> 0]
  /\ queued' = FALSE
  /\ UNCHANGED <<screen, callback, client>>

\* endCompute exchanges the arrays; nothing was known, so another sweep begins.
Restart ==
  /\ SweepDone /\ ~GotOldDirt
  /\ dirtyRect' = UnionRect(ComputeDirty, dirtyRect)
  /\ rowHashPrev' = rowHashNext /\ colHashPrev' = colHashNext
  /\ row' = 0
  /\ rowHashNext' = rowHashPrev /\ colHashNext' = [c \in Cols |-> 0]
  /\ UNCHANGED <<screen, callback, queued, client>>

\* Something was known: it is reported with what is new, and forfeited whatever
\* vncGotDirtyRect makes of it. The task leaves its queue.
Report ==
  LET rect == UnionRect(ComputeDirty, dirtyRect) IN
  /\ SweepDone /\ GotOldDirt
  /\ IF callback /\ connected /\ ~fbUpdateInProgress
       THEN fbUpdateInProgress' = TRUE /\ frame' = CellsOf(rect)
       ELSE UNCHANGED <<fbUpdateInProgress, frame>>
  /\ callback' = FALSE /\ queued' = FALSE /\ dirtyRect' = NoRect
  /\ rowHashPrev' = rowHashNext /\ colHashPrev' = colHashNext
  /\ rowHashNext' = rowHashPrev /\ colHashNext' = colHashPrev
  /\ UNCHANGED <<screen, row, connected, shown>>

\* requestDirtyRect: nothing happens when somebody waits already.
RequestDirtyRect ==
  /\ connected /\ ~fbUpdateInProgress /\ ~callback
  /\ callback' = TRUE /\ queued' = TRUE
  /\ BeginCompute
  /\ UNCHANGED <<screen, rowHashPrev, colHashPrev, dirtyRect, client>>

----------------------------------------------------------------------------
(* The rest of the server, as far as changes are concerned.                  *)

\* What the task does: nothing, the sweep that setup asked for, or a sweep for vncGotDirtyRect.
Task == IF ~queued THEN "idle" ELSE IF callback THEN "waiting" ELSE "setup"

\* A frame without the screen hash: the first of a session, or on demand.
FullFrame ==
  /\ ~fbUpdateInProgress
  /\ Task \in FullFrameWhile
  /\ connected' = TRUE
  /\ fbUpdateInProgress' = TRUE /\ frame' = Cells
  /\ UNCHANGED <<screen, hashes, row, dirtyRect, callback, queued, shown>>

\* A chunk of a frame: what remains of its uppermost row, as it is now.
SendRow ==
  LET sent == {p \in frame : \A q \in frame : p[1] <= q[1]} IN
  /\ fbUpdateInProgress /\ frame # {}
  /\ shown' = [p \in Cells |-> IF p \in sent THEN screen[p] ELSE shown[p]]
  /\ frame' = frame \ sent
  /\ UNCHANGED <<screen, hashes, row, dirtyRect, callback, queued, connected,
                 fbUpdateInProgress>>

FinishFBUpdate ==
  /\ fbUpdateInProgress /\ frame = {}
  /\ fbUpdateInProgress' = FALSE
  /\ UNCHANGED <<screen, hashes, row, dirtyRect, callback, queued, connected, shown,
                 frame>>

\* A session ends. The callback is not taken back.
Disconnect ==
  /\ connected
  /\ connected' = FALSE /\ shown' = [p \in Cells |-> Nothing]
  /\ fbUpdateInProgress' = FALSE /\ frame' = {}
  /\ UNCHANGED <<screen, hashes, row, dirtyRect, callback, queued>>

Draw(p, v) ==
  /\ IF Erases THEN v # screen[p] ELSE v > screen[p]
  /\ screen' = [screen EXCEPT ![p] = v]
  /\ UNCHANGED <<hashes, row, dirtyRect, callback, queued, client>>

VBLTask == ComputeHashes \/ Restart \/ Report
Frame   == SendRow \/ FinishFBUpdate

Next ==
  \/ VBLTask \/ Frame \/ RequestDirtyRect \/ FullFrame \/ Disconnect
  \/ \E p \in Cells, v \in Values : Draw(p, v)

Spec == Init /\ [][Next]_vars

\* The task runs as long as it is queued, a frame goes on, and a client that has a
\* frame asks for the next one.
LiveSpec ==
  Spec /\ WF_vars(VBLTask) /\ WF_vars(Frame) /\ WF_vars(RequestDirtyRect)

----------------------------------------------------------------------------
(* Properties.                                                               *)

Hash == 0 .. HashMod - 1
TypeOK ==
  /\ screen \in [Cells -> Values] /\ shown \in [Cells -> Values \cup {Nothing}]
  /\ rowHashPrev \in [Rows -> Hash] /\ rowHashNext \in [Rows -> Hash]
  /\ colHashPrev \in [Cols -> Hash] /\ colHashNext \in [Cols -> Hash]
  /\ row \in 0 .. Height
  /\ dirtyRect \in [x : Cols, y : Rows, w : 0 .. Width, h : 0 .. Height]
  /\ dirtyRect.x + dirtyRect.w <= Width /\ dirtyRect.y + dirtyRect.h <= Height
  /\ {callback, queued, connected, fbUpdateInProgress} \subseteq BOOLEAN
  /\ frame \subseteq Cells

\* What the server still knows of a difference between the screen and the picture
\* of the client: the frame under way will send it, it was found and not reported,
\* or both sums it takes part in differ from those of the last sweep.
Known(p) ==
  \/ p \in frame
  \/ p \in CellsOf(dirtyRect)
  \/ /\ rowHashPrev[p[1]] # RowSum(p[1]) % HashMod
     /\ colHashPrev[p[2]] # ColumnSum(Rows, p[2]) % HashMod

\* No change is forgotten: where the client sees something else than the screen,
\* the server knows ("Ask the VBL task to determine what needs to be updated",
\* VNCServer.cpp:1033), however the drawing falls between the interrupts.
NoChangeForgotten ==
  connected => \A p \in Cells : shown[p] # screen[p] => Known(p)

\* Somebody who waits for a report has the task installed, and the next request will
\* not install a task that is still in the queue, which VInstall does not allow:
\* requestDirtyRect (line 254) looks at the callback, not at the queue.
InstalledForWaiter == connected => (callback <=> queued)

\* When the drawing ends, the client comes to see what is on the screen, or leaves.
PictureCatchesUp == (connected /\ shown # screen) ~> (shown = screen \/ ~connected)
=============================================================================
