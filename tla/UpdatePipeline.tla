---------------------------- MODULE UpdatePipeline ----------------------------
(***************************************************************************)
(* The frame-buffer update pipeline of VNCServer.cpp while a session runs. *)
(*                                                                         *)
(* Two contexts share every global of the server: the event loop of        *)
(* main.cpp ("main") and the interrupt level ("irq"), on which MacTCP runs *)
(* the completion routine of a parameter block and the vertical retrace    *)
(* manager runs VNCScreenHash::myVBLTask. pc[c] is the function context c  *)
(* is about to run, ret[c] where it continues when that function returns   *)
(* (every other call of the pipeline is a tail call). An interrupt may     *)
(* arrive before any step of "main" and runs to its end first; interrupts  *)
(* do not nest, and a store to one flag is indivisible (true of the 68000  *)
(* code; the bit-field stores of the PowerPC build are not).               *)
(***************************************************************************)
EXTENDS Integers, Sequences

CONSTANTS
  Batches,          \* the batches of messages one TCPNoCopyRcv can deliver
  AllowStreaming,   \* vncConfig.allowStreaming
  AllowIncremental, \* vncConfig.allowIncremental
  IndexedScreen,    \* FB_IS_INDEXED(fbDepth): the screen has a colour table
  NetworkFails,     \* whether calls to MacTCP fail and the client disconnects
  Timely,           \* whether the environment has the timing described below
  MaxOutstanding    \* bound on the calls outstanding on one parameter block

Messages == {"req", "full", "pixFmt", "setEnc", "setEncFence", "setEncTurbo",
             "input", "cut", "bad", "fence", "fenceNoReq", "contOn", "contOff"}

ASSUME BatchesAssumption == Batches \subseteq Seq(Messages)
ASSUME ConfigAssumption  == /\ AllowStreaming \in BOOLEAN
                            /\ AllowIncremental \in BOOLEAN
                            /\ IndexedScreen \in BOOLEAN
                            /\ NetworkFails \in BOOLEAN
                            /\ Timely \in BOOLEAN
ASSUME MaxOutstandingAssumption == MaxOutstanding \in Nat \ {0}

VARIABLES
  pc, ret,    \* what each context is running, and where it returns to
  out,        \* out[pb]: calls of parameter block pb not yet completed
  then,       \* then[pb]: ourCompletion, the routine its completion runs
  inbox,      \* inStream: the messages of the batch not yet skipped
  vncState,
  flags,      \* the Boolean globals and facts that hold (see Flags)
  wire        \* history: where the byte stream to the client stands

control == <<pc, ret>>
net     == <<out, then>>
vars    == <<control, net, inbox, vncState, flags, wire>>

Ctx == {"main", "irq"}
PBs == {"epb_send", "epb_recv"}

\* Members of vncFlags, of VNCEncoder, VNCPalette and VNCScreenHash that the
\* pipeline branches on; then facts of the environment, and one of the history.
Flags == {"fbUpdateInProgress", "fbUpdatePending", "fbUpdateContinuous",
          "clientTakesContUpdt", "clientTakesFence", "fbColorMapNeedsUpdate",
          "runFBSyncedTasks",
          "deferred",         \* resumeReadAt # 0xFFFF: the batch waits for "main"
          "encoderChanged",   \* begin() will find selectedEncoder # lastSelectedEncoder
          "bufferReady",      \* fbUpdateBuffer # NULL, and encoderSetup() is ready
          "formatPending",    \* pendingPixFormat.bitsPerPixel # 0
          "trueColor",        \* fbPixFormat.trueColor
          "callback",         \* VNCScreenHash::callback # NULL
          "seedStale",        \* the device's ctSeed differs from VNCPalette::ctSeed
          "closing",          \* the client has closed its half of the connection
          "owed"}             \* a request was accepted that no frame has answered

InProgress == "fbUpdateInProgress" \in flags
Pending    == "fbUpdatePending" \in flags
Continuous == "fbUpdateContinuous" \in flags
Deferred   == "deferred" \in flags
Callback   == "callback" \in flags
Closing    == "closing" \in flags
Owed       == "owed" \in flags

States == {"VNC_RUNNING", "VNC_ERROR", "VNC_STOPPING", "VNC_STOPPED", "VNC_WAITING"}

\* The functions of the pipeline: on either context, and on one of them.
SharedLabels == {"dispatchClientMessage", "vncFBUpdateRequest", "setPending",
                 "setUpdateRect", "nextMessage", "vncSendFBUpdate",
                 "requestDirtyRect", "vncPrepareForFBUpdate", "VNCEncoder::begin",
                 "vncSendFBUpdateColorMap", "vncSendFBUpdateHeader",
                 "vncInitialServerFence"}
SendLabels   == {"vncSendFBUpdateHeader", "vncFBUpdateEncodeCursor",
                 "vncFBUpdateChunk", "vncFinishFBUpdate",
                 "tcpFinishMultiPartMessage", "vncInitialServerFence",
                 "vncDoNothing"}
RecvLabels   == {"vncReadMessages", "vncGotNewMessages", "tcpStreamCreated",
                 "tcpStreamClosed"}
IrqLabels    == SharedLabels \cup SendLabels \cup {"idle", "endOfFrame", "myVBLTask"}
MainLabels   == SharedLabels \cup
                {"eventLoop", "vncServerIdleTask", "syncTasks",
                 "VNCEncoder::fbSyncTasks", "VNCPalette::fbSyncTasks",
                 "vncServerStop", "awaitStopped", "setContinuous"}

\* Completion routines that do not look at the result of the call.
Unchecked == {"vncFinishFBUpdate", "vncDoNothing"}

----------------------------------------------------------------------------
(* Control, flags, and the calls that the contexts share.                   *)

\* Where a context goes when the handler it was entered with has returned.
TopLevel(c) == IF c = "irq" THEN "idle" ELSE "syncTasks"

\* The timing under which the TurboVNC extensions work, which nothing in the code
\* brings about: a short reply leaves before anything else happens, a message
\* arrives between frames, no retrace interrupts the event loop while it handles a
\* message, and a message that is answered does not arrive in one piece.
Replies == {"vncDoNothing", "vncInitialServerFence", "tcpFinishMultiPartMessage"}
Quiet == Timely => ~(out["epb_send"] > 0 /\ then["epb_send"] \in Replies)
MessageMayArrive == Timely => Quiet /\ ~InProgress
RetraceMayCome   == Timely => Quiet /\ pc["main"] \in {"eventLoop", "vncServerIdleTask",
                              "syncTasks", "VNCEncoder::fbSyncTasks",
                              "VNCPalette::fbSyncTasks", "vncServerStop", "awaitStopped"}

\* Only an interrupt preempts, and it runs to its end.
At(c, label) == pc[c] = label /\ (c = "main" => pc["irq"] = "idle" /\ Quiet)

Goto(c, label) == pc' = [pc EXCEPT ![c] = label] /\ UNCHANGED ret
Call(c, label, back) == /\ pc'  = [pc  EXCEPT ![c] = label]
                        /\ ret' = [ret EXCEPT ![c] = back]
Return(c) == Goto(c, ret[c])

Put(on, off) == flags' = (flags \ off) \cup on

\* tcp.then(pb, proc) followed by an asynchronous PBControl on pb.
Post(pb, proc) == /\ out[pb] < MaxOutstanding
                  /\ out'  = [out  EXCEPT ![pb] = @ + 1]
                  /\ then' = [then EXCEPT ![pb] = proc]

\* Bytes that must find the stream at one place, and leave it at another.
Send(proc, before, after) == /\ Post("epb_send", proc)
                             /\ wire' = IF wire = before THEN after ELSE "broken"

\* A whole message, which may not fall inside a frame.
SendMessage(proc) == Send(proc, "between", "between")

HasWaitingColorMapUpdate ==
  "fbColorMapNeedsUpdate" \in flags /\ "trueColor" \notin flags
HasChangesPending == HasWaitingColorMapUpdate \/ "formatPending" \in flags

\* The next message of inStream is m, and c dispatches it.
Next1(c, m) == /\ At(c, "dispatchClientMessage")
               /\ inbox # <<>>
               /\ Head(inbox) = m

\* What inStream.skip leaves: nothing more when there is nothing left.
Skipped == IF inbox = <<>> THEN <<>> ELSE Tail(inbox)

Init ==
  /\ pc  = [c \in Ctx |-> IF c = "irq" THEN "idle" ELSE "eventLoop"]
  /\ ret = [c \in Ctx |-> TopLevel(c)]
  /\ out = [pb \in PBs |-> IF pb = "epb_recv" THEN 1 ELSE 0]
  /\ then = [pb \in PBs |-> IF pb = "epb_recv" THEN "vncReadMessages" ELSE "vncDoNothing"]
  /\ inbox = <<>>
  /\ vncState = "VNC_RUNNING"
  /\ \E left \in SUBSET {"bufferReady", "seedStale"} :
       flags = {"encoderChanged"} \cup left
                 \cup (IF IndexedScreen THEN {"fbColorMapNeedsUpdate"} ELSE {"trueColor"})
  /\ wire = "between"

----------------------------------------------------------------------------
(* Faulty variants of some of the actions below, each with one bug that the  *)
(* code does not have; they show what the properties at the end detect.      *)

\* The tasks of the event loop run inside the handler, at interrupt level too.
EncoderBeginSyncsNow(c) ==
  /\ At(c, "VNCEncoder::begin")
  /\ Call(c, "VNCEncoder::fbSyncTasks", TopLevel(c))
  /\ Put({}, {"encoderChanged"})
  /\ UNCHANGED <<net, inbox, vncState, wire>>

\* The tasks are asked for, and the frame is sent all the same.
EncoderBeginSendsAnyway(c) ==
  /\ At(c, "VNCEncoder::begin")
  /\ Goto(c, "vncSendFBUpdateColorMap")
  /\ IF "bufferReady" \in flags /\ ~HasChangesPending
       THEN UNCHANGED flags ELSE Put({"runFBSyncedTasks"}, {"encoderChanged"})
  /\ UNCHANGED <<net, inbox, vncState, wire>>

\* A frame that has to wait is left to the event loop, which is not told.
EncoderBeginForgets(c) ==
  /\ At(c, "VNCEncoder::begin")
  /\ IF "encoderChanged" \notin flags /\ "bufferReady" \in flags /\ ~HasChangesPending
       THEN Goto(c, "vncSendFBUpdateColorMap") ELSE Return(c)
  /\ Put({}, {"encoderChanged"})
  /\ UNCHANGED <<net, inbox, vncState, wire>>

\* A request is not put aside while a frame is in progress.
AcceptRequestUnlocked(c) ==
  /\ At(c, "vncFBUpdateRequest")
  /\ Goto(c, "setUpdateRect")
  /\ Put({"owed"}, {})
  /\ UNCHANGED <<net, inbox, vncState, wire>>

\* A frame does not take the lock.
PrepareForFBUpdateUnlocked(c) ==
  /\ At(c, "vncPrepareForFBUpdate")
  /\ Put({}, {"fbUpdatePending"})
  /\ Goto(c, "VNCEncoder::begin")
  /\ UNCHANGED <<net, inbox, vncState, wire>>

\* The dirty rectangle starts a frame even though one is in progress.
GotDirtyRectUnlocked ==
  /\ pc["irq"] = "idle" /\ Callback /\ RetraceMayCome
  /\ IF vncState = "VNC_RUNNING"
       THEN Call("irq", "vncPrepareForFBUpdate", "myVBLTask")
       ELSE Goto("irq", "myVBLTask")
  /\ UNCHANGED <<net, inbox, flags, vncState, wire>>

\* The end of a frame forgets the request that has come in during it.
FinishFBUpdateForgets ==
  /\ At("irq", "vncFinishFBUpdate")
  /\ Put({}, {"fbUpdateInProgress", "fbUpdatePending"})
  /\ Goto("irq", "endOfFrame")
  /\ UNCHANGED <<net, inbox, vncState, wire>>

\* The end of a frame does not release the lock.
FinishFBUpdateKeepsLock ==
  /\ At("irq", "vncFinishFBUpdate")
  /\ IF Pending THEN Call("irq", "vncSendFBUpdate", "endOfFrame")
                ELSE Goto("irq", "endOfFrame")
  /\ UNCHANGED <<net, inbox, flags, vncState, wire>>

\* The end of a frame asks for no dirty rectangle for the next one.
EndOfFrameStops ==
  /\ At("irq", "endOfFrame")
  /\ IF Continuous THEN SendMessage("vncDoNothing") ELSE UNCHANGED <<net, wire>>
  /\ Goto("irq", "idle")
  /\ UNCHANGED <<inbox, flags, vncState>>

\* The batch is left to the event loop, and dispatched further at the same time.
DeferToMainLoopReadsOn ==
  /\ \E m \in {"cut", "contOn", "contOff"} : Next1("irq", m)
  /\ Put({"deferred"}, {})
  /\ Goto("irq", "nextMessage")
  /\ UNCHANGED <<net, inbox, vncState, wire>>

\* Nobody is told of the batch that was put aside.
DeferToMainLoopForgets ==
  /\ \E m \in {"cut", "contOn", "contOff"} : Next1("irq", m)
  /\ Goto("irq", "idle")
  /\ UNCHANGED <<net, inbox, flags, vncState, wire>>

\* The event loop takes the batch and leaves it marked as waiting.
ServerIdleTaskKeepsMark ==
  /\ At("main", "vncServerIdleTask")
  /\ Goto("main", IF InProgress \/ ~Deferred THEN "syncTasks"
                                             ELSE "dispatchClientMessage")
  /\ UNCHANGED <<net, inbox, flags, vncState, wire>>

----------------------------------------------------------------------------
(* Client messages: processMessageFragments and dispatchClientMessage.      *)

\* The batch is finished: hand the receive buffers back to MacTCP.
BatchFinished(c) ==
  /\ At(c, "dispatchClientMessage") /\ inbox = <<>>
  /\ Post("epb_recv", "vncReadMessages")
  /\ Goto(c, TopLevel(c))
  /\ UNCHANGED <<inbox, flags, vncState, wire>>

\* inStream.skip after a message has been handled.
NextMessage(c) ==
  /\ At(c, "nextMessage")
  /\ inbox' = Skipped
  /\ Goto(c, "dispatchClientMessage")
  /\ UNCHANGED <<net, flags, vncState, wire>>

\* Key and pointer events; ClientCutText once the main loop runs it; and an
\* unknown message, after which a msgSize that nobody has set is skipped: the
\* rest of the batch may be dispatched all the same, or be lost.
PlainMessage(c) ==
  /\ \/ Next1(c, "input") /\ UNCHANGED <<inbox, vncState>>
     \/ Next1(c, "cut") /\ c = "main" /\ UNCHANGED <<inbox, vncState>>
     \/ Next1(c, "bad") /\ vncState' = "VNC_ERROR" /\ inbox' \in {inbox, <<>>}
  /\ Goto(c, "nextMessage")
  /\ UNCHANGED <<net, flags, wire>>

\* MAIN_LOOP_ONLY: the batch is left at this message for vncServerIdleTask.
DeferToMainLoop ==
  /\ \E m \in {"cut", "contOn", "contOff"} : Next1("irq", m)
  /\ Put({"deferred"}, {})
  /\ Goto("irq", "idle")
  /\ UNCHANGED <<net, inbox, vncState, wire>>

\* vncSetPixelFormat, for a format the screen can be converted to. For another it only sets
\* VNC_ERROR and the batch goes on, as it does after an invalid message: "bad" stands for both.
SetPixelFormat(c) ==
  /\ Next1(c, "pixFmt")
  /\ Put({"formatPending"}, {})
  /\ Goto(c, "nextMessage")
  /\ UNCHANGED <<net, inbox, vncState, wire>>

PseudoEncodings(m) == (IF m = "setEnc" THEN {} ELSE {"clientTakesFence"})
                        \cup (IF m = "setEncTurbo" THEN {"clientTakesContUpdt"} ELSE {})

\* SetEncodings. It is always assembled in vncClientMessage (MUST_COPY), so it
\* has left the stream when the reply to it, if there is one, is sent.
SetEncodings(c) ==
  /\ \E m \in {"setEnc", "setEncFence", "setEncTurbo"},
        changed \in SUBSET {"encoderChanged"} :
       Next1(c, m) /\ Put(PseudoEncodings(m) \cup changed, {})
  /\ inbox' = Skipped
  /\ \/ /\ "clientTakesContUpdt" \in flags'
        /\ SendMessage(IF "clientTakesFence" \in flags' THEN "vncInitialServerFence"
                                                        ELSE "tcpFinishMultiPartMessage")
        /\ Goto(c, TopLevel(c))
     \/ /\ "clientTakesContUpdt" \notin flags' /\ "clientTakesFence" \in flags'
        /\ Goto(c, "vncInitialServerFence")
        /\ UNCHANGED <<net, wire>>
     \/ /\ {"clientTakesContUpdt", "clientTakesFence"} \cap flags' = {}
        /\ Goto(c, "dispatchClientMessage")
        /\ UNCHANGED <<net, wire>>
  /\ UNCHANGED vncState

\* mClientFence: only a fence that carries mFenceRequest is answered, but every
\* fence leaves processMessageFragments. A message handled in place is still the
\* next one of the stream; one that was assembled from fragments is not.
ClientFence(c) ==
  /\ \/ Next1(c, "fence") /\ SendMessage("tcpFinishMultiPartMessage")
     \/ Next1(c, "fenceNoReq") /\ UNCHANGED <<net, wire>>
  /\ inbox' \in IF Timely THEN {Skipped} ELSE {inbox, Skipped}
  /\ Goto(c, TopLevel(c))
  /\ UNCHANGED <<flags, vncState>>

\* mEnableContUpdate with enable set: vncEnableContUpdates asks for an update
\* first and sets the flag when vncSendFBUpdate has returned.
EnableContUpdates ==
  /\ Next1("main", "contOn")
  /\ IF Continuous THEN Goto("main", "nextMessage")
                   ELSE Call("main", "vncSendFBUpdate", "setContinuous")
  /\ UNCHANGED <<net, inbox, flags, vncState, wire>>

SetContinuous ==
  /\ At("main", "setContinuous")
  /\ Put({"fbUpdateContinuous"}, {})
  /\ Goto("main", "nextMessage")
  /\ UNCHANGED <<net, inbox, vncState, wire>>

\* mEnableContUpdate with enable clear: it is answered, as a fence is.
DisableContUpdates ==
  /\ Next1("main", "contOff")
  /\ Put({}, {"fbUpdateContinuous"})
  /\ SendMessage("tcpFinishMultiPartMessage")
  /\ inbox' \in IF Timely THEN {Skipped} ELSE {inbox, Skipped}
  /\ Goto("main", TopLevel("main"))
  /\ UNCHANGED vncState

----------------------------------------------------------------------------
(* Update requests and the start of a frame.                                *)

Incremental(m) == m = "req"

\* vncFBUpdateRequest first decides; what it has decided it does in a later step,
\* and on the main loop an interrupt may come in between.
DispatchRequest(c) ==
  /\ \E m \in {"req", "full"} : Next1(c, m)
  /\ Goto(c, "vncFBUpdateRequest")
  /\ UNCHANGED <<net, inbox, flags, vncState, wire>>

Ignored(m) == ~AllowStreaming \/ (Continuous /\ Incremental(m))

IgnoreRequest(c) ==
  /\ At(c, "vncFBUpdateRequest") /\ Ignored(Head(inbox))
  /\ Goto(c, "nextMessage")
  /\ UNCHANGED <<net, inbox, flags, vncState, wire>>

AcceptRequest(c) ==
  /\ At(c, "vncFBUpdateRequest") /\ ~Ignored(Head(inbox))
  /\ Goto(c, IF InProgress THEN "setPending" ELSE "setUpdateRect")
  /\ Put({"owed"}, {})
  /\ UNCHANGED <<net, inbox, vncState, wire>>

SetPending(c) ==
  /\ At(c, "setPending")
  /\ Put({"fbUpdatePending"}, {})
  /\ Goto(c, "nextMessage")
  /\ UNCHANGED <<net, inbox, vncState, wire>>

SetUpdateRect(c) ==
  /\ At(c, "setUpdateRect")
  /\ Call(c, IF AllowIncremental /\ Incremental(Head(inbox))
               THEN "vncSendFBUpdate" ELSE "vncPrepareForFBUpdate", "nextMessage")
  /\ UNCHANGED <<net, inbox, flags, vncState, wire>>

\* vncSendFBUpdate(true): a change of palette or format needs no dirty rectangle.
SendFBUpdate(c) ==
  /\ At(c, "vncSendFBUpdate")
  /\ Goto(c, IF HasChangesPending THEN "vncPrepareForFBUpdate"
                                  ELSE "requestDirtyRect")
  /\ UNCHANGED <<net, inbox, flags, vncState, wire>>

\* requestAlreadyScheduled is no error: the scheduled callback stands.
RequestDirtyRect(c) ==
  /\ At(c, "requestDirtyRect")
  /\ Put({"callback"}, {})
  /\ Return(c)
  /\ UNCHANGED <<net, inbox, vncState, wire>>

PrepareForFBUpdate(c) ==
  /\ At(c, "vncPrepareForFBUpdate")
  /\ Put({"fbUpdateInProgress"}, {"fbUpdatePending"})
  /\ Goto(c, "VNCEncoder::begin")
  /\ UNCHANGED <<net, inbox, vncState, wire>>

\* The end of vncPrepareForFBUpdate: VNCEncoder::begin() and the decision to
\* send the frame now or to leave it to the tasks of the event loop.
EncoderBegin(c) ==
  /\ At(c, "VNCEncoder::begin")
  /\ \/ /\ "encoderChanged" \notin flags /\ "bufferReady" \in flags
        /\ ~HasChangesPending
        /\ Goto(c, "vncSendFBUpdateColorMap")
        /\ UNCHANGED flags
     \/ /\ "encoderChanged" \in flags \/ "bufferReady" \notin flags \/ HasChangesPending
        /\ Return(c)
        /\ Put({"runFBSyncedTasks"}, {"encoderChanged"})
  /\ UNCHANGED <<net, inbox, vncState, wire>>

----------------------------------------------------------------------------
(* The frame itself: one send after another on epb_send.                    *)

SendColorMap(c) ==
  /\ At(c, "vncSendFBUpdateColorMap")
  /\ \/ /\ HasWaitingColorMapUpdate
        /\ Put({"fbUpdateInProgress"}, {"fbUpdatePending", "fbColorMapNeedsUpdate"})
        /\ SendMessage("vncSendFBUpdateHeader")
        /\ Return(c)
     \/ /\ ~HasWaitingColorMapUpdate
        /\ Put({"fbUpdateInProgress"}, {"fbUpdatePending"})
        /\ Goto(c, "vncSendFBUpdateHeader")
        /\ UNCHANGED <<net, wire>>
  /\ UNCHANGED <<inbox, vncState>>

\* The header, with one more rectangle announced when the cursor has changed.
SendHeader(c) ==
  /\ At(c, "vncSendFBUpdateHeader")
  /\ \E proc \in {"vncFBUpdateEncodeCursor", "vncFBUpdateChunk"} :
       Send(proc, "between", "inFrame")
  /\ Put({}, {"owed"})
  /\ Return(c)
  /\ UNCHANGED <<inbox, vncState>>

EncodeCursor ==
  /\ At("irq", "vncFBUpdateEncodeCursor")
  /\ Send("vncFBUpdateChunk", "inFrame", "inFrame")
  /\ Goto("irq", "idle")
  /\ UNCHANGED <<inbox, flags, vncState>>

SendChunk ==
  /\ At("irq", "vncFBUpdateChunk")
  /\ Send("vncFBUpdateChunk", "inFrame", "inFrame")
  /\ Goto("irq", "idle")
  /\ UNCHANGED <<inbox, flags, vncState>>

SendLastChunk ==
  /\ At("irq", "vncFBUpdateChunk")
  /\ Send("vncFinishFBUpdate", "inFrame", "between")
  /\ Goto("irq", "idle")
  /\ UNCHANGED <<inbox, flags, vncState>>

FinishFBUpdate ==
  /\ At("irq", "vncFinishFBUpdate")
  /\ Put({}, {"fbUpdateInProgress"})
  /\ IF Pending THEN Call("irq", "vncSendFBUpdate", "endOfFrame")
                ELSE Goto("irq", "endOfFrame")
  /\ UNCHANGED <<net, inbox, vncState, wire>>

\* The rest of vncFinishFBUpdate: vncEndOfFrameSync and the next update.
EndOfFrame ==
  /\ At("irq", "endOfFrame")
  /\ IF Continuous THEN /\ SendMessage("vncDoNothing")
                        /\ Call("irq", "vncSendFBUpdate", "idle")
                   ELSE /\ Goto("irq", "idle")
                        /\ UNCHANGED <<net, wire>>
  /\ UNCHANGED <<inbox, flags, vncState>>

FinishMultiPartMessage ==
  /\ At("irq", "tcpFinishMultiPartMessage")
  /\ Put({}, {"fbUpdateInProgress"})
  /\ Goto("irq", "dispatchClientMessage")
  /\ UNCHANGED <<net, inbox, vncState, wire>>

InitialServerFence(c) ==
  /\ At(c, "vncInitialServerFence")
  /\ SendMessage("tcpFinishMultiPartMessage")
  /\ Goto(c, TopLevel(c))
  /\ UNCHANGED <<inbox, flags, vncState>>

DoNothing ==
  /\ At("irq", "vncDoNothing")
  /\ Goto("irq", "idle")
  /\ UNCHANGED <<net, inbox, flags, vncState, wire>>

----------------------------------------------------------------------------
(* Interrupts: completions of the two parameter blocks, and the VBL task.   *)

Completed(pb) == /\ pc["irq"] = "idle"
                 /\ out[pb] > 0
                 /\ out' = [out EXCEPT ![pb] = @ - 1]

SendCompleted ==
  /\ Completed("epb_send")
  /\ Call("irq", then["epb_send"], "idle")
  /\ UNCHANGED <<then, inbox, flags, vncState, wire>>

\* _tcpSuccess on a send: connectionClosing is left to the receive side, which
\* under autoRestart aborts the stream; any other error ends the session.
SendFailed ==
  /\ NetworkFails
  /\ Completed("epb_send")
  /\ \/ /\ then["epb_send"] \in Unchecked
        /\ Call("irq", then["epb_send"], "idle")
        /\ UNCHANGED vncState
     \/ /\ then["epb_send"] \notin Unchecked
        /\ vncState' = "VNC_ERROR" \/ (Closing /\ UNCHANGED vncState)
        /\ UNCHANGED control
  /\ UNCHANGED <<then, inbox, flags, wire>>

\* vncReadMessages: the buffers are back with MacTCP, wait for the next batch.
ReadMessages ==
  /\ pc["irq"] = "idle" /\ Quiet /\ out["epb_recv"] > 0
  /\ then["epb_recv"] = "vncReadMessages"
  /\ IF vncState = "VNC_RUNNING"
       THEN then' = [then EXCEPT !["epb_recv"] = "vncGotNewMessages"] /\ UNCHANGED out
       ELSE out' = [out EXCEPT !["epb_recv"] = @ - 1] /\ UNCHANGED then
  /\ UNCHANGED <<control, inbox, flags, vncState, wire>>

GotNewMessages ==
  /\ Completed("epb_recv") /\ MessageMayArrive
  /\ then["epb_recv"] = "vncGotNewMessages"
  /\ inbox' \in Batches
  /\ Call("irq", "dispatchClientMessage", "idle")
  /\ UNCHANGED <<then, flags, vncState, wire>>

\* _tcpSuccess on a receive: connectionClosing aborts the stream and goes back
\* to listening (tcpStreamCreated); any other error ends the session.
ReceiveFailed ==
  /\ NetworkFails
  /\ pc["irq"] = "idle" /\ out["epb_recv"] > 0
  /\ then["epb_recv"] \in {"vncReadMessages", "vncGotNewMessages"}
  /\ \/ /\ Closing
        /\ then' = [then EXCEPT !["epb_recv"] = "tcpStreamCreated"]
        /\ UNCHANGED <<out, vncState>>
     \/ /\ out' = [out EXCEPT !["epb_recv"] = @ - 1]
        /\ vncState' = "VNC_ERROR"
        /\ UNCHANGED then
  /\ UNCHANGED <<control, inbox, flags, wire>>

\* The abort or the release of the stream has completed: the session is over.
StreamGone ==
  /\ Completed("epb_recv")
  /\ \/ then["epb_recv"] = "tcpStreamCreated" /\ vncState' = "VNC_WAITING"
     \/ then["epb_recv"] = "tcpStreamClosed"  /\ vncState' = "VNC_STOPPED"
  /\ UNCHANGED <<control, then, inbox, flags, wire>>

\* myVBLTask when the hashes differ, with its callback vncGotDirtyRect.
GotDirtyRect ==
  /\ pc["irq"] = "idle" /\ Callback /\ RetraceMayCome
  /\ IF ~InProgress /\ vncState = "VNC_RUNNING"
       THEN Call("irq", "vncPrepareForFBUpdate", "myVBLTask")
       ELSE Goto("irq", "myVBLTask")
  /\ UNCHANGED <<net, inbox, flags, vncState, wire>>

VBLTaskDone ==
  /\ At("irq", "myVBLTask")
  /\ Put({}, {"callback"})
  /\ Goto("irq", "idle")
  /\ UNCHANGED <<net, inbox, vncState, wire>>

\* The client closes its half of the connection.
ClientCloses ==
  /\ NetworkFails /\ ~Closing
  /\ Put({"closing"}, {})
  /\ UNCHANGED <<control, net, inbox, vncState, wire>>

----------------------------------------------------------------------------
(* The event loop of main.cpp.                                              *)

\* An error is known, and the server is stopped for it.
CheckServerState ==
  /\ At("main", "eventLoop") /\ vncState = "VNC_ERROR"
  /\ Goto("main", "vncServerStop")
  /\ UNCHANGED <<net, inbox, flags, vncState, wire>>

\* EventGet, in which another program may change the colours of the screen,
\* followed by VNCPalette::idleTask.
CheckColorTable ==
  /\ At("main", "eventLoop")
  /\ \/ "seedStale" \notin flags /\ UNCHANGED flags
     \/ Put({"seedStale", "fbColorMapNeedsUpdate"}, {})
  /\ Goto("main", "vncServerIdleTask")
  /\ UNCHANGED <<net, inbox, vncState, wire>>

ServerIdleTask ==
  /\ At("main", "vncServerIdleTask")
  /\ IF InProgress \/ ~Deferred
       THEN Goto("main", "syncTasks") /\ UNCHANGED flags
       ELSE Goto("main", "dispatchClientMessage") /\ Put({}, {"deferred"})
  /\ UNCHANGED <<net, inbox, vncState, wire>>

StartSyncTasks ==
  /\ At("main", "syncTasks")
  /\ Goto("main", IF "runFBSyncedTasks" \in flags THEN "VNCEncoder::fbSyncTasks"
                                                  ELSE "eventLoop")
  /\ Put({}, {"runFBSyncedTasks"})
  /\ UNCHANGED <<net, inbox, vncState, wire>>

\* Sizes and allocates fbUpdateBuffer; there may be no memory for it.
EncoderSyncTasks ==
  /\ At("main", "VNCEncoder::fbSyncTasks")
  /\ \/ Put({"bufferReady"}, {}) /\ Goto("main", "VNCPalette::fbSyncTasks")
     \/ Put({}, {"bufferReady"}) /\ Goto("main", "vncServerStop")
  /\ UNCHANGED <<net, inbox, vncState, wire>>

\* updateColorTable: the pending format takes effect, and on an indexed screen a
\* palette that needs it is read again, unless there is no memory for the table.
ReadPalette == /\ IndexedScreen
               /\ {"formatPending", "fbColorMapNeedsUpdate"} \cap flags # {}
PaletteSyncTasks ==
  /\ At("main", "VNCPalette::fbSyncTasks")
  /\ \/ /\ Put((IF "formatPending" \in flags THEN {"trueColor"} ELSE {})
                 \cup (IF ReadPalette THEN {"fbColorMapNeedsUpdate"} ELSE {}),
               {"formatPending"} \cup (IF ReadPalette THEN {"seedStale"} ELSE {}))
        /\ Call("main", "vncSendFBUpdateColorMap", "eventLoop")
     \/ /\ ReadPalette /\ {"formatPending", "trueColor"} \cap flags # {}
        /\ Put({"trueColor", "fbColorMapNeedsUpdate"}, {"formatPending"})
        /\ Goto("main", "vncServerStop")
  /\ UNCHANGED <<net, inbox, vncState, wire>>

\* vncServerStop releases the stream on epb_recv, whatever that block is doing, if there
\* still is a stream.
ServerStop ==
  /\ At("main", "vncServerStop")
  /\ \/ vncState = "VNC_STOPPED" /\ UNCHANGED <<net, vncState>>
     \/ /\ vncState # "VNC_STOPPED"
        /\ vncState' = "VNC_STOPPING"
        /\ Post("epb_recv", "tcpStreamClosed")
  /\ Goto("main", "awaitStopped")
  /\ UNCHANGED <<inbox, flags, wire>>

\* The loop at the end of vncServerStop, left after ten seconds at the latest,
\* and the destroy() calls: no more callback, no more buffer.
AwaitStopped ==
  /\ At("main", "awaitStopped")
  /\ Put({}, {"callback", "bufferReady"})
  /\ Goto("main", "eventLoop")
  /\ UNCHANGED <<net, inbox, vncState, wire>>

----------------------------------------------------------------------------

Pipeline(c) ==
  \/ BatchFinished(c) \/ NextMessage(c) \/ PlainMessage(c)
  \/ SetPixelFormat(c) \/ SetEncodings(c) \/ ClientFence(c)
  \/ DispatchRequest(c) \/ IgnoreRequest(c) \/ AcceptRequest(c)
  \/ SetPending(c) \/ SetUpdateRect(c) \/ SendFBUpdate(c) \/ RequestDirtyRect(c)
  \/ PrepareForFBUpdate(c) \/ EncoderBegin(c) \/ SendColorMap(c) \/ SendHeader(c)
  \/ InitialServerFence(c)

Interrupt ==
  \/ Pipeline("irq") \/ DeferToMainLoop \/ EncodeCursor
  \/ SendChunk \/ SendLastChunk
  \/ FinishFBUpdate \/ EndOfFrame \/ FinishMultiPartMessage \/ DoNothing
  \/ VBLTaskDone

MainLoop ==
  \/ Pipeline("main") \/ EnableContUpdates \/ SetContinuous \/ DisableContUpdates
  \/ CheckServerState \/ CheckColorTable \/ ServerIdleTask \/ StartSyncTasks
  \/ EncoderSyncTasks \/ PaletteSyncTasks \/ ServerStop \/ AwaitStopped

Receive == ReadMessages \/ GotNewMessages \/ ReceiveFailed \/ StreamGone

Next == \/ Interrupt \/ MainLoop \/ Receive
        \/ SendCompleted \/ SendFailed \/ GotDirtyRect \/ ClientCloses

Spec == Init /\ [][Next]_vars

(* The scheduling the code relies on: an interrupt routine runs to its end;   *)
(* the interrupts leave the event loop some time; a call handed to MacTCP     *)
(* completes, and so does the encoding of a frame; and the screen keeps       *)
(* changing, without which an incremental request has no answer.              *)
Fairness ==
  /\ WF_vars(Interrupt)
  /\ SF_vars(SendLastChunk)
  /\ SF_vars(MainLoop)
  /\ SF_vars(SendCompleted)
  /\ SF_vars(ReadMessages)
  /\ SF_vars(GotDirtyRect)

FairSpec == Spec /\ Fairness

----------------------------------------------------------------------------
(* Properties.                                                              *)

\* Every variable holds a value of its type, and each context runs code of its
\* own: the completion routines and the VBL task never run on the event loop.
ControlType ==
  /\ pc  \in [Ctx -> MainLabels \cup IrqLabels]
  /\ ret \in [Ctx -> MainLabels \cup IrqLabels]
  /\ {pc["main"], ret["main"]} \subseteq MainLabels
  /\ {pc["irq"], ret["irq"]} \subseteq IrqLabels
NetType ==
  /\ out \in [PBs -> 0 .. MaxOutstanding]
  /\ then \in [PBs -> SendLabels \cup RecvLabels]
  /\ then["epb_send"] \in SendLabels /\ then["epb_recv"] \in RecvLabels
DataType ==
  /\ inbox \in Seq(Messages)
  /\ vncState \in States
  /\ flags \subseteq Flags
  /\ wire \in {"between", "inFrame", "broken"}
TypeOK == ControlType /\ NetType /\ DataType

\* The session is up: nothing has failed and neither side is ending it.
Running == vncState = "VNC_RUNNING" /\ ~Closing /\ pc["main"] # "vncServerStop"

\* The parts of the pipeline that can be carrying the frame in progress.
FrameSends == {"vncSendFBUpdateHeader", "vncFBUpdateEncodeCursor",
               "vncFBUpdateChunk", "vncFinishFBUpdate"}
FrameCode  == FrameSends \cup {"VNCEncoder::begin", "vncSendFBUpdateColorMap"}
SyncCode   == {"VNCEncoder::fbSyncTasks", "VNCPalette::fbSyncTasks"}
SyncTasksPending == "runFBSyncedTasks" \in flags \/ pc["main"] \in SyncCode
Drivers == {c \in Ctx : pc[c] \in FrameCode}
             \cup (IF SyncTasksPending THEN {"syncTasks"} ELSE {})
             \cup {pb \in {"epb_send"} : out[pb] > 0 /\ then[pb] \in FrameSends}

\* myWDS, vncServerMessage and epb_send exist once: no send is started on
\* epb_send before the completion routine of the previous one was entered.
SendRecordNotReused == out["epb_send"] <= 1

\* The client can parse what it gets: a frame's header, cursor and chunks follow
\* each other with no other message, and no second frame, between them.
FramesNotInterleaved == wire # "broken"

\* fbUpdateInProgress is the lock of the pipeline. While it is clear nothing
\* carries a frame; while it is set, exactly one thing does: a routine that is
\* running, the tasks waiting for the event loop, or a send not yet completed.
FrameHasOneDriver ==
  /\ \A d, e \in Drivers : d = e
  /\ ~InProgress => Drivers = {}
  /\ InProgress /\ Running => Drivers # {}

\* The event loop reallocates fbUpdateBuffer and changes fbPixFormat only when
\* no send can still be reading them and no frame has been half sent.
SyncTasksFindPipelineIdle ==
  pc["main"] \in SyncCode => out["epb_send"] = 0 /\ wire = "between" /\ InProgress

\* The code that answers an accepted request before its frame has a header.
Answering == {"setPending", "setUpdateRect", "vncSendFBUpdate", "requestDirtyRect",
              "vncPrepareForFBUpdate", "VNCEncoder::begin",
              "vncSendFBUpdateColorMap", "vncSendFBUpdateHeader"}

\* While the session is up, an accepted request that no frame has answered is
\* remembered: by fbUpdatePending, by the callback of the VBL task, or by the
\* frame that is about to be sent. None of the places that clear one of these
\* (VNCServer.cpp:1047 and 1119, myVBLTask after a busy callback) forgets it.
NoRequestForgotten ==
  Owed /\ Running =>
    \/ Pending \/ Callback \/ SyncTasksPending
    \/ \E c \in Ctx : pc[c] \in Answering
    \/ out["epb_send"] > 0 /\ then["epb_send"] = "vncSendFBUpdateHeader"

\* Once the client has enabled continuous updates it does not ask again, so the
\* server must not forget to: a dirty rectangle is always asked for, or a frame
\* is under way whose end will ask.
ContinuousUpdatesGoOn ==
  Continuous /\ Running =>
    Callback \/ InProgress \/ \E c \in Ctx : pc[c] \in Answering \cup {"endOfFrame"}

\* The code that is working on the messages of a batch.
BatchCode == {"dispatchClientMessage", "vncFBUpdateRequest", "setPending",
              "setUpdateRect", "nextMessage", "setContinuous",
              "vncInitialServerFence", "tcpFinishMultiPartMessage"}
Dispatching(c) == \/ pc[c] \in BatchCode
                  \/ /\ pc[c] \in Answering
                     /\ ret[c] \in {"nextMessage", "setContinuous"}
StreamOwners == {c \in Ctx : Dispatching(c)}
                  \cup (IF Deferred THEN {"deferred"} ELSE {})
                  \cup {pb \in {"epb_recv"} : out[pb] > 0}
                  \cup {pb \in {"epb_send"} : out[pb] > 0 /\ then[pb] \in BatchCode}

\* While the session runs, inStream and epb_recv have one user at a time: MacTCP,
\* one of the contexts, a batch put aside for the event loop, or the reply after
\* which a batch goes on. They are never without one, or the server would be deaf.
StreamHasOneOwner ==
  vncState = "VNC_RUNNING" =>
    /\ \A o, p \in StreamOwners : o = p
    /\ Running => StreamOwners # {}
    /\ out["epb_recv"] <= 1

\* An accepted request is answered by a frame, unless the session ends.
RequestsAnswered == Owed ~> (~Owed \/ ~Running)

\* Every batch is worked off, also one put aside for the event loop.
BatchesWorkedOff == inbox # <<>> ~> (inbox = <<>> \/ ~Running)

=============================================================================
