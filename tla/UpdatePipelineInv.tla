-------------------------- MODULE UpdatePipelineInv --------------------------
(* The inductive invariant behind the safety properties of UpdatePipeline,   *)
(* for a client without the TurboVNC extensions.                             *)
EXTENDS UpdatePipeline

Requests      == {"req", "full"}
PlainMessages == Requests \cup {"pixFmt", "setEnc", "input", "cut", "bad"}

\* The client uses no TurboVNC message, and no batch holds a request behind a
\* message that waits for the event loop.
OrderlyBatch(b) == \A i, j \in DOMAIN b : i < j /\ b[i] = "cut" => b[j] \notin Requests
PlainBatch(b)   == /\ \A i \in DOMAIN b : b[i] \in PlainMessages
                   /\ OrderlyBatch(b)
PlainClient     == \A b \in Batches : PlainBatch(b)

NoRequests(b) == \A i \in DOMAIN b : b[i] \notin Requests

\* What each context runs, when there is no TurboVNC client: the event loop never
\* handles an update request.
StartCode == {"setUpdateRect", "vncSendFBUpdate", "requestDirtyRect",
              "vncPrepareForFBUpdate"}
CallCode  == {"vncSendFBUpdate", "requestDirtyRect", "vncPrepareForFBUpdate",
              "VNCEncoder::begin", "vncSendFBUpdateColorMap", "vncSendFBUpdateHeader"}
PlainIrq  == StartCode \cup FrameCode \cup
             {"idle", "dispatchClientMessage", "vncFBUpdateRequest", "setPending",
              "nextMessage", "endOfFrame", "myVBLTask"}
PlainMain == {"eventLoop", "vncServerIdleTask", "syncTasks", "vncServerStop",
              "awaitStopped", "dispatchClientMessage", "nextMessage",
              "vncSendFBUpdateColorMap", "vncSendFBUpdateHeader"} \cup SyncCode

PlainInv ==
  /\ PlainBatch(inbox)
  /\ {"fbUpdateContinuous", "clientTakesContUpdt", "clientTakesFence"} \cap flags = {}
  /\ pc["irq"] \in PlainIrq /\ pc["main"] \in PlainMain
  /\ pc["irq"] \in CallCode => ret["irq"] \in {"idle", "nextMessage", "endOfFrame", "myVBLTask"}
  /\ pc["irq"] \in {"vncSendFBUpdate", "requestDirtyRect"} => ret["irq"] # "myVBLTask"
  /\ pc["main"] \in CallCode => ret["main"] = "eventLoop"
  /\ then["epb_send"] \in FrameSends \cup {"vncDoNothing"}
  /\ out["epb_send"] > 0 => then["epb_send"] \in FrameSends

\* The batch in inStream has one owner, and MacTCP none to overwrite it with.
IrqHasBatch  == \/ pc["irq"] \in {"dispatchClientMessage", "vncFBUpdateRequest",
                                  "setPending", "setUpdateRect", "nextMessage"}
                \/ pc["irq"] \in CallCode /\ ret["irq"] = "nextMessage"
MainHasBatch == pc["main"] \in {"dispatchClientMessage", "nextMessage"}
BatchInv ==
  /\ ~(Deferred /\ MainHasBatch) /\ ~(Deferred /\ IrqHasBatch)
  /\ ~(MainHasBatch /\ IrqHasBatch)
  /\ Deferred \/ MainHasBatch => NoRequests(inbox)
  /\ then["epb_recv"] = "vncGotNewMessages" =>
       /\ out["epb_recv"] <= 1
       /\ Deferred \/ MainHasBatch \/ IrqHasBatch => out["epb_recv"] = 0
  /\ vncState = "VNC_RUNNING" =>
       /\ out["epb_recv"] <= 1
       /\ Deferred \/ MainHasBatch \/ IrqHasBatch => out["epb_recv"] = 0
  /\ Running => Deferred \/ MainHasBatch \/ IrqHasBatch \/ out["epb_recv"] > 0

\* fbUpdateInProgress protects the pipeline.
IrqDrives  == pc["irq"] \in FrameCode
MainDrives == pc["main"] \in {"vncSendFBUpdateColorMap", "vncSendFBUpdateHeader"}
NetDrives  == out["epb_send"] > 0
LockInv ==
  /\ out["epb_send"] <= 1
  /\ pc["irq"] \in StartCode => ~InProgress
  /\ IrqDrives \/ MainDrives \/ SyncTasksPending \/ NetDrives => InProgress
  /\ ~(IrqDrives /\ MainDrives) /\ ~(IrqDrives /\ SyncTasksPending)
  /\ ~(IrqDrives /\ NetDrives) /\ ~(MainDrives /\ SyncTasksPending)
  /\ ~(MainDrives /\ NetDrives) /\ ~(SyncTasksPending /\ NetDrives)
  /\ pc["main"] \in SyncCode => "runFBSyncedTasks" \notin flags
  /\ InProgress /\ Running => IrqDrives \/ MainDrives \/ SyncTasksPending \/ NetDrives

\* Where the byte stream stands, for each place a frame can have got to.
BodyCode == {"vncFBUpdateEncodeCursor", "vncFBUpdateChunk"}
WireInv ==
  /\ wire # "broken"
  /\ ~InProgress \/ MainDrives \/ SyncTasksPending => wire = "between"
  /\ IrqDrives => wire = (IF pc["irq"] \in BodyCode THEN "inFrame" ELSE "between")
  /\ NetDrives => wire = (IF then["epb_send"] \in BodyCode THEN "inFrame" ELSE "between")

\* Where an accepted request is kept while a frame is in progress: the callback
\* of the VBL task does not count then, for myVBLTask forgets it without effect.
BeforeHeader == {"setPending", "VNCEncoder::begin", "vncSendFBUpdateColorMap",
                 "vncSendFBUpdateHeader"}
OwedInv ==
  /\ NoRequestForgotten
  /\ Owed /\ Running /\ InProgress =>
       \/ Pending \/ SyncTasksPending
       \/ \E c \in Ctx : pc[c] \in BeforeHeader
       \/ NetDrives /\ then["epb_send"] = "vncSendFBUpdateHeader"
  /\ pc["irq"] = "myVBLTask" /\ Running => InProgress
  /\ pc["main"] = "awaitStopped" => ~Running

IInv == TypeOK /\ PlainInv /\ BatchInv /\ LockInv /\ WireInv /\ OwedInv

=============================================================================
