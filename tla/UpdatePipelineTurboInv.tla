------------------------ MODULE UpdatePipelineTurboInv ------------------------
(* The inductive invariant behind the safety properties of UpdatePipeline,   *)
(* for a client with the TurboVNC extensions, under the timing they need.    *)
EXTENDS UpdatePipelineInv

Answered == {"setEnc", "setEncFence", "setEncTurbo", "fence", "contOff"}
Starting == Requests \cup {"contOn"}

\* In one batch nothing that may be answered comes behind a message that may start
\* a frame, and no request behind a message that leaves the batch to the event loop
\* (an answered one does not: it goes on at interrupt level).
TurboBatch(b) ==
  \A i, j \in DOMAIN b : i < j =>
    /\ b[i] \in Starting => b[j] \notin Answered
    /\ b[i] \in {"cut", "contOn"} => b[j] \notin Requests
TurboClient == Timely /\ \A b \in Batches : TurboBatch(b)

\* The client sends no fence that asks for no answer.
AsksAnswer(b) == \A i \in DOMAIN b : b[i] # "fenceNoReq"
FencesAsk     == \A b \in Batches : AsksAnswer(b)

NoAnswers(b)  == \A i \in DOMAIN b : b[i] \notin Answered
LeftToMain(b) == NoRequests(b) \/ (b # <<>> /\ Head(b) = "contOff")

\* What each context runs, and where it returns: the event loop starts a frame for
\* continuous updates only, and that frame waits for the synchronised tasks.
Beginning == StartCode \cup {"VNCEncoder::begin"}
CodeInv ==
  /\ pc["main"] \notin {"vncFBUpdateRequest", "setPending", "setUpdateRect"}
  /\ pc["main"] \in Beginning => ret["main"] = "setContinuous"
  /\ pc["main"] \in {"vncSendFBUpdateColorMap", "vncSendFBUpdateHeader"} =>
       ret["main"] = "eventLoop"
  /\ pc["irq"] \in CallCode => ret["irq"] \in {"idle", "nextMessage", "endOfFrame", "myVBLTask"}
  /\ pc["irq"] \in {"vncSendFBUpdate", "requestDirtyRect"} => ret["irq"] # "myVBLTask"
  /\ pc["irq"] = "vncSendFBUpdateColorMap" => ret["irq"] \in {"nextMessage", "myVBLTask"}
  /\ pc["irq"] = "vncSendFBUpdateHeader" => ret["irq"] # "endOfFrame"
  /\ then["epb_send"] \in FrameSends \cup Replies

\* The batch has one holder, an answer under way among them. The event loop holds it
\* undisturbed; who holds it while a frame is in progress has nothing more to answer.
BatchReplies == {"vncInitialServerFence", "tcpFinishMultiPartMessage"}
MainHolds  == \/ pc["main"] \in {"dispatchClientMessage", "nextMessage", "setContinuous",
                                 "vncInitialServerFence"}
              \/ pc["main"] \in Beginning
IrqHolds   == \/ pc["irq"] \in {"dispatchClientMessage", "vncFBUpdateRequest", "setPending",
                                "setUpdateRect", "nextMessage"} \cup BatchReplies
              \/ pc["irq"] \in CallCode /\ ret["irq"] = "nextMessage"
ReplyHolds == out["epb_send"] > 0 /\ then["epb_send"] \in BatchReplies
Serving    == \/ pc["main"] \in Beginning \cup {"setContinuous"}
              \/ pc["irq"] \in {"vncFBUpdateRequest", "setPending", "setUpdateRect"}
              \/ pc["irq"] \in CallCode /\ ret["irq"] = "nextMessage"
Held       == Deferred \/ MainHolds \/ IrqHolds \/ ReplyHolds
HolderInv ==
  /\ TurboBatch(inbox) /\ (FencesAsk => AsksAnswer(inbox))
  /\ ~(Deferred /\ MainHolds) /\ ~(Deferred /\ IrqHolds) /\ ~(Deferred /\ ReplyHolds)
  /\ ~(MainHolds /\ IrqHolds) /\ ~(MainHolds /\ ReplyHolds) /\ ~(IrqHolds /\ ReplyHolds)
  /\ MainHolds => pc["irq"] = "idle" /\ out["epb_send"] = 0
  /\ IrqHolds /\ ~InProgress => out["epb_send"] = 0
  /\ Deferred \/ pc["main"] = "dispatchClientMessage" => LeftToMain(inbox)
  /\ MainHolds /\ pc["main"] # "dispatchClientMessage" => NoRequests(inbox)
  /\ (IrqHolds \/ MainHolds) /\ (InProgress \/ Serving) => NoAnswers(inbox)
  /\ MainHolds /\ InProgress /\ ~Serving => Continuous
  /\ ReplyHolds \/ pc["irq"] \in BatchReplies \/ pc["main"] = "vncInitialServerFence" =>
       ~InProgress
  /\ then["epb_recv"] = "vncGotNewMessages" \/ vncState = "VNC_RUNNING" =>
       /\ out["epb_recv"] <= 1
       /\ Held => out["epb_recv"] = 0
  /\ FencesAsk /\ Running => Held \/ out["epb_recv"] > 0

\* Who carries the frame in progress. The end of a frame may find one begun that waits
\* for the synchronised tasks, and begins it again: that one waits for them once more.
TasksAsked == "runFBSyncedTasks" \in flags
IrqBegins  == pc["irq"] = "VNCEncoder::begin"
IrqSends   == pc["irq"] \in FrameSends \cup {"vncSendFBUpdateColorMap"}
MainFrame  == pc["main"] \in {"VNCEncoder::begin", "vncSendFBUpdateColorMap",
                              "vncSendFBUpdateHeader"}
SendFrame  == out["epb_send"] > 0 /\ then["epb_send"] \in FrameSends
Carried    == IrqBegins \/ IrqSends \/ MainFrame \/ SendFrame \/ SyncTasksPending
DriverInv ==
  /\ out["epb_send"] <= 1
  /\ Carried => InProgress
  /\ InProgress /\ Running => Carried
  /\ ~(IrqSends /\ SyncTasksPending) /\ ~(MainFrame /\ SyncTasksPending)
  /\ ~(SendFrame /\ SyncTasksPending)
  /\ IrqSends \/ pc["irq"] \in {"endOfFrame", "vncDoNothing"} => out["epb_send"] = 0
  /\ pc["irq"] \in Beginning => \/ out["epb_send"] = 0
                                \/ ret["irq"] = "idle" /\ then["epb_send"] = "vncDoNothing"
  /\ pc["irq"] \in {"vncPrepareForFBUpdate", "VNCEncoder::begin"} =>
       HasChangesPending \/ ret["irq"] \notin {"endOfFrame", "idle"}
  /\ pc["irq"] \in StartCode \cup {"endOfFrame"} /\ InProgress =>
       /\ HasChangesPending /\ TasksAsked
       /\ pc["irq"] = "endOfFrame" \/ ret["irq"] = "idle"
  /\ IrqBegins /\ SyncTasksPending => ret["irq"] = "idle"
  /\ pc["irq"] \in {"setUpdateRect", "requestDirtyRect"} => ~InProgress
  /\ pc["irq"] = "setPending" => InProgress
  /\ pc["main"] \in StartCode => ~InProgress
  /\ pc["main"] \in {"vncPrepareForFBUpdate", "VNCEncoder::begin"} => HasChangesPending
  /\ MainFrame => pc["irq"] = "idle" /\ out["epb_send"] = 0
  /\ pc["main"] \in SyncCode =>
       /\ ~TasksAsked /\ out["epb_send"] = 0
       /\ pc["irq"] \in {"idle", "myVBLTask"}

\* Where the byte stream stands, for each place a frame can have got to.
BytesInv ==
  /\ wire # "broken"
  /\ ~InProgress \/ IrqBegins \/ MainFrame \/ SyncTasksPending => wire = "between"
  /\ IrqSends => wire = (IF pc["irq"] \in BodyCode THEN "inFrame" ELSE "between")
  /\ SendFrame => wire = (IF then["epb_send"] \in BodyCode THEN "inFrame" ELSE "between")

\* What has been promised to the client, and where it is remembered.
PromiseInv ==
  /\ NoRequestForgotten
  /\ ContinuousUpdatesGoOn
  /\ Owed /\ Running /\ InProgress =>
       \/ Pending \/ SyncTasksPending
       \/ \E c \in Ctx : pc[c] \in BeforeHeader
       \/ SendFrame /\ then["epb_send"] = "vncSendFBUpdateHeader"
  /\ pc["main"] = "setContinuous" => Callback \/ TasksAsked
  /\ pc["irq"] = "myVBLTask" /\ Running => InProgress
  /\ pc["main"] = "awaitStopped" => ~Running

TurboInv == TypeOK /\ CodeInv /\ HolderInv /\ DriverInv /\ BytesInv /\ PromiseInv

\* With one request in a batch none comes in during a frame, so that none is put
\* aside, and the end of a frame finds no frame begun.
OneRequest(b) == \A i, j \in DOMAIN b : i < j /\ b[i] \in Requests => b[j] \notin Requests
SingleClient  == \A b \in Batches : OneRequest(b)
SingleInv ==
  /\ OneRequest(inbox)
  /\ ~Pending /\ pc["irq"] # "setPending"
  /\ pc["irq"] \in CallCode => ret["irq"] # "endOfFrame"
  /\ pc["irq"] \in StartCode \cup {"vncFBUpdateRequest", "endOfFrame"} => ~InProgress
  /\ IrqBegins => ~SyncTasksPending
  /\ pc["irq"] = "dispatchClientMessage" /\ InProgress => NoRequests(inbox)
  /\ pc["irq"] \in {"vncFBUpdateRequest", "setUpdateRect"} => NoRequests(Skipped)
  /\ pc["irq"] \in CallCode /\ ret["irq"] = "nextMessage" => NoRequests(Skipped)
  /\ pc["irq"] = "nextMessage" /\ InProgress => NoRequests(Skipped)

=============================================================================
