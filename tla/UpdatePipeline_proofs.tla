------------------------ MODULE UpdatePipeline_proofs ------------------------
(* Proofs about UpdatePipeline: its types, the inductive invariant IInv, and *)
(* the safety properties, for every value of the constants under which the   *)
(* client does not use the TurboVNC extensions (PlainClient).                *)
EXTENDS UpdatePipelineTurboInv, TLAPS

----------------------------------------------------------------------------
(* Types.                                                                    *)

\* What inStream.skip leaves is again a batch of messages, and so is nothing.
LEMMA SkippedType ==
  /\ inbox \in Seq(Messages) => Skipped \in Seq(Messages)
  /\ <<>> \in Seq(Messages)
  BY DEF Skipped

\* A step keeps the type of every variable.
LEMMA TypeStep ==
  ASSUME TypeOK, [Next]_vars
  PROVE  TypeOK'
  <2> USE MaxOutstandingAssumption, BatchesAssumption, SkippedType
      DEF Ctx, PBs, TypeOK, ControlType, NetType, DataType, Flags, States,
          SharedLabels, SendLabels, RecvLabels, IrqLabels, MainLabels,
          At, Goto, Call, Return, Put, Post, Send, SendMessage, Completed,
          TopLevel, Next1, control, net
  <2>1. ASSUME NEW c \in Ctx, BatchFinished(c) PROVE TypeOK'
    BY <2>1 DEF BatchFinished
  <2>2. ASSUME NEW c \in Ctx, NextMessage(c) PROVE TypeOK'
    <3>1. ControlType'
      BY <2>2 DEF NextMessage
    <3>2. NetType'
      BY <2>2 DEF NextMessage
    <3>3. DataType'
      BY <2>2 DEF NextMessage
    <3> QED
      BY <3>1, <3>2, <3>3 DEF TypeOK
  <2>3. ASSUME NEW c \in Ctx, PlainMessage(c) PROVE TypeOK'
    <3>1. ControlType'
      BY <2>3 DEF PlainMessage
    <3>2. NetType'
      BY <2>3 DEF PlainMessage
    <3>3. DataType'
      BY <2>3 DEF PlainMessage
    <3> QED
      BY <3>1, <3>2, <3>3 DEF TypeOK
  <2>4. ASSUME NEW c \in Ctx, SetPixelFormat(c) PROVE TypeOK'
    BY <2>4 DEF SetPixelFormat
  <2>5. ASSUME NEW c \in Ctx, SetEncodings(c) PROVE TypeOK'
    <3>1. ControlType'
      BY <2>5 DEF SetEncodings, PseudoEncodings
    <3>2. NetType'
      BY <2>5 DEF SetEncodings, PseudoEncodings
    <3>3. DataType'
      BY <2>5 DEF SetEncodings, PseudoEncodings
    <3> QED
      BY <3>1, <3>2, <3>3 DEF TypeOK
  <2>6. ASSUME NEW c \in Ctx, ClientFence(c) PROVE TypeOK'
    <3>1. ControlType'
      BY <2>6 DEF ClientFence
    <3>2. NetType'
      BY <2>6 DEF ClientFence
    <3>3. DataType'
      BY <2>6 DEF ClientFence
    <3> QED
      BY <3>1, <3>2, <3>3 DEF TypeOK
  <2>7. ASSUME NEW c \in Ctx, DispatchRequest(c) PROVE TypeOK'
    BY <2>7 DEF DispatchRequest
  <2>8. ASSUME NEW c \in Ctx, IgnoreRequest(c) PROVE TypeOK'
    BY <2>8 DEF IgnoreRequest
  <2>9. ASSUME NEW c \in Ctx, AcceptRequest(c) PROVE TypeOK'
    BY <2>9 DEF AcceptRequest
  <2>10. ASSUME NEW c \in Ctx, SetPending(c) PROVE TypeOK'
    BY <2>10 DEF SetPending
  <2>11. ASSUME NEW c \in Ctx, SetUpdateRect(c) PROVE TypeOK'
    BY <2>11 DEF SetUpdateRect
  <2>12. ASSUME NEW c \in Ctx, SendFBUpdate(c) PROVE TypeOK'
    BY <2>12 DEF SendFBUpdate
  <2>13. ASSUME NEW c \in Ctx, RequestDirtyRect(c) PROVE TypeOK'
    BY <2>13 DEF RequestDirtyRect
  <2>14. ASSUME NEW c \in Ctx, PrepareForFBUpdate(c) PROVE TypeOK'
    BY <2>14 DEF PrepareForFBUpdate
  <2>15. ASSUME NEW c \in Ctx, EncoderBegin(c) PROVE TypeOK'
    <3>1. ControlType'
      BY <2>15 DEF EncoderBegin
    <3>2. NetType'
      BY <2>15 DEF EncoderBegin
    <3>3. DataType'
      BY <2>15 DEF EncoderBegin
    <3> QED
      BY <3>1, <3>2, <3>3 DEF TypeOK
  <2>16. ASSUME NEW c \in Ctx, SendColorMap(c) PROVE TypeOK'
    <3>1. ControlType'
      BY <2>16 DEF SendColorMap
    <3>2. NetType'
      BY <2>16 DEF SendColorMap
    <3>3. DataType'
      BY <2>16 DEF SendColorMap
    <3> QED
      BY <3>1, <3>2, <3>3 DEF TypeOK
  <2>17. ASSUME NEW c \in Ctx, SendHeader(c) PROVE TypeOK'
    BY <2>17 DEF SendHeader
  <2>18. ASSUME NEW c \in Ctx, InitialServerFence(c) PROVE TypeOK'
    BY <2>18 DEF InitialServerFence
  <2>19. CASE DeferToMainLoop
    BY <2>19 DEF DeferToMainLoop
  <2>20. CASE EncodeCursor
    BY <2>20 DEF EncodeCursor
  <2>21. CASE SendChunk
    BY <2>21 DEF SendChunk
  <2>22. CASE SendLastChunk
    BY <2>22 DEF SendLastChunk
  <2>23. CASE FinishFBUpdate
    BY <2>23 DEF FinishFBUpdate
  <2>24. CASE EndOfFrame
    BY <2>24 DEF EndOfFrame
  <2>25. CASE FinishMultiPartMessage
    BY <2>25 DEF FinishMultiPartMessage
  <2>26. CASE DoNothing
    BY <2>26 DEF DoNothing
  <2>27. CASE VBLTaskDone
    BY <2>27 DEF VBLTaskDone
  <2>28. CASE EnableContUpdates
    BY <2>28 DEF EnableContUpdates
  <2>29. CASE SetContinuous
    BY <2>29 DEF SetContinuous
  <2>30. CASE DisableContUpdates
    <3>1. ControlType'
      BY <2>30 DEF DisableContUpdates
    <3>2. NetType'
      BY <2>30 DEF DisableContUpdates
    <3>3. DataType'
      BY <2>30 DEF DisableContUpdates
    <3> QED
      BY <3>1, <3>2, <3>3 DEF TypeOK
  <2>31. CASE CheckServerState
    BY <2>31 DEF CheckServerState
  <2>32. CASE CheckColorTable
    BY <2>32 DEF CheckColorTable
  <2>33. CASE ServerIdleTask
    <3>1. ControlType'
      BY <2>33 DEF ServerIdleTask
    <3>2. NetType'
      BY <2>33 DEF ServerIdleTask
    <3>3. DataType'
      BY <2>33 DEF ServerIdleTask
    <3> QED
      BY <3>1, <3>2, <3>3 DEF TypeOK
  <2>34. CASE StartSyncTasks
    BY <2>34 DEF StartSyncTasks
  <2>35. CASE EncoderSyncTasks
    <3>1. ControlType'
      BY <2>35 DEF EncoderSyncTasks
    <3>2. NetType'
      BY <2>35 DEF EncoderSyncTasks
    <3>3. DataType'
      BY <2>35 DEF EncoderSyncTasks
    <3> QED
      BY <3>1, <3>2, <3>3 DEF TypeOK
  <2>36. CASE PaletteSyncTasks
    <3>1. ControlType'
      BY <2>36 DEF PaletteSyncTasks, ReadPalette
    <3>2. NetType'
      BY <2>36 DEF PaletteSyncTasks, ReadPalette
    <3>3. DataType'
      BY <2>36 DEF PaletteSyncTasks, ReadPalette
    <3> QED
      BY <3>1, <3>2, <3>3 DEF TypeOK
  <2>37. CASE ServerStop
    BY <2>37 DEF ServerStop
  <2>38. CASE AwaitStopped
    BY <2>38 DEF AwaitStopped
  <2>39. CASE ReadMessages
    BY <2>39 DEF ReadMessages
  <2>40. CASE GotNewMessages
    BY <2>40 DEF GotNewMessages
  <2>41. CASE ReceiveFailed
    BY <2>41 DEF ReceiveFailed
  <2>42. CASE StreamGone
    BY <2>42 DEF StreamGone
  <2>43. CASE SendCompleted
    BY <2>43 DEF SendCompleted
  <2>44. CASE SendFailed
    BY <2>44 DEF SendFailed
  <2>45. CASE GotDirtyRect
    BY <2>45 DEF GotDirtyRect
  <2>46. CASE ClientCloses
    BY <2>46 DEF ClientCloses
  <2>47. CASE UNCHANGED vars
    BY <2>47 DEF vars
  <2> QED
    BY <2>1, <2>2, <2>3, <2>4, <2>5, <2>6, <2>7, <2>8, <2>9, <2>10, <2>11,
       <2>12, <2>13, <2>14, <2>15, <2>16, <2>17, <2>18, <2>19, <2>20, <2>21,
       <2>22, <2>23, <2>24, <2>25, <2>26, <2>27, <2>28, <2>29, <2>30, <2>31,
       <2>32, <2>33, <2>34, <2>35, <2>36, <2>37, <2>38, <2>39, <2>40, <2>41,
       <2>42, <2>43, <2>44, <2>45, <2>46, <2>47
       DEF Next, Pipeline, Interrupt, MainLoop, Receive

\* Every variable keeps its type, and each context its own code.
THEOREM TypeCorrect == Spec => []TypeOK
<1>1. Init => TypeOK
  BY MaxOutstandingAssumption, ConfigAssumption
     DEF Init, TopLevel, Messages, Ctx, PBs, TypeOK, ControlType, NetType,
         DataType, Flags, States, SharedLabels, SendLabels, RecvLabels,
         IrqLabels, MainLabels
<1> QED
  BY <1>1, TypeStep, PTL DEF Spec

----------------------------------------------------------------------------
(* The batch of messages: the only facts about sequences that the steps need. *)

\* Skipping a message leaves a plain batch plain: positions move down by one.
LEMMA SkippedPlain ==
  ASSUME inbox \in Seq(Messages), PlainBatch(inbox)
  PROVE  PlainBatch(Skipped)
  BY DEF PlainBatch, OrderlyBatch, Skipped

\* Skipping a message adds no update request.
LEMMA SkippedNoRequests ==
  ASSUME inbox \in Seq(Messages), NoRequests(inbox)
  PROVE  NoRequests(Skipped)
  BY DEF NoRequests, Skipped

\* What is said of every message of a batch is true of the next one.
LEMMA HeadPlain ==
  ASSUME inbox \in Seq(Messages), inbox # <<>>
  PROVE  /\ PlainBatch(inbox) => Head(inbox) \in PlainMessages
         /\ NoRequests(inbox) => Head(inbox) \notin Requests
  BY DEF NoRequests, PlainBatch

\* A batch that waits for the event loop holds no more update requests.
LEMMA CutNoRequests ==
  ASSUME inbox \in Seq(Messages), inbox # <<>>, PlainBatch(inbox), Head(inbox) = "cut"
  PROVE  NoRequests(inbox)
  <1> SUFFICES ASSUME NEW j \in DOMAIN inbox PROVE inbox[j] \notin Requests
    BY DEF NoRequests
  <1>1. CASE j = 1
    BY <1>1 DEF Requests
  <1>2. CASE j # 1
    BY <1>2 DEF PlainBatch, OrderlyBatch
  <1> QED
    BY <1>1, <1>2

\* How the batch can change in a step, with the two predicates left closed.
LEMMA BatchFacts ==
  ASSUME PlainClient, IInv
  PROVE  /\ inbox # <<>> => /\ Head(inbox) \in PlainMessages
                            /\ NoRequests(inbox) => Head(inbox) \notin Requests
                            /\ Head(inbox) = "cut" => NoRequests(inbox)
         /\ inbox' = inbox => /\ PlainBatch(inbox)'
                              /\ NoRequests(inbox) => NoRequests(inbox)'
         /\ inbox' = Skipped => /\ PlainBatch(inbox)'
                                /\ NoRequests(inbox) => NoRequests(inbox)'
         /\ inbox' = <<>> => PlainBatch(inbox)' /\ NoRequests(inbox)'
         /\ inbox' \in Batches => PlainBatch(inbox)'
  <1>1. inbox \in Seq(Messages) /\ PlainBatch(inbox)
    BY DEF IInv, TypeOK, DataType, PlainInv
  <1>2. inbox' = inbox => /\ PlainBatch(inbox)'
                          /\ NoRequests(inbox) => NoRequests(inbox)'
    BY <1>1 DEF PlainBatch, OrderlyBatch, NoRequests
  <1>3. ASSUME inbox' = Skipped
        PROVE  /\ PlainBatch(inbox)'
               /\ NoRequests(inbox) => NoRequests(inbox)'
    <2>1. PlainBatch(Skipped) /\ (NoRequests(inbox) => NoRequests(Skipped))
      BY <1>1, SkippedPlain, SkippedNoRequests
    <2> QED
      BY <2>1, <1>3 DEF PlainBatch, OrderlyBatch, NoRequests
  <1>4. inbox' \in Batches => PlainBatch(inbox)'
    BY DEF PlainClient, PlainBatch, OrderlyBatch
  <1>5. inbox' = <<>> => PlainBatch(inbox)' /\ NoRequests(inbox)'
    BY DEF PlainBatch, OrderlyBatch, NoRequests
  <1> QED
    BY <1>1, <1>2, <1>3, <1>4, <1>5, HeadPlain, CutNoRequests

\* The part of the type invariant that the steps below need.
LEMMA StateFacts ==
  ASSUME IInv
  PROVE  /\ DOMAIN pc = Ctx /\ DOMAIN ret = Ctx
         /\ DOMAIN then = PBs /\ out \in [PBs -> Nat]
  BY MaxOutstandingAssumption DEF IInv, TypeOK, ControlType, NetType

----------------------------------------------------------------------------
(* The inductive invariant: one lemma for each of its parts.                 *)

\* A step keeps each context to its code, and the batch to one owner.
LEMMA BatchStep ==
  ASSUME PlainClient, IInv, [Next]_vars
  PROVE  (PlainInv /\ BatchInv)'
  <2> DEFINE J == PlainInv /\ BatchInv
  <2> USE BatchFacts, StateFacts DEF IInv, PlainInv, BatchInv, LockInv,
      Requests, PlainMessages, StartCode, CallCode, PlainIrq, PlainMain,
      FrameSends, FrameCode, SyncCode, SyncTasksPending, IrqHasBatch,
      MainHasBatch, IrqDrives, MainDrives, NetDrives, InProgress, Pending,
      Continuous, Deferred, Callback, Closing, HasChangesPending,
      HasWaitingColorMapUpdate, Running, Ignored, Ctx, PBs, At, Goto, Call,
      Return, Put, Post, Send, SendMessage, Completed, TopLevel, Next1,
      control, net
  <2>1. ASSUME NEW c \in Ctx, BatchFinished(c) PROVE J'
    BY <2>1 DEF BatchFinished
  <2>2. ASSUME NEW c \in Ctx, NextMessage(c) PROVE J'
    BY <2>2 DEF NextMessage
  <2>3. ASSUME NEW c \in Ctx, PlainMessage(c) PROVE J'
    BY <2>3 DEF PlainMessage
  <2>4. ASSUME NEW c \in Ctx, SetPixelFormat(c) PROVE J'
    BY <2>4 DEF SetPixelFormat
  <2>5. ASSUME NEW c \in Ctx, SetEncodings(c) PROVE J'
    BY <2>5 DEF SetEncodings, PseudoEncodings
  <2>6. ASSUME NEW c \in Ctx, ClientFence(c) PROVE J'
    BY <2>6 DEF ClientFence
  <2>7. ASSUME NEW c \in Ctx, DispatchRequest(c) PROVE J'
    BY <2>7 DEF DispatchRequest
  <2>8. ASSUME NEW c \in Ctx, IgnoreRequest(c) PROVE J'
    BY <2>8 DEF IgnoreRequest
  <2>9. ASSUME NEW c \in Ctx, AcceptRequest(c) PROVE J'
    BY <2>9 DEF AcceptRequest
  <2>10. ASSUME NEW c \in Ctx, SetPending(c) PROVE J'
    BY <2>10 DEF SetPending
  <2>11. ASSUME NEW c \in Ctx, SetUpdateRect(c) PROVE J'
    BY <2>11 DEF SetUpdateRect
  <2>12. ASSUME NEW c \in Ctx, SendFBUpdate(c) PROVE J'
    BY <2>12 DEF SendFBUpdate
  <2>13. ASSUME NEW c \in Ctx, RequestDirtyRect(c) PROVE J'
    BY <2>13 DEF RequestDirtyRect
  <2>14. ASSUME NEW c \in Ctx, PrepareForFBUpdate(c) PROVE J'
    BY <2>14 DEF PrepareForFBUpdate
  <2>15. ASSUME NEW c \in Ctx, EncoderBegin(c) PROVE J'
    BY <2>15 DEF EncoderBegin
  <2>16. ASSUME NEW c \in Ctx, SendColorMap(c) PROVE J'
    BY <2>16 DEF SendColorMap
  <2>17. ASSUME NEW c \in Ctx, SendHeader(c) PROVE J'
    BY <2>17 DEF SendHeader
  <2>18. ASSUME NEW c \in Ctx, InitialServerFence(c) PROVE J'
    BY <2>18 DEF InitialServerFence
  <2>19. CASE DeferToMainLoop
    BY <2>19 DEF DeferToMainLoop
  <2>20. CASE EncodeCursor
    BY <2>20 DEF EncodeCursor
  <2>21. CASE SendChunk
    BY <2>21 DEF SendChunk
  <2>22. CASE SendLastChunk
    BY <2>22 DEF SendLastChunk
  <2>23. CASE FinishFBUpdate
    BY <2>23 DEF FinishFBUpdate
  <2>24. CASE EndOfFrame
    BY <2>24 DEF EndOfFrame
  <2>25. CASE FinishMultiPartMessage
    BY <2>25 DEF FinishMultiPartMessage
  <2>26. CASE DoNothing
    BY <2>26 DEF DoNothing
  <2>27. CASE VBLTaskDone
    BY <2>27 DEF VBLTaskDone
  <2>28. CASE EnableContUpdates
    BY <2>28 DEF EnableContUpdates
  <2>29. CASE SetContinuous
    BY <2>29 DEF SetContinuous
  <2>30. CASE DisableContUpdates
    BY <2>30 DEF DisableContUpdates
  <2>31. CASE CheckServerState
    BY <2>31 DEF CheckServerState
  <2>32. CASE CheckColorTable
    BY <2>32 DEF CheckColorTable
  <2>33. CASE ServerIdleTask
    BY <2>33 DEF ServerIdleTask
  <2>34. CASE StartSyncTasks
    BY <2>34 DEF StartSyncTasks
  <2>35. CASE EncoderSyncTasks
    BY <2>35 DEF EncoderSyncTasks
  <2>36. CASE PaletteSyncTasks
    BY <2>36 DEF PaletteSyncTasks, ReadPalette
  <2>37. CASE ServerStop
    BY <2>37 DEF ServerStop
  <2>38. CASE AwaitStopped
    BY <2>38 DEF AwaitStopped
  <2>39. CASE ReadMessages
    BY <2>39 DEF ReadMessages
  <2>40. CASE GotNewMessages
    BY <2>40 DEF GotNewMessages
  <2>41. CASE ReceiveFailed
    BY <2>41 DEF ReceiveFailed
  <2>42. CASE StreamGone
    BY <2>42 DEF StreamGone
  <2>43. CASE SendCompleted
    BY <2>43 DEF SendCompleted
  <2>44. CASE SendFailed
    BY <2>44 DEF SendFailed
  <2>45. CASE GotDirtyRect
    BY <2>45 DEF GotDirtyRect
  <2>46. CASE ClientCloses
    BY <2>46 DEF ClientCloses
  <2>47. CASE UNCHANGED vars
    BY <2>47 DEF vars
  <2> QED
    BY <2>1, <2>2, <2>3, <2>4, <2>5, <2>6, <2>7, <2>8, <2>9, <2>10, <2>11,
       <2>12, <2>13, <2>14, <2>15, <2>16, <2>17, <2>18, <2>19, <2>20, <2>21,
       <2>22, <2>23, <2>24, <2>25, <2>26, <2>27, <2>28, <2>29, <2>30, <2>31,
       <2>32, <2>33, <2>34, <2>35, <2>36, <2>37, <2>38, <2>39, <2>40, <2>41,
       <2>42, <2>43, <2>44, <2>45, <2>46, <2>47
       DEF Next, Pipeline, Interrupt, MainLoop, Receive

\* A step keeps fbUpdateInProgress the lock of the pipeline, and the stream whole.
LEMMA LockStep ==
  ASSUME PlainClient, IInv, [Next]_vars
  PROVE  (LockInv /\ WireInv)'
  <2> DEFINE J == LockInv /\ WireInv
  <2> USE BatchFacts, StateFacts DEF IInv, PlainInv, BatchInv, LockInv,
      WireInv, Requests, PlainMessages, StartCode, CallCode, PlainIrq,
      PlainMain, FrameSends, FrameCode, SyncCode, BodyCode, SyncTasksPending,
      IrqHasBatch, MainHasBatch, IrqDrives, MainDrives, NetDrives, InProgress,
      Pending, Continuous, Deferred, Callback, Closing, HasChangesPending,
      HasWaitingColorMapUpdate, Running, Ignored, Ctx, PBs, At, Goto, Call,
      Return, Put, Post, Send, SendMessage, Completed, TopLevel, Next1,
      control, net
  <2>1. ASSUME NEW c \in Ctx, BatchFinished(c) PROVE J'
    BY <2>1 DEF BatchFinished
  <2>2. ASSUME NEW c \in Ctx, NextMessage(c) PROVE J'
    BY <2>2 DEF NextMessage
  <2>3. ASSUME NEW c \in Ctx, PlainMessage(c) PROVE J'
    BY <2>3 DEF PlainMessage
  <2>4. ASSUME NEW c \in Ctx, SetPixelFormat(c) PROVE J'
    BY <2>4 DEF SetPixelFormat
  <2>5. ASSUME NEW c \in Ctx, SetEncodings(c) PROVE J'
    BY <2>5 DEF SetEncodings, PseudoEncodings
  <2>6. ASSUME NEW c \in Ctx, ClientFence(c) PROVE J'
    BY <2>6 DEF ClientFence
  <2>7. ASSUME NEW c \in Ctx, DispatchRequest(c) PROVE J'
    BY <2>7 DEF DispatchRequest
  <2>8. ASSUME NEW c \in Ctx, IgnoreRequest(c) PROVE J'
    BY <2>8 DEF IgnoreRequest
  <2>9. ASSUME NEW c \in Ctx, AcceptRequest(c) PROVE J'
    BY <2>9 DEF AcceptRequest
  <2>10. ASSUME NEW c \in Ctx, SetPending(c) PROVE J'
    BY <2>10 DEF SetPending
  <2>11. ASSUME NEW c \in Ctx, SetUpdateRect(c) PROVE J'
    BY <2>11 DEF SetUpdateRect
  <2>12. ASSUME NEW c \in Ctx, SendFBUpdate(c) PROVE J'
    BY <2>12 DEF SendFBUpdate
  <2>13. ASSUME NEW c \in Ctx, RequestDirtyRect(c) PROVE J'
    BY <2>13 DEF RequestDirtyRect
  <2>14. ASSUME NEW c \in Ctx, PrepareForFBUpdate(c) PROVE J'
    BY <2>14 DEF PrepareForFBUpdate
  <2>15. ASSUME NEW c \in Ctx, EncoderBegin(c) PROVE J'
    BY <2>15 DEF EncoderBegin
  <2>16. ASSUME NEW c \in Ctx, SendColorMap(c) PROVE J'
    BY <2>16 DEF SendColorMap
  <2>17. ASSUME NEW c \in Ctx, SendHeader(c) PROVE J'
    BY <2>17 DEF SendHeader
  <2>18. ASSUME NEW c \in Ctx, InitialServerFence(c) PROVE J'
    BY <2>18 DEF InitialServerFence
  <2>19. CASE DeferToMainLoop
    BY <2>19 DEF DeferToMainLoop
  <2>20. CASE EncodeCursor
    BY <2>20 DEF EncodeCursor
  <2>21. CASE SendChunk
    BY <2>21 DEF SendChunk
  <2>22. CASE SendLastChunk
    BY <2>22 DEF SendLastChunk
  <2>23. CASE FinishFBUpdate
    BY <2>23 DEF FinishFBUpdate
  <2>24. CASE EndOfFrame
    BY <2>24 DEF EndOfFrame
  <2>25. CASE FinishMultiPartMessage
    BY <2>25 DEF FinishMultiPartMessage
  <2>26. CASE DoNothing
    BY <2>26 DEF DoNothing
  <2>27. CASE VBLTaskDone
    BY <2>27 DEF VBLTaskDone
  <2>28. CASE EnableContUpdates
    BY <2>28 DEF EnableContUpdates
  <2>29. CASE SetContinuous
    BY <2>29 DEF SetContinuous
  <2>30. CASE DisableContUpdates
    BY <2>30 DEF DisableContUpdates
  <2>31. CASE CheckServerState
    BY <2>31 DEF CheckServerState
  <2>32. CASE CheckColorTable
    BY <2>32 DEF CheckColorTable
  <2>33. CASE ServerIdleTask
    BY <2>33 DEF ServerIdleTask
  <2>34. CASE StartSyncTasks
    BY <2>34 DEF StartSyncTasks
  <2>35. CASE EncoderSyncTasks
    BY <2>35 DEF EncoderSyncTasks
  <2>36. CASE PaletteSyncTasks
    BY <2>36 DEF PaletteSyncTasks, ReadPalette
  <2>37. CASE ServerStop
    BY <2>37 DEF ServerStop
  <2>38. CASE AwaitStopped
    BY <2>38 DEF AwaitStopped
  <2>39. CASE ReadMessages
    BY <2>39 DEF ReadMessages
  <2>40. CASE GotNewMessages
    BY <2>40 DEF GotNewMessages
  <2>41. CASE ReceiveFailed
    BY <2>41 DEF ReceiveFailed
  <2>42. CASE StreamGone
    BY <2>42 DEF StreamGone
  <2>43. CASE SendCompleted
    BY <2>43 DEF SendCompleted
  <2>44. CASE SendFailed
    BY <2>44 DEF SendFailed
  <2>45. CASE GotDirtyRect
    BY <2>45 DEF GotDirtyRect
  <2>46. CASE ClientCloses
    BY <2>46 DEF ClientCloses
  <2>47. CASE UNCHANGED vars
    BY <2>47 DEF vars
  <2> QED
    BY <2>1, <2>2, <2>3, <2>4, <2>5, <2>6, <2>7, <2>8, <2>9, <2>10, <2>11,
       <2>12, <2>13, <2>14, <2>15, <2>16, <2>17, <2>18, <2>19, <2>20, <2>21,
       <2>22, <2>23, <2>24, <2>25, <2>26, <2>27, <2>28, <2>29, <2>30, <2>31,
       <2>32, <2>33, <2>34, <2>35, <2>36, <2>37, <2>38, <2>39, <2>40, <2>41,
       <2>42, <2>43, <2>44, <2>45, <2>46, <2>47
       DEF Next, Pipeline, Interrupt, MainLoop, Receive

\* A step keeps the request that has not been answered.
LEMMA OwedStep ==
  ASSUME PlainClient, IInv, [Next]_vars
  PROVE  (OwedInv)'
  <2> DEFINE J == OwedInv
  <2> USE BatchFacts, StateFacts DEF IInv, PlainInv, BatchInv, LockInv,
      OwedInv, NoRequestForgotten, Owed, Answering, BeforeHeader, Requests,
      PlainMessages, StartCode, CallCode, PlainIrq, PlainMain, FrameSends,
      FrameCode, SyncCode, SyncTasksPending, IrqHasBatch, MainHasBatch,
      IrqDrives, MainDrives, NetDrives, InProgress, Pending, Continuous,
      Deferred, Callback, Closing, HasChangesPending,
      HasWaitingColorMapUpdate, Running, Ignored, Ctx, PBs, At, Goto, Call,
      Return, Put, Post, Send, SendMessage, Completed, TopLevel, Next1,
      control, net
  <2>1. ASSUME NEW c \in Ctx, BatchFinished(c) PROVE J'
    BY <2>1 DEF BatchFinished
  <2>2. ASSUME NEW c \in Ctx, NextMessage(c) PROVE J'
    BY <2>2 DEF NextMessage
  <2>3. ASSUME NEW c \in Ctx, PlainMessage(c) PROVE J'
    BY <2>3 DEF PlainMessage
  <2>4. ASSUME NEW c \in Ctx, SetPixelFormat(c) PROVE J'
    BY <2>4 DEF SetPixelFormat
  <2>5. ASSUME NEW c \in Ctx, SetEncodings(c) PROVE J'
    BY <2>5 DEF SetEncodings, PseudoEncodings
  <2>6. ASSUME NEW c \in Ctx, ClientFence(c) PROVE J'
    BY <2>6 DEF ClientFence
  <2>7. ASSUME NEW c \in Ctx, DispatchRequest(c) PROVE J'
    BY <2>7 DEF DispatchRequest
  <2>8. ASSUME NEW c \in Ctx, IgnoreRequest(c) PROVE J'
    BY <2>8 DEF IgnoreRequest
  <2>9. ASSUME NEW c \in Ctx, AcceptRequest(c) PROVE J'
    BY <2>9 DEF AcceptRequest
  <2>10. ASSUME NEW c \in Ctx, SetPending(c) PROVE J'
    BY <2>10 DEF SetPending
  <2>11. ASSUME NEW c \in Ctx, SetUpdateRect(c) PROVE J'
    BY <2>11 DEF SetUpdateRect
  <2>12. ASSUME NEW c \in Ctx, SendFBUpdate(c) PROVE J'
    BY <2>12 DEF SendFBUpdate
  <2>13. ASSUME NEW c \in Ctx, RequestDirtyRect(c) PROVE J'
    BY <2>13 DEF RequestDirtyRect
  <2>14. ASSUME NEW c \in Ctx, PrepareForFBUpdate(c) PROVE J'
    BY <2>14 DEF PrepareForFBUpdate
  <2>15. ASSUME NEW c \in Ctx, EncoderBegin(c) PROVE J'
    BY <2>15 DEF EncoderBegin
  <2>16. ASSUME NEW c \in Ctx, SendColorMap(c) PROVE J'
    BY <2>16 DEF SendColorMap
  <2>17. ASSUME NEW c \in Ctx, SendHeader(c) PROVE J'
    BY <2>17 DEF SendHeader
  <2>18. ASSUME NEW c \in Ctx, InitialServerFence(c) PROVE J'
    BY <2>18 DEF InitialServerFence
  <2>19. CASE DeferToMainLoop
    BY <2>19 DEF DeferToMainLoop
  <2>20. CASE EncodeCursor
    BY <2>20 DEF EncodeCursor
  <2>21. CASE SendChunk
    BY <2>21 DEF SendChunk
  <2>22. CASE SendLastChunk
    BY <2>22 DEF SendLastChunk
  <2>23. CASE FinishFBUpdate
    BY <2>23 DEF FinishFBUpdate
  <2>24. CASE EndOfFrame
    BY <2>24 DEF EndOfFrame
  <2>25. CASE FinishMultiPartMessage
    BY <2>25 DEF FinishMultiPartMessage
  <2>26. CASE DoNothing
    BY <2>26 DEF DoNothing
  <2>27. CASE VBLTaskDone
    BY <2>27 DEF VBLTaskDone
  <2>28. CASE EnableContUpdates
    BY <2>28 DEF EnableContUpdates
  <2>29. CASE SetContinuous
    BY <2>29 DEF SetContinuous
  <2>30. CASE DisableContUpdates
    BY <2>30 DEF DisableContUpdates
  <2>31. CASE CheckServerState
    BY <2>31 DEF CheckServerState
  <2>32. CASE CheckColorTable
    BY <2>32 DEF CheckColorTable
  <2>33. CASE ServerIdleTask
    BY <2>33 DEF ServerIdleTask
  <2>34. CASE StartSyncTasks
    BY <2>34 DEF StartSyncTasks
  <2>35. CASE EncoderSyncTasks
    BY <2>35 DEF EncoderSyncTasks
  <2>36. CASE PaletteSyncTasks
    BY <2>36 DEF PaletteSyncTasks, ReadPalette
  <2>37. CASE ServerStop
    BY <2>37 DEF ServerStop
  <2>38. CASE AwaitStopped
    BY <2>38 DEF AwaitStopped
  <2>39. CASE ReadMessages
    BY <2>39 DEF ReadMessages
  <2>40. CASE GotNewMessages
    BY <2>40 DEF GotNewMessages
  <2>41. CASE ReceiveFailed
    BY <2>41 DEF ReceiveFailed
  <2>42. CASE StreamGone
    BY <2>42 DEF StreamGone
  <2>43. CASE SendCompleted
    BY <2>43 DEF SendCompleted
  <2>44. CASE SendFailed
    BY <2>44 DEF SendFailed
  <2>45. CASE GotDirtyRect
    BY <2>45 DEF GotDirtyRect
  <2>46. CASE ClientCloses
    BY <2>46 DEF ClientCloses
  <2>47. CASE UNCHANGED vars
    BY <2>47 DEF vars
  <2> QED
    BY <2>1, <2>2, <2>3, <2>4, <2>5, <2>6, <2>7, <2>8, <2>9, <2>10, <2>11,
       <2>12, <2>13, <2>14, <2>15, <2>16, <2>17, <2>18, <2>19, <2>20, <2>21,
       <2>22, <2>23, <2>24, <2>25, <2>26, <2>27, <2>28, <2>29, <2>30, <2>31,
       <2>32, <2>33, <2>34, <2>35, <2>36, <2>37, <2>38, <2>39, <2>40, <2>41,
       <2>42, <2>43, <2>44, <2>45, <2>46, <2>47
       DEF Next, Pipeline, Interrupt, MainLoop, Receive

\* The invariant holds when a session starts: nothing has been sent or asked.
LEMMA InitPlain == Init => IInv
  BY MaxOutstandingAssumption, ConfigAssumption
     DEF Init, IInv, TypeOK, ControlType, NetType, DataType, Flags, States, Ctx,
         PBs, SharedLabels, SendLabels, RecvLabels, IrqLabels, MainLabels,
         TopLevel, Messages, PlainInv, BatchInv, LockInv, WireInv, OwedInv,
         PlainBatch, OrderlyBatch, PlainIrq, PlainMain, CallCode, StartCode,
         FrameSends, FrameCode, SyncCode, SyncTasksPending, IrqHasBatch,
         MainHasBatch, IrqDrives, MainDrives, NetDrives, InProgress, Deferred,
         Running, Owed, NoRequestForgotten

\* IInv is an invariant of every session with a client that sends no TurboVNC
\* message and puts no update request behind a message for the event loop.
THEOREM Invariance == PlainClient => (Spec => []IInv)
<1> SUFFICES ASSUME PlainClient PROVE Spec => []IInv
  OBVIOUS
<1>1. IInv /\ [Next]_vars => IInv'
  BY TypeStep, BatchStep, LockStep, OwedStep DEF IInv
<1> QED
  BY InitPlain, <1>1, PTL DEF Spec

----------------------------------------------------------------------------
(* The safety properties.                                                    *)

\* myWDS and vncServerMessage are never overwritten while MacTCP reads them.
THEOREM SendRecordSafe == PlainClient => (Spec => []SendRecordNotReused)
<1>1. IInv => SendRecordNotReused
  BY DEF IInv, LockInv, SendRecordNotReused
<1> QED
  BY <1>1, Invariance, PTL

\* The byte stream to the client is a sequence of whole frames and messages.
THEOREM FramesSafe == PlainClient => (Spec => []FramesNotInterleaved)
<1>1. IInv => FramesNotInterleaved
  BY DEF IInv, WireInv, FramesNotInterleaved
<1> QED
  BY <1>1, Invariance, PTL

\* fbUpdateInProgress is a lock: clear when nothing carries a frame, and held by
\* exactly one carrier while the session is up.
THEOREM FrameDriverUnique == PlainClient => (Spec => []FrameHasOneDriver)
<1>1. IInv => FrameHasOneDriver
  <2> SUFFICES ASSUME IInv PROVE FrameHasOneDriver
    OBVIOUS
  <2> USE DEF IInv, LockInv, IrqDrives, MainDrives, NetDrives, Drivers
  <2>1. FrameCode \cap PlainMain = {"vncSendFBUpdateColorMap", "vncSendFBUpdateHeader"}
    BY DEF FrameCode, FrameSends, PlainMain, SyncCode
  <2>2. /\ "irq" \in Drivers <=> IrqDrives
        /\ "main" \in Drivers <=> MainDrives
        /\ "syncTasks" \in Drivers <=> SyncTasksPending
        /\ "epb_send" \in Drivers <=> NetDrives
        /\ Drivers \subseteq {"irq", "main", "syncTasks", "epb_send"}
    BY <2>1 DEF PlainInv, Ctx, FrameSends
  <2>3. \A d, e \in Drivers : d = e
    BY <2>2
  <2>4. ~InProgress => Drivers = {}
    BY <2>2
  <2>5. InProgress /\ Running => Drivers # {}
    BY <2>2
  <2> QED
    BY <2>3, <2>4, <2>5 DEF FrameHasOneDriver
<1> QED
  BY <1>1, Invariance, PTL

\* The event loop touches the update buffer and the pixel format only while no
\* send can read them and no part of a frame is on the wire.
THEOREM SyncTasksSafe == PlainClient => (Spec => []SyncTasksFindPipelineIdle)
<1>1. IInv => SyncTasksFindPipelineIdle
  BY DEF IInv, TypeOK, NetType, PBs, LockInv, WireInv, SyncTasksPending,
         NetDrives, SyncTasksFindPipelineIdle
<1> QED
  BY <1>1, Invariance, PTL

\* No accepted request is forgotten while the session is up.
THEOREM RequestsSafe == PlainClient => (Spec => []NoRequestForgotten)
<1>1. IInv => NoRequestForgotten
  BY DEF IInv, OwedInv
<1> QED
  BY <1>1, Invariance, PTL

\* inStream and epb_recv have one user at a time, and always have one.
THEOREM StreamSafe == PlainClient => (Spec => []StreamHasOneOwner)
<1>1. IInv => StreamHasOneOwner
  <2> SUFFICES ASSUME IInv, vncState = "VNC_RUNNING" PROVE StreamHasOneOwner
    BY DEF StreamHasOneOwner
  <2> USE DEF IInv, BatchInv, StreamOwners
  <2>1. Dispatching("main") <=> MainHasBatch
    BY DEF PlainInv, PlainMain, SyncCode, Dispatching, BatchCode, Answering,
           CallCode, MainHasBatch
  <2>2. Dispatching("irq") <=> IrqHasBatch
    BY DEF PlainInv, PlainIrq, StartCode, FrameCode, FrameSends, Dispatching,
           BatchCode, Answering, CallCode, IrqHasBatch
  <2>3. /\ "main" \in StreamOwners <=> MainHasBatch
        /\ "irq" \in StreamOwners <=> IrqHasBatch
        /\ "deferred" \in StreamOwners <=> Deferred
        /\ "epb_recv" \in StreamOwners <=> out["epb_recv"] > 0
        /\ StreamOwners \subseteq {"main", "irq", "deferred", "epb_recv"}
    BY <2>1, <2>2 DEF PlainInv, Ctx, BatchCode, FrameSends
  <2>4. ~(out["epb_recv"] > 0 /\ out["epb_recv"] = 0)
    BY StateFacts DEF PBs
  <2>5. \A o, p \in StreamOwners : o = p
    BY <2>3, <2>4
  <2>6. Running => StreamOwners # {}
    BY <2>3
  <2> QED
    BY <2>5, <2>6 DEF StreamHasOneOwner
<1> QED
  BY <1>1, Invariance, PTL

----------------------------------------------------------------------------
(* TurboVNC clients: the batch of messages, and the types that the steps need. *)

\* The part of the type invariant that the steps below need.
LEMMA StateTypes ==
  ASSUME TypeOK
  PROVE  /\ DOMAIN pc = Ctx /\ DOMAIN ret = Ctx
         /\ DOMAIN then = PBs /\ out \in [PBs -> Nat]
  BY MaxOutstandingAssumption DEF TypeOK, ControlType, NetType

\* What is said of the messages of a batch is said of those that are left of it.
LEMMA SkippedTurbo ==
  ASSUME inbox \in Seq(Messages)
  PROVE  /\ TurboBatch(inbox) => TurboBatch(Skipped)
         /\ NoRequests(inbox) => NoRequests(Skipped)
         /\ NoAnswers(inbox) => NoAnswers(Skipped)
         /\ AsksAnswer(inbox) => AsksAnswer(Skipped)
  <1> USE DEF Skipped
  <1>1. TurboBatch(inbox) => TurboBatch(Skipped)
    BY DEF TurboBatch
  <1>2. NoRequests(inbox) => NoRequests(Skipped)
    BY DEF NoRequests
  <1>3. NoAnswers(inbox) => NoAnswers(Skipped)
    BY DEF NoAnswers
  <1>4. AsksAnswer(inbox) => AsksAnswer(Skipped)
    BY DEF AsksAnswer
  <1> QED
    BY <1>1, <1>2, <1>3, <1>4

\* What a batch may still hold behind its first message.
LEMMA HeadTurbo ==
  ASSUME inbox \in Seq(Messages), inbox # <<>>, TurboBatch(inbox)
  PROVE  /\ Head(inbox) \in Starting => NoAnswers(inbox)
         /\ Head(inbox) \in {"cut", "contOn"} => NoRequests(inbox)
         /\ NoRequests(inbox) => Head(inbox) \notin Requests
         /\ NoAnswers(inbox) => Head(inbox) \notin Answered
         /\ AsksAnswer(inbox) => Head(inbox) # "fenceNoReq"
  <1>0. /\ 1 \in DOMAIN inbox /\ Head(inbox) = inbox[1]
        /\ \A j \in DOMAIN inbox : j = 1 \/ 1 < j
    OBVIOUS
  <1>1. Head(inbox) \in Starting => NoAnswers(inbox)
    BY <1>0 DEF TurboBatch, NoAnswers, Starting, Answered, Requests
  <1>2. Head(inbox) \in {"cut", "contOn"} => NoRequests(inbox)
    BY <1>0 DEF TurboBatch, NoRequests, Requests
  <1> QED
    BY <1>0, <1>1, <1>2 DEF NoRequests, NoAnswers, AsksAnswer

\* How the batch can change in a step, with the predicates left closed.
LEMMA TurboFacts ==
  ASSUME TurboClient, TurboInv
  PROVE  /\ Timely /\ TypeOK
         /\ TurboBatch(inbox) /\ (FencesAsk => AsksAnswer(inbox))
         /\ inbox # <<>> =>
              /\ Head(inbox) \in Starting => NoAnswers(inbox)
              /\ Head(inbox) \in {"cut", "contOn"} => NoRequests(inbox)
              /\ NoRequests(inbox) => Head(inbox) \notin Requests
              /\ NoAnswers(inbox) => Head(inbox) \notin Answered
              /\ FencesAsk => Head(inbox) # "fenceNoReq"
         /\ LeftToMain(inbox) <=> NoRequests(inbox) \/ (inbox # <<>> /\ Head(inbox) = "contOff")
         /\ LeftToMain(inbox)' <=> NoRequests(inbox)' \/ (inbox' # <<>> /\ Head(inbox') = "contOff")
         /\ inbox' \in {inbox, Skipped} =>
              /\ TurboBatch(inbox)' /\ (FencesAsk => AsksAnswer(inbox)')
              /\ NoRequests(inbox) => NoRequests(inbox)'
              /\ NoAnswers(inbox) => NoAnswers(inbox)'
         /\ inbox' = <<>> => /\ TurboBatch(inbox)' /\ NoRequests(inbox)'
                             /\ NoAnswers(inbox)' /\ AsksAnswer(inbox)'
         /\ inbox' \in Batches => TurboBatch(inbox)' /\ (FencesAsk => AsksAnswer(inbox)')
  <1>1. /\ Timely /\ TypeOK /\ inbox \in Seq(Messages)
        /\ TurboBatch(inbox) /\ (FencesAsk => AsksAnswer(inbox))
    BY DEF TurboClient, TurboInv, TypeOK, DataType, HolderInv
  <1>2. ASSUME NEW b, inbox' = b
        PROVE  /\ TurboBatch(b) => TurboBatch(inbox)'
               /\ NoRequests(b) => NoRequests(inbox)'
               /\ NoAnswers(b) => NoAnswers(inbox)'
               /\ AsksAnswer(b) => AsksAnswer(inbox)'
    BY <1>2 DEF TurboBatch, NoRequests, NoAnswers, AsksAnswer
  <1>3. inbox' \in {inbox, Skipped} =>
          /\ TurboBatch(inbox)' /\ (FencesAsk => AsksAnswer(inbox)')
          /\ NoRequests(inbox) => NoRequests(inbox)'
          /\ NoAnswers(inbox) => NoAnswers(inbox)'
    BY <1>1, <1>2, SkippedTurbo
  <1>4. inbox' = <<>> => /\ TurboBatch(inbox)' /\ NoRequests(inbox)'
                         /\ NoAnswers(inbox)' /\ AsksAnswer(inbox)'
    BY DEF TurboBatch, NoRequests, NoAnswers, AsksAnswer
  <1>5. inbox' \in Batches => TurboBatch(inbox)' /\ (FencesAsk => AsksAnswer(inbox)')
    BY <1>2 DEF TurboClient, FencesAsk
  <1> QED
    BY <1>1, <1>3, <1>4, <1>5, HeadTurbo DEF LeftToMain

----------------------------------------------------------------------------
(* TurboVNC clients: one lemma for each part of the invariant.               *)

\* A step keeps each context to its code, and the batch to one holder.
LEMMA HolderStep ==
  ASSUME TurboClient, TurboInv, [Next]_vars
  PROVE  (CodeInv /\ HolderInv)'
  <2> DEFINE J == CodeInv /\ HolderInv
  <2> USE TurboFacts, StateTypes DEF TurboInv, CodeInv, HolderInv, DriverInv, Requests, Starting,
      Answered, StartCode, CallCode, Beginning, FrameSends, FrameCode, SyncCode,
      SyncTasksPending, BatchReplies, Replies, MainHolds, IrqHolds, ReplyHolds, Serving, Held,
      TasksAsked, IrqBegins, IrqSends, MainFrame, SendFrame, Carried, InProgress,
      Pending, Continuous, Deferred, Callback, Closing, HasChangesPending,
      HasWaitingColorMapUpdate, Running, Ignored, Ctx, PBs, At, Goto, Call, Return,
      Put, Post, Send, SendMessage, Completed, TopLevel, Next1, Quiet,
      MessageMayArrive, RetraceMayCome, control, net
  <2>1. ASSUME NEW c \in Ctx, BatchFinished(c) PROVE J'
    BY <2>1 DEF BatchFinished
  <2>2. ASSUME NEW c \in Ctx, NextMessage(c) PROVE J'
    BY <2>2 DEF NextMessage
  <2>3. ASSUME NEW c \in Ctx, PlainMessage(c) PROVE J'
    BY <2>3 DEF PlainMessage
  <2>4. ASSUME NEW c \in Ctx, SetPixelFormat(c) PROVE J'
    BY <2>4 DEF SetPixelFormat
  <2>5. ASSUME NEW c \in Ctx, SetEncodings(c) PROVE J'
    BY <2>5 DEF SetEncodings, PseudoEncodings
  <2>6. ASSUME NEW c \in Ctx, ClientFence(c) PROVE J'
    BY <2>6 DEF ClientFence
  <2>7. ASSUME NEW c \in Ctx, DispatchRequest(c) PROVE J'
    BY <2>7 DEF DispatchRequest
  <2>8. ASSUME NEW c \in Ctx, IgnoreRequest(c) PROVE J'
    BY <2>8 DEF IgnoreRequest
  <2>9. ASSUME NEW c \in Ctx, AcceptRequest(c) PROVE J'
    BY <2>9 DEF AcceptRequest
  <2>10. ASSUME NEW c \in Ctx, SetPending(c) PROVE J'
    BY <2>10 DEF SetPending
  <2>11. ASSUME NEW c \in Ctx, SetUpdateRect(c) PROVE J'
    BY <2>11 DEF SetUpdateRect
  <2>12. ASSUME NEW c \in Ctx, SendFBUpdate(c) PROVE J'
    BY <2>12 DEF SendFBUpdate
  <2>13. ASSUME NEW c \in Ctx, RequestDirtyRect(c) PROVE J'
    BY <2>13 DEF RequestDirtyRect
  <2>14. ASSUME NEW c \in Ctx, PrepareForFBUpdate(c) PROVE J'
    BY <2>14 DEF PrepareForFBUpdate
  <2>15. ASSUME NEW c \in Ctx, EncoderBegin(c) PROVE J'
    BY <2>15 DEF EncoderBegin
  <2>16. ASSUME NEW c \in Ctx, SendColorMap(c) PROVE J'
    BY <2>16 DEF SendColorMap
  <2>17. ASSUME NEW c \in Ctx, SendHeader(c) PROVE J'
    BY <2>17 DEF SendHeader
  <2>18. ASSUME NEW c \in Ctx, InitialServerFence(c) PROVE J'
    BY <2>18 DEF InitialServerFence
  <2>19. CASE DeferToMainLoop
    BY <2>19 DEF DeferToMainLoop
  <2>20. CASE EncodeCursor
    BY <2>20 DEF EncodeCursor
  <2>21. CASE SendChunk
    BY <2>21 DEF SendChunk
  <2>22. CASE SendLastChunk
    BY <2>22 DEF SendLastChunk
  <2>23. CASE FinishFBUpdate
    BY <2>23 DEF FinishFBUpdate
  <2>24. CASE EndOfFrame
    BY <2>24 DEF EndOfFrame
  <2>25. CASE FinishMultiPartMessage
    BY <2>25 DEF FinishMultiPartMessage
  <2>26. CASE DoNothing
    BY <2>26 DEF DoNothing
  <2>27. CASE VBLTaskDone
    BY <2>27 DEF VBLTaskDone
  <2>28. CASE EnableContUpdates
    BY <2>28 DEF EnableContUpdates
  <2>29. CASE SetContinuous
    BY <2>29 DEF SetContinuous
  <2>30. CASE DisableContUpdates
    BY <2>30 DEF DisableContUpdates
  <2>31. CASE CheckServerState
    BY <2>31 DEF CheckServerState
  <2>32. CASE CheckColorTable
    BY <2>32 DEF CheckColorTable
  <2>33. CASE ServerIdleTask
    BY <2>33 DEF ServerIdleTask
  <2>34. CASE StartSyncTasks
    BY <2>34 DEF StartSyncTasks
  <2>35. CASE EncoderSyncTasks
    BY <2>35 DEF EncoderSyncTasks
  <2>36. CASE PaletteSyncTasks
    BY <2>36 DEF PaletteSyncTasks, ReadPalette
  <2>37. CASE ServerStop
    BY <2>37 DEF ServerStop
  <2>38. CASE AwaitStopped
    BY <2>38 DEF AwaitStopped
  <2>39. CASE ReadMessages
    BY <2>39 DEF ReadMessages
  <2>40. CASE GotNewMessages
    BY <2>40 DEF GotNewMessages
  <2>41. CASE ReceiveFailed
    BY <2>41 DEF ReceiveFailed
  <2>42. CASE StreamGone
    BY <2>42 DEF StreamGone
  <2>43. CASE SendCompleted
    BY <2>43 DEF SendCompleted
  <2>44. CASE SendFailed
    BY <2>44 DEF SendFailed
  <2>45. CASE GotDirtyRect
    BY <2>45 DEF GotDirtyRect
  <2>46. CASE ClientCloses
    BY <2>46 DEF ClientCloses
  <2>47. CASE UNCHANGED vars
    BY <2>47 DEF vars
  <2> QED
    BY <2>1, <2>2, <2>3, <2>4, <2>5, <2>6, <2>7, <2>8, <2>9, <2>10, <2>11, <2>12, <2>13, <2>14, <2>15, <2>16, <2>17, <2>18, <2>19, <2>20, <2>21, <2>22, <2>23, <2>24, <2>25, <2>26, <2>27, <2>28, <2>29, <2>30, <2>31, <2>32, <2>33, <2>34, <2>35, <2>36, <2>37, <2>38, <2>39, <2>40, <2>41, <2>42, <2>43, <2>44, <2>45, <2>46, <2>47
       DEF Next, Pipeline, Interrupt, MainLoop, Receive

\* A step keeps the frame to one carrier.
LEMMA DriverStep ==
  ASSUME TurboClient, TurboInv, [Next]_vars
  PROVE  (DriverInv)'
  <2> DEFINE J == DriverInv
  <2> USE TurboFacts, StateTypes DEF TurboInv, CodeInv, HolderInv, DriverInv, Requests, Starting,
      Answered, StartCode, CallCode, Beginning, FrameSends, FrameCode, SyncCode,
      SyncTasksPending, BatchReplies, Replies, MainHolds, IrqHolds, ReplyHolds, Serving, Held,
      TasksAsked, IrqBegins, IrqSends, MainFrame, SendFrame, Carried, InProgress,
      Pending, Continuous, Deferred, Callback, Closing, HasChangesPending,
      HasWaitingColorMapUpdate, Running, Ignored, Ctx, PBs, At, Goto, Call, Return,
      Put, Post, Send, SendMessage, Completed, TopLevel, Next1, Quiet,
      MessageMayArrive, RetraceMayCome, control, net
  <2>1. ASSUME NEW c \in Ctx, BatchFinished(c) PROVE J'
    BY <2>1 DEF BatchFinished
  <2>2. ASSUME NEW c \in Ctx, NextMessage(c) PROVE J'
    BY <2>2 DEF NextMessage
  <2>3. ASSUME NEW c \in Ctx, PlainMessage(c) PROVE J'
    BY <2>3 DEF PlainMessage
  <2>4. ASSUME NEW c \in Ctx, SetPixelFormat(c) PROVE J'
    BY <2>4 DEF SetPixelFormat
  <2>5. ASSUME NEW c \in Ctx, SetEncodings(c) PROVE J'
    BY <2>5 DEF SetEncodings, PseudoEncodings
  <2>6. ASSUME NEW c \in Ctx, ClientFence(c) PROVE J'
    BY <2>6 DEF ClientFence
  <2>7. ASSUME NEW c \in Ctx, DispatchRequest(c) PROVE J'
    BY <2>7 DEF DispatchRequest
  <2>8. ASSUME NEW c \in Ctx, IgnoreRequest(c) PROVE J'
    BY <2>8 DEF IgnoreRequest
  <2>9. ASSUME NEW c \in Ctx, AcceptRequest(c) PROVE J'
    BY <2>9 DEF AcceptRequest
  <2>10. ASSUME NEW c \in Ctx, SetPending(c) PROVE J'
    BY <2>10 DEF SetPending
  <2>11. ASSUME NEW c \in Ctx, SetUpdateRect(c) PROVE J'
    BY <2>11 DEF SetUpdateRect
  <2>12. ASSUME NEW c \in Ctx, SendFBUpdate(c) PROVE J'
    BY <2>12 DEF SendFBUpdate
  <2>13. ASSUME NEW c \in Ctx, RequestDirtyRect(c) PROVE J'
    BY <2>13 DEF RequestDirtyRect
  <2>14. ASSUME NEW c \in Ctx, PrepareForFBUpdate(c) PROVE J'
    BY <2>14 DEF PrepareForFBUpdate
  <2>15. ASSUME NEW c \in Ctx, EncoderBegin(c) PROVE J'
    BY <2>15 DEF EncoderBegin
  <2>16. ASSUME NEW c \in Ctx, SendColorMap(c) PROVE J'
    BY <2>16 DEF SendColorMap
  <2>17. ASSUME NEW c \in Ctx, SendHeader(c) PROVE J'
    BY <2>17 DEF SendHeader
  <2>18. ASSUME NEW c \in Ctx, InitialServerFence(c) PROVE J'
    BY <2>18 DEF InitialServerFence
  <2>19. CASE DeferToMainLoop
    BY <2>19 DEF DeferToMainLoop
  <2>20. CASE EncodeCursor
    BY <2>20 DEF EncodeCursor
  <2>21. CASE SendChunk
    BY <2>21 DEF SendChunk
  <2>22. CASE SendLastChunk
    BY <2>22 DEF SendLastChunk
  <2>23. CASE FinishFBUpdate
    BY <2>23 DEF FinishFBUpdate
  <2>24. CASE EndOfFrame
    BY <2>24 DEF EndOfFrame
  <2>25. CASE FinishMultiPartMessage
    BY <2>25 DEF FinishMultiPartMessage
  <2>26. CASE DoNothing
    BY <2>26 DEF DoNothing
  <2>27. CASE VBLTaskDone
    BY <2>27 DEF VBLTaskDone
  <2>28. CASE EnableContUpdates
    BY <2>28 DEF EnableContUpdates
  <2>29. CASE SetContinuous
    BY <2>29 DEF SetContinuous
  <2>30. CASE DisableContUpdates
    BY <2>30 DEF DisableContUpdates
  <2>31. CASE CheckServerState
    BY <2>31 DEF CheckServerState
  <2>32. CASE CheckColorTable
    BY <2>32 DEF CheckColorTable
  <2>33. CASE ServerIdleTask
    BY <2>33 DEF ServerIdleTask
  <2>34. CASE StartSyncTasks
    BY <2>34 DEF StartSyncTasks
  <2>35. CASE EncoderSyncTasks
    BY <2>35 DEF EncoderSyncTasks
  <2>36. CASE PaletteSyncTasks
    BY <2>36 DEF PaletteSyncTasks, ReadPalette
  <2>37. CASE ServerStop
    BY <2>37 DEF ServerStop
  <2>38. CASE AwaitStopped
    BY <2>38 DEF AwaitStopped
  <2>39. CASE ReadMessages
    BY <2>39 DEF ReadMessages
  <2>40. CASE GotNewMessages
    BY <2>40 DEF GotNewMessages
  <2>41. CASE ReceiveFailed
    BY <2>41 DEF ReceiveFailed
  <2>42. CASE StreamGone
    BY <2>42 DEF StreamGone
  <2>43. CASE SendCompleted
    BY <2>43 DEF SendCompleted
  <2>44. CASE SendFailed
    BY <2>44 DEF SendFailed
  <2>45. CASE GotDirtyRect
    BY <2>45 DEF GotDirtyRect
  <2>46. CASE ClientCloses
    BY <2>46 DEF ClientCloses
  <2>47. CASE UNCHANGED vars
    BY <2>47 DEF vars
  <2> QED
    BY <2>1, <2>2, <2>3, <2>4, <2>5, <2>6, <2>7, <2>8, <2>9, <2>10, <2>11, <2>12, <2>13, <2>14, <2>15, <2>16, <2>17, <2>18, <2>19, <2>20, <2>21, <2>22, <2>23, <2>24, <2>25, <2>26, <2>27, <2>28, <2>29, <2>30, <2>31, <2>32, <2>33, <2>34, <2>35, <2>36, <2>37, <2>38, <2>39, <2>40, <2>41, <2>42, <2>43, <2>44, <2>45, <2>46, <2>47
       DEF Next, Pipeline, Interrupt, MainLoop, Receive

\* A step keeps the stream whole.
LEMMA BytesStep ==
  ASSUME TurboClient, TurboInv, [Next]_vars
  PROVE  (BytesInv)'
  <2> DEFINE J == BytesInv
  <2> USE TurboFacts, StateTypes DEF TurboInv, CodeInv, HolderInv, DriverInv, Requests, Starting,
      Answered, StartCode, CallCode, Beginning, FrameSends, FrameCode, SyncCode,
      SyncTasksPending, BatchReplies, Replies, MainHolds, IrqHolds, ReplyHolds, Serving, Held,
      TasksAsked, IrqBegins, IrqSends, MainFrame, SendFrame, Carried, InProgress,
      Pending, Continuous, Deferred, Callback, Closing, HasChangesPending,
      HasWaitingColorMapUpdate, Running, Ignored, Ctx, PBs, At, Goto, Call, Return,
      Put, Post, Send, SendMessage, Completed, TopLevel, Next1, Quiet,
      MessageMayArrive, RetraceMayCome, control, net,
      BytesInv, BodyCode
  <2>1. ASSUME NEW c \in Ctx, BatchFinished(c) PROVE J'
    BY <2>1 DEF BatchFinished
  <2>2. ASSUME NEW c \in Ctx, NextMessage(c) PROVE J'
    BY <2>2 DEF NextMessage
  <2>3. ASSUME NEW c \in Ctx, PlainMessage(c) PROVE J'
    BY <2>3 DEF PlainMessage
  <2>4. ASSUME NEW c \in Ctx, SetPixelFormat(c) PROVE J'
    BY <2>4 DEF SetPixelFormat
  <2>5. ASSUME NEW c \in Ctx, SetEncodings(c) PROVE J'
    BY <2>5 DEF SetEncodings, PseudoEncodings
  <2>6. ASSUME NEW c \in Ctx, ClientFence(c) PROVE J'
    BY <2>6 DEF ClientFence
  <2>7. ASSUME NEW c \in Ctx, DispatchRequest(c) PROVE J'
    BY <2>7 DEF DispatchRequest
  <2>8. ASSUME NEW c \in Ctx, IgnoreRequest(c) PROVE J'
    BY <2>8 DEF IgnoreRequest
  <2>9. ASSUME NEW c \in Ctx, AcceptRequest(c) PROVE J'
    BY <2>9 DEF AcceptRequest
  <2>10. ASSUME NEW c \in Ctx, SetPending(c) PROVE J'
    BY <2>10 DEF SetPending
  <2>11. ASSUME NEW c \in Ctx, SetUpdateRect(c) PROVE J'
    BY <2>11 DEF SetUpdateRect
  <2>12. ASSUME NEW c \in Ctx, SendFBUpdate(c) PROVE J'
    BY <2>12 DEF SendFBUpdate
  <2>13. ASSUME NEW c \in Ctx, RequestDirtyRect(c) PROVE J'
    BY <2>13 DEF RequestDirtyRect
  <2>14. ASSUME NEW c \in Ctx, PrepareForFBUpdate(c) PROVE J'
    BY <2>14 DEF PrepareForFBUpdate
  <2>15. ASSUME NEW c \in Ctx, EncoderBegin(c) PROVE J'
    BY <2>15 DEF EncoderBegin
  <2>16. ASSUME NEW c \in Ctx, SendColorMap(c) PROVE J'
    BY <2>16 DEF SendColorMap
  <2>17. ASSUME NEW c \in Ctx, SendHeader(c) PROVE J'
    BY <2>17 DEF SendHeader
  <2>18. ASSUME NEW c \in Ctx, InitialServerFence(c) PROVE J'
    BY <2>18 DEF InitialServerFence
  <2>19. CASE DeferToMainLoop
    BY <2>19 DEF DeferToMainLoop
  <2>20. CASE EncodeCursor
    BY <2>20 DEF EncodeCursor
  <2>21. CASE SendChunk
    BY <2>21 DEF SendChunk
  <2>22. CASE SendLastChunk
    BY <2>22 DEF SendLastChunk
  <2>23. CASE FinishFBUpdate
    BY <2>23 DEF FinishFBUpdate
  <2>24. CASE EndOfFrame
    BY <2>24 DEF EndOfFrame
  <2>25. CASE FinishMultiPartMessage
    BY <2>25 DEF FinishMultiPartMessage
  <2>26. CASE DoNothing
    BY <2>26 DEF DoNothing
  <2>27. CASE VBLTaskDone
    BY <2>27 DEF VBLTaskDone
  <2>28. CASE EnableContUpdates
    BY <2>28 DEF EnableContUpdates
  <2>29. CASE SetContinuous
    BY <2>29 DEF SetContinuous
  <2>30. CASE DisableContUpdates
    BY <2>30 DEF DisableContUpdates
  <2>31. CASE CheckServerState
    BY <2>31 DEF CheckServerState
  <2>32. CASE CheckColorTable
    BY <2>32 DEF CheckColorTable
  <2>33. CASE ServerIdleTask
    BY <2>33 DEF ServerIdleTask
  <2>34. CASE StartSyncTasks
    BY <2>34 DEF StartSyncTasks
  <2>35. CASE EncoderSyncTasks
    BY <2>35 DEF EncoderSyncTasks
  <2>36. CASE PaletteSyncTasks
    BY <2>36 DEF PaletteSyncTasks, ReadPalette
  <2>37. CASE ServerStop
    BY <2>37 DEF ServerStop
  <2>38. CASE AwaitStopped
    BY <2>38 DEF AwaitStopped
  <2>39. CASE ReadMessages
    BY <2>39 DEF ReadMessages
  <2>40. CASE GotNewMessages
    BY <2>40 DEF GotNewMessages
  <2>41. CASE ReceiveFailed
    BY <2>41 DEF ReceiveFailed
  <2>42. CASE StreamGone
    BY <2>42 DEF StreamGone
  <2>43. CASE SendCompleted
    BY <2>43 DEF SendCompleted
  <2>44. CASE SendFailed
    BY <2>44 DEF SendFailed
  <2>45. CASE GotDirtyRect
    BY <2>45 DEF GotDirtyRect
  <2>46. CASE ClientCloses
    BY <2>46 DEF ClientCloses
  <2>47. CASE UNCHANGED vars
    BY <2>47 DEF vars
  <2> QED
    BY <2>1, <2>2, <2>3, <2>4, <2>5, <2>6, <2>7, <2>8, <2>9, <2>10, <2>11, <2>12, <2>13, <2>14, <2>15, <2>16, <2>17, <2>18, <2>19, <2>20, <2>21, <2>22, <2>23, <2>24, <2>25, <2>26, <2>27, <2>28, <2>29, <2>30, <2>31, <2>32, <2>33, <2>34, <2>35, <2>36, <2>37, <2>38, <2>39, <2>40, <2>41, <2>42, <2>43, <2>44, <2>45, <2>46, <2>47
       DEF Next, Pipeline, Interrupt, MainLoop, Receive

\* A step keeps what has been promised.
LEMMA PromiseStep ==
  ASSUME TurboClient, TurboInv, [Next]_vars
  PROVE  (PromiseInv)'
  <2> DEFINE J == PromiseInv
  <2> USE TurboFacts, StateTypes DEF TurboInv, CodeInv, HolderInv, DriverInv, Requests, Starting,
      Answered, StartCode, CallCode, Beginning, FrameSends, FrameCode, SyncCode,
      SyncTasksPending, BatchReplies, Replies, MainHolds, IrqHolds, ReplyHolds, Serving, Held,
      TasksAsked, IrqBegins, IrqSends, MainFrame, SendFrame, Carried, InProgress,
      Pending, Continuous, Deferred, Callback, Closing, HasChangesPending,
      HasWaitingColorMapUpdate, Running, Ignored, Ctx, PBs, At, Goto, Call, Return,
      Put, Post, Send, SendMessage, Completed, TopLevel, Next1, Quiet,
      MessageMayArrive, RetraceMayCome, control, net,
      PromiseInv, NoRequestForgotten, ContinuousUpdatesGoOn, Owed, Answering,
      BeforeHeader
  <2>1. ASSUME NEW c \in Ctx, BatchFinished(c) PROVE J'
    BY <2>1 DEF BatchFinished
  <2>2. ASSUME NEW c \in Ctx, NextMessage(c) PROVE J'
    BY <2>2 DEF NextMessage
  <2>3. ASSUME NEW c \in Ctx, PlainMessage(c) PROVE J'
    BY <2>3 DEF PlainMessage
  <2>4. ASSUME NEW c \in Ctx, SetPixelFormat(c) PROVE J'
    BY <2>4 DEF SetPixelFormat
  <2>5. ASSUME NEW c \in Ctx, SetEncodings(c) PROVE J'
    BY <2>5 DEF SetEncodings, PseudoEncodings
  <2>6. ASSUME NEW c \in Ctx, ClientFence(c) PROVE J'
    BY <2>6 DEF ClientFence
  <2>7. ASSUME NEW c \in Ctx, DispatchRequest(c) PROVE J'
    BY <2>7 DEF DispatchRequest
  <2>8. ASSUME NEW c \in Ctx, IgnoreRequest(c) PROVE J'
    BY <2>8 DEF IgnoreRequest
  <2>9. ASSUME NEW c \in Ctx, AcceptRequest(c) PROVE J'
    BY <2>9 DEF AcceptRequest
  <2>10. ASSUME NEW c \in Ctx, SetPending(c) PROVE J'
    BY <2>10 DEF SetPending
  <2>11. ASSUME NEW c \in Ctx, SetUpdateRect(c) PROVE J'
    BY <2>11 DEF SetUpdateRect
  <2>12. ASSUME NEW c \in Ctx, SendFBUpdate(c) PROVE J'
    BY <2>12 DEF SendFBUpdate
  <2>13. ASSUME NEW c \in Ctx, RequestDirtyRect(c) PROVE J'
    BY <2>13 DEF RequestDirtyRect
  <2>14. ASSUME NEW c \in Ctx, PrepareForFBUpdate(c) PROVE J'
    BY <2>14 DEF PrepareForFBUpdate
  <2>15. ASSUME NEW c \in Ctx, EncoderBegin(c) PROVE J'
    BY <2>15 DEF EncoderBegin
  <2>16. ASSUME NEW c \in Ctx, SendColorMap(c) PROVE J'
    BY <2>16 DEF SendColorMap
  <2>17. ASSUME NEW c \in Ctx, SendHeader(c) PROVE J'
    BY <2>17 DEF SendHeader
  <2>18. ASSUME NEW c \in Ctx, InitialServerFence(c) PROVE J'
    BY <2>18 DEF InitialServerFence
  <2>19. CASE DeferToMainLoop
    BY <2>19 DEF DeferToMainLoop
  <2>20. CASE EncodeCursor
    BY <2>20 DEF EncodeCursor
  <2>21. CASE SendChunk
    BY <2>21 DEF SendChunk
  <2>22. CASE SendLastChunk
    BY <2>22 DEF SendLastChunk
  <2>23. CASE FinishFBUpdate
    BY <2>23 DEF FinishFBUpdate
  <2>24. CASE EndOfFrame
    BY <2>24 DEF EndOfFrame
  <2>25. CASE FinishMultiPartMessage
    BY <2>25 DEF FinishMultiPartMessage
  <2>26. CASE DoNothing
    BY <2>26 DEF DoNothing
  <2>27. CASE VBLTaskDone
    BY <2>27 DEF VBLTaskDone
  <2>28. CASE EnableContUpdates
    BY <2>28 DEF EnableContUpdates
  <2>29. CASE SetContinuous
    BY <2>29 DEF SetContinuous
  <2>30. CASE DisableContUpdates
    BY <2>30 DEF DisableContUpdates
  <2>31. CASE CheckServerState
    BY <2>31 DEF CheckServerState
  <2>32. CASE CheckColorTable
    BY <2>32 DEF CheckColorTable
  <2>33. CASE ServerIdleTask
    BY <2>33 DEF ServerIdleTask
  <2>34. CASE StartSyncTasks
    BY <2>34 DEF StartSyncTasks
  <2>35. CASE EncoderSyncTasks
    BY <2>35 DEF EncoderSyncTasks
  <2>36. CASE PaletteSyncTasks
    BY <2>36 DEF PaletteSyncTasks, ReadPalette
  <2>37. CASE ServerStop
    BY <2>37 DEF ServerStop
  <2>38. CASE AwaitStopped
    BY <2>38 DEF AwaitStopped
  <2>39. CASE ReadMessages
    BY <2>39 DEF ReadMessages
  <2>40. CASE GotNewMessages
    BY <2>40 DEF GotNewMessages
  <2>41. CASE ReceiveFailed
    BY <2>41 DEF ReceiveFailed
  <2>42. CASE StreamGone
    BY <2>42 DEF StreamGone
  <2>43. CASE SendCompleted
    BY <2>43 DEF SendCompleted
  <2>44. CASE SendFailed
    BY <2>44 DEF SendFailed
  <2>45. CASE GotDirtyRect
    BY <2>45 DEF GotDirtyRect
  <2>46. CASE ClientCloses
    BY <2>46 DEF ClientCloses
  <2>47. CASE UNCHANGED vars
    BY <2>47 DEF vars
  <2> QED
    BY <2>1, <2>2, <2>3, <2>4, <2>5, <2>6, <2>7, <2>8, <2>9, <2>10, <2>11, <2>12, <2>13, <2>14, <2>15, <2>16, <2>17, <2>18, <2>19, <2>20, <2>21, <2>22, <2>23, <2>24, <2>25, <2>26, <2>27, <2>28, <2>29, <2>30, <2>31, <2>32, <2>33, <2>34, <2>35, <2>36, <2>37, <2>38, <2>39, <2>40, <2>41, <2>42, <2>43, <2>44, <2>45, <2>46, <2>47
       DEF Next, Pipeline, Interrupt, MainLoop, Receive

\* How a batch with one request can change in a step.
LEMMA SingleFacts ==
  ASSUME SingleClient, TurboInv, SingleInv
  PROVE  /\ OneRequest(inbox)
         /\ inbox # <<>> /\ Head(inbox) \in Requests => NoRequests(Skipped)
         /\ NoRequests(inbox) => NoRequests(Skipped)
         /\ inbox' = inbox => /\ OneRequest(inbox)'
                              /\ NoRequests(inbox) => NoRequests(inbox)'
                              /\ NoRequests(Skipped) => NoRequests(Skipped)'
         /\ inbox' = Skipped => /\ OneRequest(inbox)'
                                /\ NoRequests(Skipped) => NoRequests(inbox)'
         /\ inbox' = <<>> => OneRequest(inbox)' /\ NoRequests(inbox)' /\ NoRequests(Skipped)'
         /\ inbox' \in Batches => OneRequest(inbox)'
  <1>1. inbox \in Seq(Messages) /\ OneRequest(inbox)
    BY DEF TurboInv, TypeOK, DataType, SingleInv
  <1>2. OneRequest(Skipped)
    BY <1>1 DEF OneRequest, Skipped
  <1>3. inbox # <<>> /\ Head(inbox) \in Requests => NoRequests(Skipped)
    BY <1>1 DEF OneRequest, NoRequests, Skipped
  <1>4. NoRequests(inbox) => NoRequests(Skipped)
    BY <1>1, SkippedTurbo
  <1>5. inbox' = inbox => Skipped' = Skipped
    BY DEF Skipped
  <1>6. inbox' = <<>> => Skipped' = <<>>
    BY DEF Skipped
  <1>7. ASSUME NEW b, inbox' = b
        PROVE  /\ OneRequest(b) => OneRequest(inbox)'
               /\ NoRequests(b) => NoRequests(inbox)'
    BY <1>7 DEF OneRequest, NoRequests
  <1>8. ASSUME NEW b, Skipped' = b
        PROVE  NoRequests(b) => NoRequests(Skipped)'
    BY <1>8 DEF NoRequests
  <1>9. OneRequest(<<>>) /\ NoRequests(<<>>)
    BY DEF OneRequest, NoRequests
  <1> QED
    BY <1>1, <1>2, <1>3, <1>4, <1>5, <1>6, <1>7, <1>8, <1>9 DEF SingleClient

\* With one request in a batch, a step puts none aside.
LEMMA SingleStep ==
  ASSUME TurboClient, SingleClient, TurboInv, SingleInv, [Next]_vars
  PROVE  (SingleInv)'
  <2> DEFINE J == SingleInv
  <2> USE TurboFacts, SingleFacts, StateTypes DEF TurboInv, CodeInv, HolderInv, DriverInv, Requests, Starting,
      Answered, StartCode, CallCode, Beginning, FrameSends, FrameCode, SyncCode,
      SyncTasksPending, BatchReplies, Replies, MainHolds, IrqHolds, ReplyHolds, Serving, Held,
      TasksAsked, IrqBegins, IrqSends, MainFrame, SendFrame, Carried, InProgress,
      Pending, Continuous, Deferred, Callback, Closing, HasChangesPending,
      HasWaitingColorMapUpdate, Running, Ignored, Ctx, PBs, At, Goto, Call, Return,
      Put, Post, Send, SendMessage, Completed, TopLevel, Next1, Quiet,
      MessageMayArrive, RetraceMayCome, control, net,
      SingleInv
  <2>1. ASSUME NEW c \in Ctx, BatchFinished(c) PROVE J'
    BY <2>1 DEF BatchFinished
  <2>2. ASSUME NEW c \in Ctx, NextMessage(c) PROVE J'
    BY <2>2 DEF NextMessage
  <2>3. ASSUME NEW c \in Ctx, PlainMessage(c) PROVE J'
    BY <2>3 DEF PlainMessage
  <2>4. ASSUME NEW c \in Ctx, SetPixelFormat(c) PROVE J'
    BY <2>4 DEF SetPixelFormat
  <2>5. ASSUME NEW c \in Ctx, SetEncodings(c) PROVE J'
    BY <2>5 DEF SetEncodings, PseudoEncodings
  <2>6. ASSUME NEW c \in Ctx, ClientFence(c) PROVE J'
    BY <2>6 DEF ClientFence
  <2>7. ASSUME NEW c \in Ctx, DispatchRequest(c) PROVE J'
    BY <2>7 DEF DispatchRequest
  <2>8. ASSUME NEW c \in Ctx, IgnoreRequest(c) PROVE J'
    BY <2>8 DEF IgnoreRequest
  <2>9. ASSUME NEW c \in Ctx, AcceptRequest(c) PROVE J'
    BY <2>9 DEF AcceptRequest
  <2>10. ASSUME NEW c \in Ctx, SetPending(c) PROVE J'
    BY <2>10 DEF SetPending
  <2>11. ASSUME NEW c \in Ctx, SetUpdateRect(c) PROVE J'
    BY <2>11 DEF SetUpdateRect
  <2>12. ASSUME NEW c \in Ctx, SendFBUpdate(c) PROVE J'
    BY <2>12 DEF SendFBUpdate
  <2>13. ASSUME NEW c \in Ctx, RequestDirtyRect(c) PROVE J'
    BY <2>13 DEF RequestDirtyRect
  <2>14. ASSUME NEW c \in Ctx, PrepareForFBUpdate(c) PROVE J'
    BY <2>14 DEF PrepareForFBUpdate
  <2>15. ASSUME NEW c \in Ctx, EncoderBegin(c) PROVE J'
    BY <2>15 DEF EncoderBegin
  <2>16. ASSUME NEW c \in Ctx, SendColorMap(c) PROVE J'
    BY <2>16 DEF SendColorMap
  <2>17. ASSUME NEW c \in Ctx, SendHeader(c) PROVE J'
    BY <2>17 DEF SendHeader
  <2>18. ASSUME NEW c \in Ctx, InitialServerFence(c) PROVE J'
    BY <2>18 DEF InitialServerFence
  <2>19. CASE DeferToMainLoop
    BY <2>19 DEF DeferToMainLoop
  <2>20. CASE EncodeCursor
    BY <2>20 DEF EncodeCursor
  <2>21. CASE SendChunk
    BY <2>21 DEF SendChunk
  <2>22. CASE SendLastChunk
    BY <2>22 DEF SendLastChunk
  <2>23. CASE FinishFBUpdate
    BY <2>23 DEF FinishFBUpdate
  <2>24. CASE EndOfFrame
    BY <2>24 DEF EndOfFrame
  <2>25. CASE FinishMultiPartMessage
    BY <2>25 DEF FinishMultiPartMessage
  <2>26. CASE DoNothing
    BY <2>26 DEF DoNothing
  <2>27. CASE VBLTaskDone
    BY <2>27 DEF VBLTaskDone
  <2>28. CASE EnableContUpdates
    BY <2>28 DEF EnableContUpdates
  <2>29. CASE SetContinuous
    BY <2>29 DEF SetContinuous
  <2>30. CASE DisableContUpdates
    BY <2>30 DEF DisableContUpdates
  <2>31. CASE CheckServerState
    BY <2>31 DEF CheckServerState
  <2>32. CASE CheckColorTable
    BY <2>32 DEF CheckColorTable
  <2>33. CASE ServerIdleTask
    BY <2>33 DEF ServerIdleTask
  <2>34. CASE StartSyncTasks
    BY <2>34 DEF StartSyncTasks
  <2>35. CASE EncoderSyncTasks
    BY <2>35 DEF EncoderSyncTasks
  <2>36. CASE PaletteSyncTasks
    BY <2>36 DEF PaletteSyncTasks, ReadPalette
  <2>37. CASE ServerStop
    BY <2>37 DEF ServerStop
  <2>38. CASE AwaitStopped
    BY <2>38 DEF AwaitStopped
  <2>39. CASE ReadMessages
    BY <2>39 DEF ReadMessages
  <2>40. CASE GotNewMessages
    BY <2>40 DEF GotNewMessages
  <2>41. CASE ReceiveFailed
    BY <2>41 DEF ReceiveFailed
  <2>42. CASE StreamGone
    BY <2>42 DEF StreamGone
  <2>43. CASE SendCompleted
    BY <2>43 DEF SendCompleted
  <2>44. CASE SendFailed
    BY <2>44 DEF SendFailed
  <2>45. CASE GotDirtyRect
    BY <2>45 DEF GotDirtyRect
  <2>46. CASE ClientCloses
    BY <2>46 DEF ClientCloses
  <2>47. CASE UNCHANGED vars
    BY <2>47 DEF vars
  <2> QED
    BY <2>1, <2>2, <2>3, <2>4, <2>5, <2>6, <2>7, <2>8, <2>9, <2>10, <2>11, <2>12, <2>13, <2>14, <2>15, <2>16, <2>17, <2>18, <2>19, <2>20, <2>21, <2>22, <2>23, <2>24, <2>25, <2>26, <2>27, <2>28, <2>29, <2>30, <2>31, <2>32, <2>33, <2>34, <2>35, <2>36, <2>37, <2>38, <2>39, <2>40, <2>41, <2>42, <2>43, <2>44, <2>45, <2>46, <2>47
       DEF Next, Pipeline, Interrupt, MainLoop, Receive

----------------------------------------------------------------------------
(* TurboVNC clients: the safety properties.                                  *)

\* The invariant holds when a session starts.
LEMMA InitTurbo == Init => TurboInv
  <1> SUFFICES ASSUME Init PROVE TurboInv
    OBVIOUS
  <1>1. inbox = <<>>
    BY DEF Init
  <1>2. TurboBatch(inbox) /\ AsksAnswer(inbox)
    BY <1>1 DEF TurboBatch, AsksAnswer
  <1> QED
    BY <1>2, MaxOutstandingAssumption, ConfigAssumption
       DEF Init, TurboInv, TypeOK, ControlType, NetType, DataType, Flags, States, Ctx,
           PBs, SharedLabels, SendLabels, RecvLabels, IrqLabels, MainLabels, TopLevel,
           Messages, CodeInv, HolderInv, DriverInv, BytesInv, PromiseInv, CallCode,
           StartCode, Beginning, FrameSends, Replies, BatchReplies, MainHolds, IrqHolds,
           ReplyHolds, Serving, Held, TasksAsked, IrqBegins, IrqSends, MainFrame,
           SendFrame, Carried, SyncTasksPending, SyncCode, InProgress, Deferred, Running,
           Owed, NoRequestForgotten, ContinuousUpdatesGoOn, Continuous

\* TurboInv is an invariant of every session with a TurboVNC client under the timing
\* that its extensions need, also if the network fails or the client closes.
THEOREM TurboInvariance == TurboClient => (Spec => []TurboInv)
<1> SUFFICES ASSUME TurboClient PROVE Spec => []TurboInv
  OBVIOUS
<1>1. TurboInv /\ [Next]_vars => TurboInv'
  BY TypeStep, HolderStep, DriverStep, BytesStep, PromiseStep DEF TurboInv
<1> QED
  BY InitTurbo, <1>1, PTL DEF Spec

\* Fences and answers included, myWDS and vncServerMessage are never overwritten while
\* MacTCP reads them.
THEOREM TurboSendRecord == TurboClient => (Spec => []SendRecordNotReused)
<1>1. TurboInv => SendRecordNotReused
  BY DEF TurboInv, DriverInv, SendRecordNotReused
<1> QED
  BY <1>1, TurboInvariance, PTL

\* No fence and no answer falls into a frame.
THEOREM TurboFrames == TurboClient => (Spec => []FramesNotInterleaved)
<1>1. TurboInv => FramesNotInterleaved
  BY DEF TurboInv, BytesInv, FramesNotInterleaved
<1> QED
  BY <1>1, TurboInvariance, PTL

\* The event loop touches the update buffer and the pixel format only while no send can
\* read them, not even that of the fence at the end of a frame.
THEOREM TurboSyncTasks == TurboClient => (Spec => []SyncTasksFindPipelineIdle)
<1>1. TurboInv => SyncTasksFindPipelineIdle
  BY DEF TurboInv, DriverInv, BytesInv, SyncTasksPending, Carried,
         SyncTasksFindPipelineIdle
<1> QED
  BY <1>1, TurboInvariance, PTL

\* No accepted request is forgotten, whether continuous updates are on or off.
THEOREM TurboRequests == TurboClient => (Spec => []NoRequestForgotten)
<1>1. TurboInv => NoRequestForgotten
  BY DEF TurboInv, PromiseInv
<1> QED
  BY <1>1, TurboInvariance, PTL

\* While continuous updates are on, a dirty rectangle is asked for or a frame is under
\* way whose end will ask.
THEOREM ContinuousSafe == TurboClient => (Spec => []ContinuousUpdatesGoOn)
<1>1. TurboInv => ContinuousUpdatesGoOn
  BY DEF TurboInv, PromiseInv
<1> QED
  BY <1>1, TurboInvariance, PTL

\* inStream and epb_recv have one user at a time, the answer after which a batch goes on
\* among them; and they always have one if no fence comes that asks for no answer.
THEOREM TurboStream ==
  TurboClient /\ FencesAsk => (Spec => []StreamHasOneOwner)
<1> SUFFICES ASSUME TurboClient, FencesAsk PROVE Spec => []StreamHasOneOwner
  OBVIOUS
<1>1. TurboInv => StreamHasOneOwner
  <2> SUFFICES ASSUME TurboInv, vncState = "VNC_RUNNING" PROVE StreamHasOneOwner
    BY DEF StreamHasOneOwner
  <2> USE DEF TurboInv, HolderInv, StreamOwners
  <2>1. Dispatching("main") <=> MainHolds
    BY DEF TypeOK, ControlType, MainLabels, SharedLabels, SyncCode, CodeInv, Dispatching,
           BatchCode, Answering, StartCode, Beginning, MainHolds
  <2>2. Dispatching("irq") <=> IrqHolds
    BY DEF TypeOK, ControlType, IrqLabels, SharedLabels, SendLabels, CodeInv, Dispatching,
           BatchCode, Answering, BatchReplies, StartCode, CallCode, IrqHolds
  <2>3. /\ "main" \in StreamOwners <=> MainHolds
        /\ "irq" \in StreamOwners <=> IrqHolds
        /\ "deferred" \in StreamOwners <=> Deferred
        /\ "epb_recv" \in StreamOwners <=> out["epb_recv"] > 0
        /\ "epb_send" \in StreamOwners <=> ReplyHolds
        /\ StreamOwners \subseteq {"main", "irq", "deferred", "epb_recv", "epb_send"}
    BY <2>1, <2>2 DEF Ctx, CodeInv, BatchCode, FrameSends, Replies, BatchReplies, ReplyHolds
  <2>4. ~(out["epb_recv"] > 0 /\ out["epb_recv"] = 0)
    BY StateTypes DEF PBs
  <2>5. \A o, p \in StreamOwners : o = p
    BY <2>3, <2>4 DEF Held
  <2>6. Running => StreamOwners # {}
    BY <2>3 DEF Held
  <2> QED
    BY <2>5, <2>6 DEF StreamHasOneOwner
<1> QED
  BY <1>1, TurboInvariance, PTL

\* fbUpdateInProgress is a lock for a TurboVNC client too, if each batch has one request
\* at most. (With two, the end of a frame asks for the synchronised tasks twice.)
THEOREM TurboFrameDriver ==
  TurboClient /\ SingleClient => (Spec => []FrameHasOneDriver)
<1> SUFFICES ASSUME TurboClient, SingleClient PROVE Spec => []FrameHasOneDriver
  OBVIOUS
<1>1. Init => TurboInv /\ SingleInv
  <2> SUFFICES ASSUME Init PROVE SingleInv
    BY InitTurbo
  <2>1. OneRequest(inbox)
    BY DEF Init, OneRequest
  <2> QED
    BY <2>1 DEF Init, SingleInv, Pending, TopLevel, Ctx, StartCode, CallCode, IrqBegins
<1>2. TurboInv /\ SingleInv /\ [Next]_vars => (TurboInv /\ SingleInv)'
  BY TypeStep, HolderStep, DriverStep, BytesStep, PromiseStep, SingleStep DEF TurboInv
<1>3. TurboInv /\ SingleInv => FrameHasOneDriver
  <2> SUFFICES ASSUME TurboInv, SingleInv PROVE FrameHasOneDriver
    OBVIOUS
  <2> USE DEF TurboInv, DriverInv, SingleInv, Drivers
  <2>1. /\ "irq" \in Drivers <=> IrqBegins \/ IrqSends
        /\ "main" \in Drivers <=> MainFrame
        /\ "syncTasks" \in Drivers <=> SyncTasksPending
        /\ "epb_send" \in Drivers <=> SendFrame
        /\ Drivers \subseteq {"irq", "main", "syncTasks", "epb_send"}
    BY DEF TypeOK, ControlType, MainLabels, SharedLabels, Ctx, FrameCode, FrameSends,
           IrqBegins, IrqSends, MainFrame, SendFrame
  <2>2. ~(IrqBegins /\ SendFrame)
    BY DEF IrqBegins, SendFrame, Beginning, FrameSends
  <2>3. ~(IrqSends /\ SendFrame) /\ ~(MainFrame /\ SendFrame)
    BY DEF SendFrame
  <2>4. ~(MainFrame /\ (IrqBegins \/ IrqSends))
    BY DEF IrqBegins, IrqSends, FrameSends
  <2>5. \A d, e \in Drivers : d = e
    BY <2>1, <2>2, <2>3, <2>4
  <2>6. (~InProgress => Drivers = {}) /\ (InProgress /\ Running => Drivers # {})
    BY <2>1 DEF Carried
  <2> QED
    BY <2>5, <2>6 DEF FrameHasOneDriver
<1> QED
  BY <1>1, <1>2, <1>3, PTL DEF Spec

=============================================================================
