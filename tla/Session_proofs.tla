---------------------------- MODULE Session_proofs ----------------------------
(* Proofs about Session: its types, that a stop is not undone, that a server  *)
(* is never deaf, and that a parameter block has one call, each for every     *)
(* choice of mishaps but those that its hypothesis names.                     *)
EXTENDS Session, FiniteSetTheorems, TLAPS

----------------------------------------------------------------------------
(* Types: the flags and the other values, which the provers treat apart.     *)

\* A step keeps the flags flags.
LEMMA FlagStep == FlagTypes /\ [Next]_vars => FlagTypes'
  <1> SUFFICES ASSUME FlagTypes, [Next]_vars PROVE FlagTypes'
    OBVIOUS
  <1> USE DEF FlagTypes, config, server, net, loop
  <1>1. CASE Environment
    BY <1>1, Zenon DEF Environment, ClientConnects, ClientCloses, ConnectionTerminates
  <1>2. ASSUME NEW c \in Calls, NEW e \in Errors, RecvCompleted(c, e) PROVE FlagTypes'
    <2> USE DEF Completed, Post, NoCall, ListenAgain, RecvFailed, Failed
    <2>1. CASE StreamCreated(c, e)
      BY <2>1, Zenon DEF StreamCreated
    <2>2. CASE StreamClosed(c, e)
      BY <2>2, Zenon DEF StreamClosed
    <2>3. CASE Handshake(c, e)
      BY <2>3, Zenon DEF Handshake
    <2>4. CASE SendAuthTypes(c, e)
      BY <2>4, Zenon DEF SendAuthTypes
    <2>5. CASE ProcessAuthType(c, e)
      BY <2>5, Zenon DEF ProcessAuthType
    <2>6. CASE SendAuthChallenge(c, e)
      BY <2>6, Zenon DEF SendAuthChallenge
    <2>7. CASE SendServerInit(c, e)
      BY <2>7, Zenon DEF SendServerInit
    <2>8. CASE ReadMessages(c, e)
      BY <2>8, Zenon DEF ReadMessages, StartFrame
    <2> QED
      BY <1>2, <2>1, <2>2, <2>3, <2>4, <2>5, <2>6, <2>7, <2>8 DEF RecvCompleted
  <1>3. CASE SendCompletes
    BY <1>3, Zenon DEF SendCompletes, SendCompleted, Failed
  <1>4. CASE GotDirtyRect
    BY <1>4, Zenon DEF GotDirtyRect, StartFrame
  <1>5. CASE EndLoop \/ NoEvent \/ Stop
    BY <1>5, Zenon DEF EndLoop, NoEvent, Stop, StopThen, StopRelease, StopAwait, Resume
  <1>6. CASE CheckServerState \/ RunFBSyncedTasks
    BY <1>6, Zenon DEF CheckServerState, RunFBSyncedTasks, ServerStop, Resume
  <1>7. CASE User
    BY <1>7, Zenon DEF User, StartServer, Quit, ServerStop, Resume
  <1>8. CASE UNCHANGED vars
    BY <1>8, Zenon DEF vars
  <1> QED
    BY <1>1, <1>2, <1>3, <1>4, <1>5, <1>6, <1>7, <1>8
       DEF Next, Interrupt, RecvCompletes, EventLoop

\* A step keeps the types of what MacTCP has.
LEMMA NetStep == NetTypes /\ [Next]_vars => NetTypes'
  <1> SUFFICES ASSUME NetTypes, [Next]_vars PROVE NetTypes'
    OBVIOUS
  <1> USE MishapsAssumption DEF NetTypes, config, server, net, loop, Calls, Routines
  <1>1. CASE Environment
    BY <1>1 DEF Environment, ClientConnects, ClientCloses, ConnectionTerminates
  <1>2. ASSUME NEW c \in Calls, NEW e \in Errors, RecvCompleted(c, e) PROVE NetTypes'
    <2> USE DEF Completed, Post, NoCall, ListenAgain, RecvFailed, Failed
    <2>1. CASE StreamCreated(c, e)
      BY <2>1 DEF StreamCreated, StreamAfter
    <2>2. CASE StreamClosed(c, e)
      BY <2>2 DEF StreamClosed, StreamAfter
    <2>3. CASE Handshake(c, e)
      <3>1. UNCHANGED <<config, sends, stream, loop>>
        BY <2>3 DEF Handshake
      <3>2. PICK s \in Steps : Handshake(c, e)!2!(s)
        BY <2>3 DEF Handshake
      <3>3. s[2] \in {"send", "receive"} /\ s[3] \in Routines
        BY DEF Steps
      <3>4. out' \subseteq Calls /\ then' \in Routines
        BY <3>2, <3>3
      <3>5. authType' = authType
        BY <3>2
      <3> QED
        BY <3>1, <3>4, <3>5
    <2>4. CASE SendAuthTypes(c, e)
      BY <2>4 DEF SendAuthTypes, DefaultAuth
    <2>5. CASE ProcessAuthType(c, e)
      BY <2>5 DEF ProcessAuthType
    <2>6. CASE SendAuthChallenge(c, e)
      BY <2>6 DEF SendAuthChallenge
    <2>7. CASE SendServerInit(c, e)
      BY <2>7 DEF SendServerInit
    <2>8. CASE ReadMessages(c, e)
      <3>1. sends' \in 0 .. MaxSends
        BY <2>8 DEF ReadMessages, StartFrame
      <3>2. out' \subseteq Calls /\ then' \in Routines
        BY <2>8 DEF ReadMessages
      <3> QED
        BY <2>8, <3>1, <3>2 DEF ReadMessages
    <2> QED
      BY <1>2, <2>1, <2>2, <2>3, <2>4, <2>5, <2>6, <2>7, <2>8 DEF RecvCompleted
  <1>3. CASE SendCompletes
    BY <1>3 DEF SendCompletes, SendCompleted, Failed
  <1>4. CASE GotDirtyRect
    BY <1>4 DEF GotDirtyRect, StartFrame
  <1>5. CASE EndLoop \/ NoEvent \/ Stop
    BY <1>5 DEF EndLoop, NoEvent, Stop, StopThen, StopRelease, StopAwait, Resume
  <1>6. CASE CheckServerState \/ RunFBSyncedTasks
    BY <1>6 DEF CheckServerState, RunFBSyncedTasks, ServerStop, Resume
  <1>7. CASE User
    BY <1>7 DEF User, StartServer, Quit, ServerStop, Resume
  <1>8. CASE UNCHANGED vars
    BY <1>8 DEF vars
  <1> QED
    BY <1>1, <1>2, <1>3, <1>4, <1>5, <1>6, <1>7, <1>8
       DEF Next, Interrupt, RecvCompletes, EventLoop

\* A step keeps the types of the states of the server and of the event loop.
LEMMA StateStep == StateTypes /\ [Next]_vars => StateTypes'
  <1> SUFFICES ASSUME StateTypes, [Next]_vars PROVE StateTypes'
    OBVIOUS
  <1> USE DEF StateTypes, config, server, net, loop, States, Errors
  <1>1. CASE Environment
    BY <1>1 DEF Environment, ClientConnects, ClientCloses, ConnectionTerminates
  <1>2. ASSUME NEW c \in Calls, NEW e \in Errors, RecvCompleted(c, e) PROVE StateTypes'
    <2> USE DEF Completed, Post, NoCall, ListenAgain, RecvFailed, Failed
    <2>1. CASE StreamCreated(c, e)
      BY <2>1 DEF StreamCreated
    <2>2. CASE StreamClosed(c, e)
      BY <2>2 DEF StreamClosed
    <2>3. CASE Handshake(c, e)
      <3>1. UNCHANGED <<config, sends, stream, loop>>
        BY <2>3 DEF Handshake
      <3>2. PICK s \in Steps : Handshake(c, e)!2!(s)
        BY <2>3 DEF Handshake
      <3>3. vncState' \in States /\ vncError' \in Errors
        BY <3>2
      <3> QED
        BY <3>1, <3>3
    <2>4. CASE SendAuthTypes(c, e)
      BY <2>4 DEF SendAuthTypes
    <2>5. CASE ProcessAuthType(c, e)
      BY <2>5 DEF ProcessAuthType
    <2>6. CASE SendAuthChallenge(c, e)
      BY <2>6 DEF SendAuthChallenge
    <2>7. CASE SendServerInit(c, e)
      BY <2>7 DEF SendServerInit
    <2>8. CASE ReadMessages(c, e)
      BY <2>8 DEF ReadMessages
    <2> QED
      BY <1>2, <2>1, <2>2, <2>3, <2>4, <2>5, <2>6, <2>7, <2>8 DEF RecvCompleted
  <1>3. CASE SendCompletes
    BY <1>3 DEF SendCompletes, SendCompleted, Failed
  <1>4. CASE GotDirtyRect
    BY <1>4 DEF GotDirtyRect, StartFrame
  <1>5. CASE EndLoop \/ NoEvent \/ Stop
    BY <1>5 DEF EndLoop, NoEvent, Stop, StopThen, StopRelease, StopAwait, Resume
  <1>6. CASE CheckServerState \/ RunFBSyncedTasks
    BY <1>6 DEF CheckServerState, RunFBSyncedTasks, ServerStop, Resume
  <1>7. CASE User
    BY <1>7 DEF User, StartServer, Quit, ServerStop, Resume
  <1>8. CASE UNCHANGED vars
    BY <1>8 DEF vars
  <1> QED
    BY <1>1, <1>2, <1>3, <1>4, <1>5, <1>6, <1>7, <1>8
       DEF Next, Interrupt, RecvCompletes, EventLoop

\* Every variable keeps its type, and there are never more than MaxSends sends.
THEOREM SessionTypes == Spec => []TypeOK
<1>1. Init => FlagTypes
  BY Zenon DEF Init, FlagTypes
<1>2. Init => NetTypes /\ StateTypes
  BY MishapsAssumption DEF Init, NetTypes, StateTypes, Calls, Routines, States, Errors
<1>3. TypeOK /\ [Next]_vars => TypeOK'
  BY FlagStep, NetStep, StateStep DEF TypeOK
<1> QED
  BY <1>1, <1>2, <1>3, PTL DEF Spec, TypeOK

----------------------------------------------------------------------------
(* Stopping. Once vncServerStop has named the successor, no completion names *)
(* another one: that of a call which is still on its way only ends.          *)

\* Where vncServerStop is past its second statement, the release is what follows.
StopInv == main \in {"stop.release", "stop.await"} => then = "tcpStreamClosed"

LEMMA StopStep == StopInv /\ [Next]_vars => StopInv'
  <1> SUFFICES ASSUME StopInv, [Next]_vars PROVE StopInv'
    OBVIOUS
  <1> USE DEF StopInv, At, config, server, net, loop
  <1>1. CASE Environment
    BY <1>1 DEF Environment, ClientConnects, ClientCloses, ConnectionTerminates
  <1>2. ASSUME NEW c \in Calls, NEW e \in Errors, RecvCompleted(c, e) PROVE StopInv'
    <2> USE DEF Completed, Post, NoCall, ListenAgain, RecvFailed, Failed
    <2>1. CASE StreamCreated(c, e)
      BY <2>1 DEF StreamCreated
    <2>2. CASE StreamClosed(c, e)
      BY <2>2 DEF StreamClosed
    <2>3. CASE Handshake(c, e)
      BY <2>3 DEF Handshake, Steps
    <2>4. CASE SendAuthTypes(c, e)
      BY <2>4 DEF SendAuthTypes
    <2>5. CASE ProcessAuthType(c, e)
      BY <2>5 DEF ProcessAuthType
    <2>6. CASE SendAuthChallenge(c, e)
      BY <2>6 DEF SendAuthChallenge
    <2>7. CASE SendServerInit(c, e)
      BY <2>7 DEF SendServerInit
    <2>8. CASE ReadMessages(c, e)
      BY <2>8 DEF ReadMessages
    <2> QED
      BY <1>2, <2>1, <2>2, <2>3, <2>4, <2>5, <2>6, <2>7, <2>8 DEF RecvCompleted
  <1>3. CASE SendCompletes
    BY <1>3 DEF SendCompletes, SendCompleted, Failed
  <1>4. CASE GotDirtyRect
    BY <1>4 DEF GotDirtyRect, StartFrame
  <1>5. CASE EndLoop \/ NoEvent \/ Stop
    BY <1>5 DEF EndLoop, NoEvent, Stop, StopThen, StopRelease, StopAwait, Resume
  <1>6. CASE CheckServerState \/ RunFBSyncedTasks
    BY <1>6 DEF CheckServerState, RunFBSyncedTasks, ServerStop, Resume
  <1>7. CASE User
    BY <1>7 DEF User, StartServer, Quit, ServerStop, Resume
  <1>8. CASE UNCHANGED vars
    BY <1>8 DEF vars
  <1> QED
    BY <1>1, <1>2, <1>3, <1>4, <1>5, <1>6, <1>7, <1>8
       DEF Next, Interrupt, RecvCompletes, EventLoop

\* While vncServerStop waits, a completion can at most end the session, or fail it.
THEOREM StopSafe == Spec => StopNotUndone
<1>1. Init => StopInv
  BY DEF Init, StopInv
<1>2. StopInv /\ [Next]_vars
        => [main = "stop.await" /\ main' = main => vncState' \in {vncState, "STOPPED", "ERROR"}]_vars
  <2> SUFFICES ASSUME StopInv, [Next]_vars, main = "stop.await", main' = main
               PROVE  vncState' \in {vncState, "STOPPED", "ERROR"}
    OBVIOUS
  <2> USE DEF At, server, loop
  <2>1. CASE Environment
    BY <2>1 DEF Environment, ClientConnects, ClientCloses, ConnectionTerminates
  <2>2. CASE RecvCompletes
    <3>1. PICK c \in Calls, e \in Errors : RecvCompleted(c, e)
      BY <2>2 DEF RecvCompletes
    <3>2. StreamClosed(c, e)
      BY <3>1 DEF StopInv, RecvCompleted, StreamCreated, Handshake, Steps, SendAuthTypes,
                  ProcessAuthType, SendAuthChallenge, SendServerInit, ReadMessages
    <3> QED
      BY <3>2 DEF StreamClosed
  <2>3. CASE SendCompletes
    BY <2>3 DEF SendCompletes, SendCompleted, Failed
  <2>4. CASE GotDirtyRect
    BY <2>4 DEF GotDirtyRect
  <2>5. CASE EventLoop \/ User
    BY <2>5 DEF EventLoop, EndLoop, NoEvent, Stop, StopThen, StopRelease, StopAwait,
                CheckServerState, RunFBSyncedTasks, User, StartServer, Quit
  <2>6. CASE UNCHANGED vars
    BY <2>6 DEF vars
  <2> QED
    BY <2>1, <2>2, <2>3, <2>4, <2>5, <2>6 DEF Next, Interrupt
<1> QED
  BY <1>1, <1>2, StopStep, PTL DEF Spec, StopNotUndone

----------------------------------------------------------------------------
(* A server that listens, or has a client, waits for something.              *)

\* The state says that a session runs only while epb_recv reads messages, listens again
\* or ends; and a session that reads messages has passed its handshake.
RunInv ==
  /\ vncState = "RUNNING" => then \in {"vncReadMessages", "tcpStreamCreated", "tcpStreamClosed"}
  /\ then = "vncReadMessages" => vncState \notin {"STARTING", "WAITING", "CONNECTED"}

LEMMA RunStep == RunInv /\ [Next]_vars => RunInv'
  <1> SUFFICES ASSUME RunInv, [Next]_vars PROVE RunInv'
    OBVIOUS
  <1> USE DEF RunInv, config, server, net, loop
  <1>1. CASE Environment
    BY <1>1 DEF Environment, ClientConnects, ClientCloses, ConnectionTerminates
  <1>2. ASSUME NEW c \in Calls, NEW e \in Errors, RecvCompleted(c, e) PROVE RunInv'
    <2> USE DEF Completed, Post, NoCall, ListenAgain, RecvFailed, Failed
    <2>1. CASE StreamCreated(c, e)
      BY <2>1 DEF StreamCreated
    <2>2. CASE StreamClosed(c, e)
      BY <2>2 DEF StreamClosed
    <2>3. CASE Handshake(c, e)
      BY <2>3 DEF Handshake, Steps
    <2>4. CASE SendAuthTypes(c, e)
      BY <2>4 DEF SendAuthTypes
    <2>5. CASE ProcessAuthType(c, e)
      BY <2>5 DEF ProcessAuthType
    <2>6. CASE SendAuthChallenge(c, e)
      BY <2>6 DEF SendAuthChallenge
    <2>7. CASE SendServerInit(c, e)
      BY <2>7 DEF SendServerInit
    <2>8. CASE ReadMessages(c, e)
      BY <2>8 DEF ReadMessages
    <2> QED
      BY <1>2, <2>1, <2>2, <2>3, <2>4, <2>5, <2>6, <2>7, <2>8 DEF RecvCompleted
  <1>3. CASE SendCompletes
    BY <1>3 DEF SendCompletes, SendCompleted, Failed
  <1>4. CASE GotDirtyRect
    BY <1>4 DEF GotDirtyRect, StartFrame
  <1>5. CASE EndLoop \/ NoEvent \/ Stop
    BY <1>5 DEF EndLoop, NoEvent, Stop, StopThen, StopRelease, StopAwait, Resume
  <1>6. CASE CheckServerState \/ RunFBSyncedTasks
    BY <1>6 DEF CheckServerState, RunFBSyncedTasks, ServerStop, Resume
  <1>7. CASE User
    BY <1>7 DEF User, StartServer, Quit, ServerStop, Resume
  <1>8. CASE UNCHANGED vars
    BY <1>8 DEF vars
  <1> QED
    BY <1>1, <1>2, <1>3, <1>4, <1>5, <1>6, <1>7, <1>8
       DEF Next, Interrupt, RecvCompletes, EventLoop

\* A completion that is followed by no call ends the session, or fails it.
LEMMA DeafStep ==
  ASSUME "tightAuth" \notin Mishaps, RunInv, NotDeaf, [Next]_vars
  PROVE  NotDeaf'
  <1> USE DEF NotDeaf, config, server, net, loop
  <1>1. CASE Environment
    BY <1>1 DEF Environment, ClientConnects, ClientCloses, ConnectionTerminates
  <1>2. ASSUME NEW c \in Calls, NEW e \in Errors, RecvCompleted(c, e) PROVE NotDeaf'
    <2> USE DEF Completed, Post, NoCall, ListenAgain, RecvFailed, Failed
    <2>1. CASE StreamCreated(c, e)
      BY <2>1 DEF StreamCreated
    <2>2. CASE StreamClosed(c, e)
      BY <2>2 DEF StreamClosed
    <2>3. CASE Handshake(c, e)
      BY <2>3 DEF Handshake, Steps
    <2>4. CASE SendAuthTypes(c, e)
      BY <2>4 DEF SendAuthTypes
    <2>5. CASE ProcessAuthType(c, e)
      BY <2>5 DEF ProcessAuthType
    <2>6. CASE SendAuthChallenge(c, e)
      BY <2>6 DEF SendAuthChallenge
    <2>7. CASE SendServerInit(c, e)
      BY <2>7 DEF SendServerInit
    <2>8. CASE ReadMessages(c, e)
      BY <2>8 DEF ReadMessages, RunInv
    <2> QED
      BY <1>2, <2>1, <2>2, <2>3, <2>4, <2>5, <2>6, <2>7, <2>8 DEF RecvCompleted
  <1>3. CASE SendCompletes
    BY <1>3 DEF SendCompletes, SendCompleted, Failed
  <1>4. CASE GotDirtyRect
    BY <1>4 DEF GotDirtyRect, StartFrame
  <1>5. CASE EndLoop \/ NoEvent \/ Stop
    BY <1>5 DEF EndLoop, NoEvent, Stop, StopThen, StopRelease, StopAwait, Resume
  <1>6. CASE CheckServerState \/ RunFBSyncedTasks
    BY <1>6 DEF CheckServerState, RunFBSyncedTasks, ServerStop, Resume
  <1>7. CASE User
    BY <1>7 DEF User, StartServer, Quit, ServerStop, Resume
  <1>8. CASE UNCHANGED vars
    BY <1>8 DEF vars
  <1> QED
    BY <1>1, <1>2, <1>3, <1>4, <1>5, <1>6, <1>7, <1>8
       DEF Next, Interrupt, RecvCompletes, EventLoop

\* Unless a client asks for the authentication that was not offered, there is always
\* a call whose completion goes on.
THEOREM Listening == "tightAuth" \notin Mishaps => (Spec => []NotDeaf)
<1> SUFFICES ASSUME "tightAuth" \notin Mishaps PROVE Spec => []NotDeaf
  OBVIOUS
<1>1. Init => RunInv /\ NotDeaf
  BY DEF Init, RunInv, NotDeaf
<1>2. RunInv /\ NotDeaf /\ [Next]_vars => RunInv' /\ NotDeaf'
  BY RunStep, DeafStep
<1> QED
  BY <1>1, <1>2, PTL DEF Spec

----------------------------------------------------------------------------
(* A parameter block has one call. For epb_send this is fbUpdateInProgress,  *)
(* which the handshake clears: it must find no frame of the last client, nor *)
(* the tasks of one.                                                         *)

Handshaking ==
  {"tcpGetClientProtocolVersion", "tcpSendAuthTypes", "tcpGetAuthType", "tcpProcessAuthType",
   "tcpSendAuthChallenge", "tcpGetAuthChallengeResponse", "tcpSendAuthResult",
   "tcpWaitForClientInit", "tcpSendServerInit"}

\* There is one call on epb_recv beside the release; the release comes last.
RecvInv ==
  /\ \A c, d \in out \ {"release"} : c = d
  /\ "release" \in out => then = "tcpStreamClosed"
  /\ then = "tcpSendProtocolVersion" => out \subseteq {"open"}

\* A handshake begins and goes on without a frame.
FreshInv ==
  then \in Handshaking \/ (then = "tcpSendProtocolVersion" /\ stream # "listening")
    => sends = 0 /\ ~syncTasks

\* fbUpdateInProgress is held by a send, or by the tasks that precede one.
FrameInv ==
  /\ sends \in {0, 1}
  /\ sends = 1 => inProgress /\ ~syncTasks
  /\ syncTasks => inProgress

\* No client arrives while a frame of the last one waits, and the user does not start
\* the server while the stream is being released.
OneAtATime == "lateTasks" \notin Mishaps /\ "hastyStart" \notin Mishaps

LEMMA RecvInvStep ==
  ASSUME OneAtATime, RecvInv, StopInv, [Next]_vars
  PROVE  RecvInv'
  <1> USE DEF OneAtATime, RecvInv, config, server, net, loop
  <1>1. CASE Environment
    BY <1>1 DEF Environment, ClientConnects, ClientCloses, ConnectionTerminates
  <1>2. ASSUME NEW c \in Calls, NEW e \in Errors, RecvCompleted(c, e) PROVE RecvInv'
    <2> USE DEF Completed, Post, NoCall, ListenAgain, RecvFailed, Failed
    <2>1. CASE StreamCreated(c, e)
      BY <2>1 DEF StreamCreated
    <2>2. CASE StreamClosed(c, e)
      BY <2>2 DEF StreamClosed
    <2>3. CASE Handshake(c, e)
      BY <2>3 DEF Handshake, Steps
    <2>4. CASE SendAuthTypes(c, e)
      BY <2>4 DEF SendAuthTypes
    <2>5. CASE ProcessAuthType(c, e)
      BY <2>5 DEF ProcessAuthType
    <2>6. CASE SendAuthChallenge(c, e)
      BY <2>6 DEF SendAuthChallenge
    <2>7. CASE SendServerInit(c, e)
      BY <2>7 DEF SendServerInit
    <2>8. CASE ReadMessages(c, e)
      BY <2>8 DEF ReadMessages
    <2> QED
      BY <1>2, <2>1, <2>2, <2>3, <2>4, <2>5, <2>6, <2>7, <2>8 DEF RecvCompleted
  <1>3. CASE SendCompletes
    BY <1>3 DEF SendCompletes, SendCompleted, Failed
  <1>4. CASE GotDirtyRect
    BY <1>4 DEF GotDirtyRect, StartFrame
  <1>5. CASE EndLoop \/ NoEvent \/ Stop
    BY <1>5 DEF EndLoop, NoEvent, Stop, StopThen, StopRelease, StopAwait, Resume,
                StopInv, At
  <1>6. CASE CheckServerState \/ RunFBSyncedTasks
    BY <1>6 DEF CheckServerState, RunFBSyncedTasks, ServerStop, Resume
  <1>7. CASE User
    BY <1>7 DEF User, StartServer, Quit, ServerStop, Resume
  <1>8. CASE UNCHANGED vars
    BY <1>8 DEF vars
  <1> QED
    BY <1>1, <1>2, <1>3, <1>4, <1>5, <1>6, <1>7, <1>8
       DEF Next, Interrupt, RecvCompletes, EventLoop

LEMMA FreshStep ==
  ASSUME OneAtATime, RunInv, RecvInv, FreshInv, [Next]_vars
  PROVE  FreshInv'
  <1> USE DEF OneAtATime, RunInv, FreshInv, Handshaking, config, server, net, loop
  <1>1. CASE Environment
    BY <1>1 DEF Environment, ClientConnects, ClientCloses, ConnectionTerminates
  <1>2. ASSUME NEW c \in Calls, NEW e \in Errors, RecvCompleted(c, e) PROVE FreshInv'
    <2> USE DEF Completed, Post, NoCall, ListenAgain, RecvFailed, Failed
    <2>1. CASE StreamCreated(c, e)
      BY <2>1 DEF StreamCreated
    <2>2. CASE StreamClosed(c, e)
      BY <2>2 DEF StreamClosed
    <2>3. CASE Handshake(c, e)
      BY <2>3 DEF Handshake, Steps, RecvInv, Results, Ending
    <2>4. CASE SendAuthTypes(c, e)
      BY <2>4 DEF SendAuthTypes
    <2>5. CASE ProcessAuthType(c, e)
      BY <2>5 DEF ProcessAuthType
    <2>6. CASE SendAuthChallenge(c, e)
      BY <2>6 DEF SendAuthChallenge
    <2>7. CASE SendServerInit(c, e)
      BY <2>7 DEF SendServerInit
    <2>8. CASE ReadMessages(c, e)
      BY <2>8 DEF ReadMessages
    <2> QED
      BY <1>2, <2>1, <2>2, <2>3, <2>4, <2>5, <2>6, <2>7, <2>8 DEF RecvCompleted
  <1>3. CASE SendCompletes
    BY <1>3 DEF SendCompletes, SendCompleted, Failed
  <1>4. CASE GotDirtyRect
    BY <1>4 DEF GotDirtyRect, StartFrame
  <1>5. CASE EndLoop \/ NoEvent \/ Stop
    BY <1>5 DEF EndLoop, NoEvent, Stop, StopThen, StopRelease, StopAwait, Resume
  <1>6. CASE CheckServerState \/ RunFBSyncedTasks
    BY <1>6 DEF CheckServerState, RunFBSyncedTasks, ServerStop, Resume
  <1>7. CASE User
    BY <1>7 DEF User, StartServer, Quit, ServerStop, Resume
  <1>8. CASE UNCHANGED vars
    BY <1>8 DEF vars
  <1> QED
    BY <1>1, <1>2, <1>3, <1>4, <1>5, <1>6, <1>7, <1>8
       DEF Next, Interrupt, RecvCompletes, EventLoop

LEMMA FrameStep ==
  ASSUME FreshInv, FrameInv, [Next]_vars
  PROVE  FrameInv'
  <1> USE DEF FrameInv, FreshInv, Handshaking, config, server, net, loop
  <1>1. CASE Environment
    BY <1>1 DEF Environment, ClientConnects, ClientCloses, ConnectionTerminates
  <1>2. ASSUME NEW c \in Calls, NEW e \in Errors, RecvCompleted(c, e) PROVE FrameInv'
    <2> USE DEF Completed, Post, NoCall, ListenAgain, RecvFailed, Failed
    <2>1. CASE StreamCreated(c, e)
      BY <2>1 DEF StreamCreated
    <2>2. CASE StreamClosed(c, e)
      BY <2>2 DEF StreamClosed
    <2>3. CASE Handshake(c, e)
      BY <2>3 DEF Handshake
    <2>4. CASE SendAuthTypes(c, e)
      BY <2>4 DEF SendAuthTypes
    <2>5. CASE ProcessAuthType(c, e)
      BY <2>5 DEF ProcessAuthType
    <2>6. CASE SendAuthChallenge(c, e)
      BY <2>6 DEF SendAuthChallenge
    <2>7. CASE SendServerInit(c, e)
      BY <2>7 DEF SendServerInit
    <2>8. CASE ReadMessages(c, e)
      BY <2>8 DEF ReadMessages, StartFrame
    <2> QED
      BY <1>2, <2>1, <2>2, <2>3, <2>4, <2>5, <2>6, <2>7, <2>8 DEF RecvCompleted
  <1>3. CASE SendCompletes
    BY <1>3 DEF SendCompletes, SendCompleted, Failed
  <1>4. CASE GotDirtyRect
    BY <1>4 DEF GotDirtyRect, StartFrame
  <1>5. CASE EndLoop \/ NoEvent \/ Stop
    BY <1>5 DEF EndLoop, NoEvent, Stop, StopThen, StopRelease, StopAwait, Resume
  <1>6. CASE CheckServerState \/ RunFBSyncedTasks
    BY <1>6 DEF CheckServerState, RunFBSyncedTasks, ServerStop, Resume
  <1>7. CASE User
    BY <1>7 DEF User, StartServer, Quit, ServerStop, Resume
  <1>8. CASE UNCHANGED vars
    BY <1>8 DEF vars
  <1> QED
    BY <1>1, <1>2, <1>3, <1>4, <1>5, <1>6, <1>7, <1>8
       DEF Next, Interrupt, RecvCompletes, EventLoop

\* The inductive invariant of the two blocks.
BlockInv == RecvInv /\ StopInv /\ RunInv /\ FreshInv /\ FrameInv

\* A set whose members are all equal has at most one.
LEMMA OneMember ==
  ASSUME NEW S, \A c, d \in S : c = d
  PROVE  Cardinality(S) <= 1
<1>1. CASE S = {}
  BY <1>1, FS_EmptySet
<1>2. CASE S # {}
  <2> PICK c : c \in S
    BY <1>2
  <2>1. S = {c}
    OBVIOUS
  <2>2. Cardinality(S) = 1
    BY <2>1, FS_Singleton, Zenon
  <2> QED
    BY <2>2
<1> QED
  BY <1>1, <1>2

\* Neither MacTCP parameter block is given a call while it has one, save the release,
\* as long as nobody comes before the last session has gone.
THEOREM BlocksSafe == OneAtATime => (Spec => []BlockHasOneCall)
<1> SUFFICES ASSUME OneAtATime PROVE Spec => []BlockHasOneCall
  OBVIOUS
<1>1. Init => BlockInv
  BY DEF Init, BlockInv, RecvInv, StopInv, RunInv, FreshInv, FrameInv, Handshaking
<1>2. BlockInv /\ [Next]_vars => BlockInv'
  BY RecvInvStep, StopStep, RunStep, FreshStep, FrameStep DEF BlockInv
<1>3. BlockInv => BlockHasOneCall
  BY OneMember DEF BlockInv, RecvInv, FrameInv, BlockHasOneCall
<1> QED
  BY <1>1, <1>2, <1>3, PTL DEF Spec
=============================================================================
