------------------------------- MODULE Session -------------------------------
(***************************************************************************)
(* The life of the server (VNCServer.cpp 169-550, CheckServerState and     *)
(* main of main.cpp): start, listen, handshake, run, fail, listen again,   *)
(* stop, quit. The handshake is a chain of calls on epb_recv, each naming  *)
(* its successor; frames are calls on epb_send, which a session copies     *)
(* from epb_recv when it begins to run. What happens within a frame or a   *)
(* batch of messages is the matter of UpdatePipeline.                      *)
(***************************************************************************)
EXTENDS Integers, FiniteSets

CONSTANTS
  Mishaps,    \* what may happen that the code is not made for (see AllMishaps)
  MaxSends    \* calls outstanding on epb_send, at most

AllMishaps == {"terminated",     \* the connection breaks, or a call times out
               "badAuth",        \* it asks for an unknown authentication
               "tightAuth",      \* it asks for the one that was not offered
               "badMessage",     \* it sends a message of no known type
               "noMemory",       \* the event loop's tasks find no memory
               "lateTasks",      \* a client arrives while tasks or a send of the last one wait
               "quitStarting",   \* the user quits before the stream is created
               "hastyStart"}     \* the user starts while the old stream is released

ASSUME MishapsAssumption == Mishaps \subseteq AllMishaps /\ MaxSends \in Nat \ {0}

VARIABLES
  autoRestart, forceVNCAuth,  \* of vncConfig; allowTightAuth is FALSE, its default
  vncState, vncError,
  forced,        \* vncFlags.forceVNCAuth
  inProgress,    \* vncFlags.fbUpdateInProgress
  syncTasks,     \* runFBSyncedTasks
  out,           \* the calls outstanding on epb_recv
  then,          \* epb_recv.ourCompletion
  sends,         \* the number of calls outstanding on epb_send
  stream,        \* the stream and its connection, as MacTCP has it
  authType,      \* history: the authentication decided upon
  main,          \* where the event loop is
  caller,        \* who called vncServerStop
  lastState,     \* of CheckServerState
  canStart,      \* whether the start button is enabled
  gCancel

config == <<autoRestart, forceVNCAuth>>
server == <<vncState, vncError, forced, inProgress, syncTasks>>
net    == <<out, then, sends, stream, authType>>
loop   == <<main, caller, lastState, canStart, gCancel>>
vars   == <<config, server, net, loop>>

Errors == {"noErr", "connectionClosing", "connectionTerminated", "other"}
States == {"STOPPED", "STARTING", "WAITING", "CONNECTED", "RUNNING", "STOPPING", "ERROR"}
Calls  == {"create", "open", "send", "receive", "abort", "release"}

\* Completion routines, in the order of the handshake.
Routines == {"tcpStreamCreated", "tcpSendProtocolVersion", "tcpGetClientProtocolVersion",
             "tcpSendAuthTypes", "tcpGetAuthType", "tcpProcessAuthType",
             "tcpSendAuthChallenge", "tcpGetAuthChallengeResponse", "tcpSendAuthResult",
             "tcpWaitForClientInit", "tcpSendServerInit", "vncReadMessages",
             "tcpStreamClosed"}

Init ==
  /\ autoRestart \in BOOLEAN /\ forceVNCAuth \in BOOLEAN
  /\ vncState = "STOPPED" /\ vncError = "noErr"
  /\ forced = FALSE /\ inProgress = FALSE /\ syncTasks = FALSE
  /\ out = {} /\ then = "tcpStreamClosed" /\ sends = 0
  /\ stream = "none" /\ authType = "undecided"
  /\ main = "event" /\ caller = "quit" /\ lastState = "STOPPED"
  /\ canStart = TRUE /\ gCancel = FALSE

----------------------------------------------------------------------------
(* MacTCP. An abort ends every other call of the connection first, a release *)
(* every call of the stream; the event loop sees none of that half done.     *)

Ending == {"abort", "release"} \cap out # {}
Killed == \/ "release" \in out /\ (out # {"release"} \/ sends > 0)
          \/ "abort" \in out /\ (out \ {"abort", "release"} # {} \/ sends > 0)

\* The results that call c, outstanding on epb_recv, can have now.
Results(c) ==
  CASE c = "create"             -> IF "release" \in out THEN {"other"} ELSE {"noErr", "other"}
    [] c = "release"            -> IF Killed THEN {} ELSE {"noErr"}
    [] c = "abort"              -> IF out \ {"abort", "release"} = {} /\ sends = 0
                                   THEN {"noErr"} ELSE {}
    [] Ending                   -> {"connectionTerminated"}
    [] c = "open"               -> IF stream = "listening" THEN {} ELSE {"noErr"}
    [] stream = "terminated"    -> {"connectionTerminated", "other"}
    [] c = "send"               -> {"noErr"}
    [] stream = "closing"       -> {"connectionClosing"}
    [] OTHER                    -> {"noErr"}

\* The results of the call on epb_send. The code knows of a send that finds the
\* connection closing, or none at all.
SendResults ==
  CASE Ending \/ stream = "terminated" -> {"connectionTerminated"}
    [] stream = "open"                 -> {"noErr"}
    [] stream = "closing"              -> {"noErr", "connectionClosing"}
    [] OTHER                           -> {"other"}

ClientConnects ==
  /\ "open" \in out /\ stream = "listening"
  /\ "lateTasks" \in Mishaps \/ (~syncTasks /\ sends = 0)
  /\ stream' = "open" /\ authType' = "undecided"
  /\ UNCHANGED <<config, server, out, then, sends, loop>>

ClientCloses ==
  /\ stream = "open"
  /\ stream' = "closing"
  /\ UNCHANGED <<config, server, out, then, sends, authType, loop>>

ConnectionTerminates ==
  /\ "terminated" \in Mishaps
  /\ stream \in {"open", "closing"}
  /\ stream' = "terminated"
  /\ UNCHANGED <<config, server, out, then, sends, authType, loop>>

Environment == ClientConnects \/ ClientCloses \/ ConnectionTerminates

----------------------------------------------------------------------------
(* The chain of epb_recv. Completed(c, e) is the end of call c with result e; *)
(* what the completion routine does follows in the same interrupt.           *)

Completed(c, e) == c \in out /\ e \in Results(c)

\* A faulty variant: the receive is not held back until call d is complete.
PostAtOnce(c, d, proc) == out' = (out \ {c}) \cup {d, "receive"} /\ then' = proc

\* tcp.then(pb, proc), and call d on epb_recv in the place of c.
Post(c, d, proc) == out' = (out \ {c}) \cup {d} /\ then' = proc
NoCall(c)        == out' = out \ {c} /\ UNCHANGED then

\* _tcpSuccess, for an error: listen again, or fail.
ListenAgain(c) == Post(c, "abort", "tcpStreamCreated")

Failed(e) ==
  /\ vncState' = "ERROR"
  /\ vncError' = IF vncError = "noErr" THEN e ELSE vncError

\* A faulty variant: nothing is aborted, and nothing follows.
RecvFailedIdle(c, e) ==
  /\ NoCall(c)
  /\ IF e = "connectionClosing" /\ autoRestart
       THEN UNCHANGED <<vncState, vncError>> ELSE Failed(e)
  /\ UNCHANGED <<forced, inProgress, syncTasks, authType>>

RecvFailed(c, e) ==
  /\ IF e = "connectionClosing" /\ autoRestart
       THEN ListenAgain(c) /\ UNCHANGED <<vncState, vncError>>
       ELSE NoCall(c) /\ Failed(e)
  /\ UNCHANGED <<forced, inProgress, syncTasks, authType>>

\* Where the stream is after call c.
StreamAfter(c, e) ==
  stream' = CASE c = "create" -> IF e = "noErr" THEN "created" ELSE stream
              [] c = "abort"   -> "created"
              [] c = "release" -> "none"
              [] OTHER         -> stream

\* A faulty variant: the state is left as it was.
StreamCreatedSilently(c, e) ==
  /\ Completed(c, e) /\ then = "tcpStreamCreated"
  /\ IF e # "noErr" THEN RecvFailed(c, e) /\ StreamAfter(c, e)
     ELSE /\ NoCall(c)
          /\ vncState' = "WAITING" /\ stream' = "listening"
          /\ UNCHANGED <<vncError, forced, inProgress, syncTasks, authType>>
  /\ UNCHANGED <<config, sends, loop>>

StreamCreated(c, e) ==
  /\ Completed(c, e) /\ then = "tcpStreamCreated"
  /\ IF e # "noErr" THEN RecvFailed(c, e) /\ StreamAfter(c, e)
     ELSE /\ Post(c, "open", "tcpSendProtocolVersion")
          /\ vncState' = "WAITING" /\ stream' = "listening"
          /\ UNCHANGED <<vncError, forced, inProgress, syncTasks, authType>>
  /\ UNCHANGED <<config, sends, loop>>

StreamClosed(c, e) ==
  /\ Completed(c, e) /\ then = "tcpStreamClosed"
  /\ NoCall(c) /\ StreamAfter(c, e)
  /\ vncState' = "STOPPED"
  /\ UNCHANGED <<config, vncError, forced, inProgress, syncTasks, sends, authType, loop>>

\* The steps of the handshake that only make the next call: routine, call, successor.
Steps == {<<"tcpSendProtocolVersion",      "send",    "tcpGetClientProtocolVersion">>,
          <<"tcpGetClientProtocolVersion", "receive", "tcpSendAuthTypes">>,
          <<"tcpGetAuthType",              "receive", "tcpProcessAuthType">>,
          <<"tcpGetAuthChallengeResponse", "receive", "tcpSendAuthResult">>,
          <<"tcpSendAuthResult",           "send",    "tcpWaitForClientInit">>,
          <<"tcpWaitForClientInit",        "receive", "tcpSendServerInit">>}

Handshake(c, e) ==
  /\ Completed(c, e)
  /\ \E s \in Steps :
       /\ then = s[1]
       /\ IF e = "noErr"
            THEN /\ Post(c, s[2], s[3])
                 /\ vncState' = IF s[1] = "tcpSendProtocolVersion" THEN "CONNECTED" ELSE vncState
                 /\ UNCHANGED <<vncError, forced, inProgress, syncTasks, authType>>
            ELSE IF s[1] = "tcpSendAuthResult" /\ e = "connectionClosing"
              THEN ListenAgain(c) /\ UNCHANGED <<server, authType>>
              ELSE RecvFailed(c, e)
  /\ UNCHANGED <<config, sends, stream, loop>>

\* tcpSendAuthTypes: the client of RFB 3.7 gets a list, that of 3.3 is told, and
\* the routine that sends the challenge comes next whatever it is told.
DefaultAuth == IF forced THEN "vncAuth" ELSE "noAuth"
SendAuthTypes(c, e) ==
  /\ Completed(c, e) /\ then = "tcpSendAuthTypes"
  /\ IF e # "noErr" THEN RecvFailed(c, e)
     ELSE /\ \/ Post(c, "send", "tcpGetAuthType") /\ UNCHANGED authType
             \/ Post(c, "send", "tcpSendAuthChallenge") /\ authType' = DefaultAuth
          /\ UNCHANGED server
  /\ UNCHANGED <<config, sends, stream, loop>>

\* tcpProcessAuthType: the choice of the client. Tight authentication is not allowed:
\* nothing is sent, and nothing is said.
ProcessAuthType(c, e) ==
  /\ Completed(c, e) /\ then = "tcpProcessAuthType"
  /\ IF e # "noErr" THEN RecvFailed(c, e)
     ELSE \/ /\ Post(c, "receive", "tcpSendServerInit") /\ authType' = "noAuth"
             /\ UNCHANGED server
          \/ /\ Post(c, "send", "tcpGetAuthChallengeResponse") /\ authType' = "vncAuth"
             /\ UNCHANGED server
          \/ /\ "badAuth" \in Mishaps
             /\ NoCall(c)
             /\ vncState' \in {"ERROR"} \cup (IF "tightAuth" \in Mishaps THEN {vncState} ELSE {})
             /\ UNCHANGED <<vncError, forced, inProgress, syncTasks, authType>>
  /\ UNCHANGED <<config, sends, stream, loop>>

\* tcpSendAuthChallenge does not look at the result.
SendAuthChallenge(c, e) ==
  /\ Completed(c, e) /\ then = "tcpSendAuthChallenge"
  /\ Post(c, "send", "tcpGetAuthChallengeResponse")
  /\ UNCHANGED <<config, server, sends, stream, authType, loop>>

\* tcpSendServerInit: epb_recv is copied to epb_send, and the session runs.
SendServerInit(c, e) ==
  /\ Completed(c, e) /\ then = "tcpSendServerInit"
  /\ IF e = "noErr"
       THEN /\ Post(c, "send", "vncReadMessages")
            /\ inProgress' = FALSE /\ forced' = forceVNCAuth /\ vncState' = "RUNNING"
            /\ UNCHANGED <<vncError, syncTasks, authType>>
       ELSE IF e = "connectionClosing"
         THEN /\ ListenAgain(c) /\ forced' = TRUE
              /\ UNCHANGED <<vncState, vncError, inProgress, syncTasks, authType>>
         ELSE RecvFailed(c, e)
  /\ UNCHANGED <<config, sends, stream, loop>>

\* A frame begins: it goes out, or it waits for the event loop.
StartFrame ==
  /\ ~inProgress /\ inProgress' = TRUE
  /\ \/ sends < MaxSends /\ sends' = sends + 1 /\ UNCHANGED syncTasks
     \/ syncTasks' = TRUE /\ UNCHANGED sends

\* vncReadMessages, and the messages that a receive brings: a request may start a
\* frame; a message of no known type is an error without an error code. The next
\* receive is for a session that still runs.
ReadMessages(c, e) ==
  /\ Completed(c, e) /\ then = "vncReadMessages"
  /\ IF e # "noErr" THEN RecvFailed(c, e) /\ UNCHANGED sends
     ELSE \/ /\ IF vncState = "RUNNING" THEN Post(c, "receive", "vncReadMessages") ELSE NoCall(c)
             /\ \/ UNCHANGED <<inProgress, syncTasks, sends>>
                \/ c = "receive" /\ StartFrame
             /\ UNCHANGED <<vncState, vncError, forced, authType>>
          \/ /\ c = "receive" /\ "badMessage" \in Mishaps
             /\ NoCall(c) /\ vncState' = "ERROR"
             /\ UNCHANGED <<vncError, forced, inProgress, syncTasks, sends, authType>>
  /\ UNCHANGED <<config, stream, loop>>

\* vncGotDirtyRect: the retrace task reports to a session that runs, as far as it knows.
GotDirtyRect ==
  /\ vncState = "RUNNING" /\ StartFrame
  /\ UNCHANGED <<config, vncState, vncError, forced, out, then, stream, authType, loop>>

RecvCompleted(c, e) ==
  \/ StreamCreated(c, e) \/ StreamClosed(c, e) \/ Handshake(c, e)
  \/ SendAuthTypes(c, e) \/ ProcessAuthType(c, e) \/ SendAuthChallenge(c, e)
  \/ SendServerInit(c, e) \/ ReadMessages(c, e)

\* A faulty variant: a completion is taken for one of a send, whatever is outstanding.
SendCompletedTwice(e) ==
  /\ sends' = sends - 1 /\ inProgress' = FALSE
  /\ UNCHANGED <<config, vncState, vncError, forced, syncTasks, out, then, stream, authType, loop>>

\* A send of a frame is complete, and it was the last. (That there is more of it changes
\* nothing here.)
SendCompleted(e) ==
  /\ sends > 0 /\ e \in SendResults
  /\ IF e = "noErr"
       THEN /\ sends' = sends - 1 /\ inProgress' = FALSE
            /\ UNCHANGED <<vncState, vncError>>
       ELSE /\ sends' = sends - 1 /\ UNCHANGED inProgress
            /\ IF e = "connectionClosing" /\ autoRestart
                 THEN UNCHANGED <<vncState, vncError>> ELSE Failed(e)
  /\ UNCHANGED <<config, forced, syncTasks, out, then, stream, authType, loop>>

RecvCompletes == \E c \in Calls, e \in Errors : RecvCompleted(c, e)
SendCompletes == \E e \in Errors : SendCompleted(e)
Interrupt     == RecvCompletes \/ SendCompletes \/ GotDirtyRect

----------------------------------------------------------------------------
(* The event loop. Interrupts come between its steps.                        *)

At(label) == main = label /\ ~Killed

\* The loop goes round until the user has quit and the server is stopped.
EndLoop ==
  /\ At("event") /\ gCancel /\ vncState = "STOPPED"
  /\ main' = "ended"
  /\ UNCHANGED <<config, server, net, caller, lastState, canStart, gCancel>>

NoEvent ==
  /\ At("event") /\ ~(gCancel /\ vncState = "STOPPED")
  /\ main' = "check"
  /\ UNCHANGED <<config, server, net, caller, lastState, canStart, gCancel>>

\* vncServerStart, and StartServer around it, which may fail before it begins.
StartServer ==
  /\ At("event") /\ ~gCancel /\ canStart
  /\ "hastyStart" \in Mishaps \/ out = {}
  /\ main' = "check"
  /\ \/ /\ vncError' = "other" /\ UNCHANGED <<vncState, forced, out, then, canStart>>
     \/ /\ vncError' = "noErr" /\ vncState' = "STARTING"
        /\ out' = out \cup {"create"} /\ then' = "tcpStreamCreated"
        /\ forced' = forceVNCAuth
        /\ canStart' = FALSE
  /\ UNCHANGED <<config, inProgress, syncTasks, sends, stream, authType, caller,
                 lastState, gCancel>>

\* Where the event loop goes on after vncServerStop.
Resume(who) ==
  /\ main' = CASE who = "quit" -> "check" [] who = "check" -> "tasks" [] OTHER -> "event"
  /\ gCancel' = (gCancel \/ who = "quit")
  /\ canStart' = (canStart \/ who = "check")

\* A faulty variant: a server without a client is not stopped either.
ServerStopClient(who) ==
  IF vncState \notin {"CONNECTED", "RUNNING", "ERROR"}
    THEN Resume(who) /\ UNCHANGED <<vncState, caller>>
    ELSE /\ vncState' = "STOPPING" /\ main' = "stop.then" /\ caller' = who
         /\ UNCHANGED <<gCancel, canStart>>

\* vncServerStop, its first line: a server that is starting is not stopped.
ServerStop(who) ==
  IF vncState \in {"STOPPED", "STARTING"}
    THEN Resume(who) /\ UNCHANGED <<vncState, caller>>
    ELSE /\ vncState' = "STOPPING" /\ main' = "stop.then" /\ caller' = who
         /\ UNCHANGED <<gCancel, canStart>>

Quit ==
  /\ At("event") /\ ~gCancel
  /\ "quitStarting" \in Mishaps \/ vncState # "STARTING"
  /\ ServerStop("quit")
  /\ UNCHANGED <<config, vncError, forced, inProgress, syncTasks, net, lastState>>

\* A faulty variant: the routine that was to come next stays.
StopThenForgotten ==
  /\ At("stop.then")
  /\ main' = "stop.release"
  /\ UNCHANGED <<config, server, net, caller, lastState, canStart, gCancel>>

StopThen ==
  /\ At("stop.then")
  /\ then' = "tcpStreamClosed" /\ main' = "stop.release"
  /\ UNCHANGED <<config, server, out, sends, stream, authType, caller, lastState,
                 canStart, gCancel>>

\* epb_recv is used for the release, whatever it is doing.
StopRelease ==
  /\ At("stop.release")
  /\ out' = out \cup {"release"} /\ main' = "stop.await"
  /\ UNCHANGED <<config, server, then, sends, stream, authType, caller, lastState,
                 canStart, gCancel>>

\* The loop that waits for VNC_STOPPED. (It ends after ten seconds at the latest; here
\* a release always completes.)
StopAwait ==
  /\ At("stop.await") /\ vncState = "STOPPED"
  /\ Resume(caller)
  /\ UNCHANGED <<config, server, net, caller, lastState>>

\* A faulty variant: an error that was reported once is not looked at again.
CheckOnlyFailures ==
  /\ At("check")
  /\ IF vncState = "ERROR" /\ vncError = "other"
       THEN ServerStop("check") /\ lastState' = vncState
       ELSE main' = "tasks" /\ UNCHANGED <<vncState, caller, canStart, gCancel, lastState>>
  /\ UNCHANGED <<config, vncError, forced, inProgress, syncTasks, net>>

\* CheckServerState: a change to VNC_ERROR stops the server, if there is a code.
CheckServerState ==
  /\ At("check")
  /\ lastState' = vncState
  /\ IF lastState # vncState /\ vncState = "ERROR" /\ vncError # "noErr"
       THEN ServerStop("check")
       ELSE main' = "tasks" /\ UNCHANGED <<vncState, caller, canStart, gCancel>>
  /\ UNCHANGED <<config, vncError, forced, inProgress, syncTasks, net>>

\* The tasks that precede a frame: it is sent, whoever is connected by then.
RunFBSyncedTasks ==
  /\ At("tasks")
  /\ IF ~syncTasks
       THEN main' = "event" /\ UNCHANGED <<vncState, inProgress, syncTasks, sends, caller,
                                           canStart, gCancel>>
       ELSE /\ syncTasks' = FALSE
            /\ \/ /\ sends < MaxSends /\ sends' = sends + 1 /\ inProgress' = TRUE
                  /\ main' = "event"
                  /\ UNCHANGED <<vncState, caller, canStart, gCancel>>
               \/ /\ "noMemory" \in Mishaps
                  /\ ServerStop("tasks") /\ UNCHANGED <<sends, inProgress>>
  /\ UNCHANGED <<config, vncError, forced, out, then, stream, authType, lastState>>

Stop      == StopThen \/ StopRelease \/ StopAwait
EventLoop == EndLoop \/ NoEvent \/ Stop \/ CheckServerState \/ RunFBSyncedTasks
User      == StartServer \/ Quit

Next == Environment \/ Interrupt \/ EventLoop \/ User
Spec == Init /\ [][Next]_vars

\* The event loop and MacTCP go on; the user and the client do as they like.
LiveSpec == Spec /\ SF_vars(EventLoop) /\ WF_vars(RecvCompletes) /\ WF_vars(SendCompletes)

----------------------------------------------------------------------------
(* Properties.                                                               *)

FlagTypes ==
  /\ autoRestart \in BOOLEAN /\ forceVNCAuth \in BOOLEAN /\ forced \in BOOLEAN
  /\ inProgress \in BOOLEAN /\ syncTasks \in BOOLEAN
  /\ canStart \in BOOLEAN /\ gCancel \in BOOLEAN

NetTypes ==
  /\ out \subseteq Calls /\ then \in Routines /\ sends \in 0 .. MaxSends
  /\ stream \in {"none", "created", "listening", "open", "closing", "terminated"}
  /\ authType \in {"undecided", "noAuth", "vncAuth"}

StateTypes ==
  /\ vncState \in States /\ lastState \in States /\ vncError \in Errors
  /\ main \in {"event", "check", "tasks", "stop.then", "stop.release", "stop.await", "ended"}
  /\ caller \in {"quit", "check", "tasks"}

TypeOK == FlagTypes /\ NetTypes /\ StateTypes

\* A parameter block is MacTCP's until it is complete: epb_recv has one call at a time,
\* save the release, which vncServerStop lays over it, and epb_send has one send.
BlockHasOneCall == Cardinality(out \ {"release"}) <= 1 /\ sends <= 1

\* A server that is listening, or has a client, waits for something: there is always a
\* call whose completion goes on. Otherwise nothing would ever happen again.
NotDeaf == vncState \in {"STARTING", "WAITING", "CONNECTED", "RUNNING"} => out # {}

\* While vncServerStop waits, no completion of an older call takes the session up
\* again: the state only becomes that of a stopped server, or of a failed one.
StopNotUndone ==
  [][main = "stop.await" /\ main' = main => vncState' \in {vncState, "STOPPED", "ERROR"}]_vars

\* The challenge is sent to a client for which VNC authentication was decided.
ChallengeAsDecided ==
  then = "tcpGetAuthChallengeResponse" /\ vncState = "CONNECTED" => authType = "vncAuth"

\* In headless mode the server listens again after a client has disconnected
\* (VNCConfig.h:47), unless the user quits.
Disconnected == autoRestart /\ ~canStart /\ stream \in {"closing", "terminated"}
ListensAgain == Disconnected ~> (stream = "listening" \/ gCancel)

\* What is true of every session: when the client has gone the server does not hang. It
\* listens again, or is stopped with the start button enabled (or by its own tasks, for
\* want of memory), unless CheckServerState does not notice that it failed: there is no
\* code, or it had failed when it was last looked at.
Unnoticed  == vncState = "ERROR" /\ (vncError = "noErr" \/ lastState = "ERROR")
ClientGone == stream \in {"closing", "terminated"}
SessionSettles == ClientGone ~> (~ClientGone \/ Unnoticed)

\* When the user has quit, the program ends; only a send that fails after the stop, and
\* takes back the state, can keep it.
QuitEnds == gCancel ~> (main = "ended" \/ vncState = "ERROR")

\* A failure with a code does not last: the event loop stops the server.
FailureEnds ==
  (vncState = "ERROR" /\ vncError # "noErr" /\ lastState # "ERROR")
    ~> (vncState # "ERROR" \/ main = "ended")
=============================================================================
