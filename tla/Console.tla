-------------------------------- MODULE Console --------------------------------
(***************************************************************************)
(* The program as its user sees it: launch and quit (main.cpp), the        *)
(* settings and their preferences file (VNCConfig.cpp), the options        *)
(* window, the start button and menu item, the geometry of the screen      *)
(* (VNCFrameBuffer.cpp) and the pointer, which is hidden while a client    *)
(* moves it (VNCEncodeCursor.cpp). The server itself is only the state it  *)
(* shows, which changes at interrupt level.                                *)
(***************************************************************************)
EXTENDS Naturals, FiniteSets

CONSTANTS
  Boxes,        \* the check boxes of the options window that are modelled
  Machines,     \* what the program runs on: [colorQD, folder, depths]
  MaxClicks,    \* bound: clicks in the options window
  MaxLaunches   \* bound: launches of the program

AllBoxes == {"allowStreaming", "allowIncremental", "allowControl", "hideCursor", "allowTightAuth",
             "allowRaw", "allowHextile", "allowTRLE", "allowZRLE", "allowTightEnc", "autoRestart"}

\* A box is modelled with the box that dims it.
ASSUME ConsoleAssumption ==
  /\ Boxes \subseteq AllBoxes /\ ("hideCursor" \in Boxes => "allowControl" \in Boxes)
  /\ MaxClicks \in Nat /\ MaxLaunches \in Nat
  /\ \A m \in Machines : m.colorQD \in BOOLEAN /\ m.folder \in BOOLEAN /\ m.depths # {}

VARIABLES
  machine,      \* the machine; folder: its System has a preferences folder
  screen,       \* the depth the monitor is set to
  phase,        \* where main is: "away", in the event loop "event", "check", "idle", or "saving"
  cancel,       \* gCancel
  config,       \* the settings of vncConfig that are on
  prefs,        \* the settings in the preferences file, NoFile, or OldFile
  ticks, enabled,  \* the boxes that are ticked, and those that are not dimmed
  optionsOpen,  \* the options window is visible
  startButton, startItem,  \* the button and the menu item are not dimmed
  serverState,  \* vncState
  failure,      \* what vncServerError would return
  lastState,    \* of CheckServerState
  takes,        \* the boxes of the encodings the client has announced
  setDepth,     \* fbDepth, with fbWidth, fbHeight and fbStride
  base,         \* the depth of the screen that vncBits describes
  hidden,       \* of adjustCursorVisibility
  clicks, launches,  \* bounds
  \* History, now and at the last quit that was saved: the boxes the user last saw ticked,
  \* and those that a launch has turned off since.
  choices, choicesAtQuit

pvars == <<machine, screen, phase, cancel, config, prefs, ticks, enabled, optionsOpen, startButton,
           startItem, serverState, failure, lastState, takes, setDepth, base, hidden, clicks,
           launches, choices, choicesAtQuit>>
chosen == <<config, prefs, choices, choicesAtQuit>>
windows == <<ticks, enabled, optionsOpen, startButton, startItem>>
bounds == <<clicks, launches>>

\* No settings in the file, or those of another version.
NoFile  == [file |-> "none"]
OldFile == [file |-> "old"]
File(boxes) == [file |-> "pref", on |-> boxes]

\* VNC_CONFIG_DEFAULTS.
Defaults == Boxes \ {"allowTightEnc", "allowTightAuth", "autoRestart"}

NoChoices == [ticked |-> Defaults, turnedOff |-> {}]

IsTrueColor(d) == d >= 16

ConsoleInit ==
  /\ machine \in Machines /\ screen \in machine.depths
  /\ phase = "away" /\ cancel = FALSE
  /\ config = Defaults /\ prefs \in {NoFile, OldFile}
  /\ ticks = {} /\ enabled = {} /\ optionsOpen = FALSE /\ startButton = TRUE /\ startItem = TRUE
  /\ serverState = "STOPPED" /\ failure = "none" /\ lastState = "STOPPED" /\ takes = {}
  /\ setDepth = screen /\ base = screen
  /\ hidden = FALSE
  /\ clicks = 0 /\ launches = 0
  /\ choices = NoChoices /\ choicesAtQuit = NoChoices

----------------------------------------------------------------------------
(* The settings.                                                           *)

\* OpenPreferencesFile creates the file when there is a folder for it. Settings of another
\* version or size are removed.
LoadPreferences(boxes) ==
  IF machine.folder /\ prefs \notin {NoFile, OldFile} THEN prefs.on ELSE boxes

OldRemoved == IF machine.folder /\ prefs = OldFile THEN NoFile ELSE prefs

\* A faulty variant: a file that has no settings yet is left as it is.
SavesOnlyAgain(boxes) == IF machine.folder /\ prefs # NoFile THEN File(boxes) ELSE prefs

SavePreferences(boxes) == IF machine.folder THEN File(boxes) ELSE prefs

\* What main turns off at a launch, for what the screen cannot do.
Unsuited(d) ==
  IF ~machine.colorQD THEN {"allowRaw", "allowHextile", "allowZRLE", "allowTightAuth"}
  ELSE IF IsTrueColor(d) THEN {"allowTRLE", "allowHextile", "allowTightEnc"}
  ELSE {}

\* RefreshServerSettings. The encodings are shown as the client and the settings allow
\* them; which ones may be clicked depends on the screen and the client.
EncodingBoxes == {"allowRaw", "allowHextile", "allowTRLE", "allowZRLE", "allowTightEnc", "allowTightAuth"}

RefreshedConfig(boxes) == IF "allowControl" \in boxes THEN boxes ELSE boxes \ {"hideCursor"}

Shown(boxes, state, client) ==
  IF state = "RUNNING" THEN boxes \ (EncodingBoxes \ client) ELSE boxes

Enabled(boxes, state, client, d) ==
  Boxes \cap
  ({"allowStreaming", "allowIncremental", "allowControl", "autoRestart"}
   \cup (IF "allowControl" \in boxes THEN {"hideCursor"} ELSE {})
   \cup (IF ~machine.colorQD THEN {"allowTRLE"}
         ELSE IF IsTrueColor(d)
              THEN {"allowRaw"} \cup (IF state = "RUNNING" /\ "allowZRLE" \notin client
                                      THEN {} ELSE {"allowZRLE"})
         ELSE IF state = "RUNNING" THEN client \ {"allowTightAuth"}
         ELSE EncodingBoxes \ (IF state = "STOPPED" THEN {} ELSE {"allowTightAuth"})))

RefreshServerSettings(boxes, state) ==
  /\ config' = RefreshedConfig(boxes)
  /\ ticks' = Shown(RefreshedConfig(boxes), state, takes)
  /\ enabled' = Enabled(boxes, state, takes, setDepth)

----------------------------------------------------------------------------
(* The server, as far as it can be seen.                                     *)

\* vncServerStop waits for the stream to close, ten seconds at most. vncServerError is an
\* error in VNC_ERROR only.
VncServerStop ==
  IF serverState \in {"STOPPED", "STARTING"} THEN UNCHANGED <<serverState, failure>>
  ELSE serverState' \in {"STOPPED", "STOPPING"} /\ failure' = "none"

\* checkScreenResolution takes the geometry of the main screen over; the depths of Machines
\* are supported ones.
CheckScreenResolution == setDepth' = screen

FrameBufferSetup == CheckScreenResolution /\ base' = screen

\* StartServer; vncServerStart sets the frame buffer up, and may find no memory, or no
\* network, before it has changed its state.
StartServer ==
  /\ FrameBufferSetup
  /\ \/ serverState' = "STARTING" /\ startButton' = FALSE /\ startItem' = FALSE
     \/ UNCHANGED <<serverState, startButton, startItem>>

\* What happens at interrupt level: the stream is created, a client comes (its handshake is
\* "WAITING" still), announces its encodings, leaves; a call fails; the stream is closed.
ServerMoves ==
  /\ phase # "away"
  /\ \/ /\ serverState = "STARTING" /\ serverState' = "WAITING"
        /\ UNCHANGED <<failure, takes>>
     \/ /\ serverState = "WAITING" /\ serverState' = "RUNNING"
        /\ takes' = {} /\ UNCHANGED failure
     \/ /\ serverState = "RUNNING"
        /\ takes' \in SUBSET (Boxes \cap EncodingBoxes) /\ UNCHANGED <<serverState, failure>>
     \/ /\ serverState = "RUNNING" /\ "autoRestart" \in config /\ serverState' = "WAITING"
        /\ UNCHANGED <<failure, takes>>
     \/ /\ serverState \in {"STARTING", "WAITING", "RUNNING"} /\ serverState' = "ERROR"
        /\ failure' \in {"none", "connection", "other"} /\ UNCHANGED takes
     \/ /\ serverState = "STOPPING" /\ serverState' = "STOPPED"
        /\ UNCHANGED <<failure, takes>>
  /\ UNCHANGED <<machine, screen, phase, cancel, chosen, windows, lastState, setDepth, base, hidden, bounds>>

\* The user sets the monitor to another depth, in a program that runs while this one waits
\* for an event, or when it does not run.
ScreenChanges ==
  /\ phase \in {"away", "event"}
  /\ screen' \in machine.depths \ {screen}
  /\ UNCHANGED <<machine, phase, cancel, chosen, windows, serverState, failure, lastState, takes,
                 setDepth, base, hidden, bounds>>

----------------------------------------------------------------------------
(* The pointer.                                                              *)

\* adjustCursorVisibility(allowed). The pointer is where the client has put it, or the user
\* has moved it across or down; only the horizontal position is compared.
Hides == "hideCursor" \in config /\ serverState = "RUNNING"

CursorHidden(allowed, mouse) ==
  LET mayHide == allowed /\ ~(Hides /\ mouse = "across") IN
  (hidden \/ Hides) /\ mayHide /\ serverState = "RUNNING"

----------------------------------------------------------------------------
(* Launch and quit.                                                          *)

\* Whether the program lies among the startup items; without FindFolder it cannot tell.
RunningAtStartup == IF machine.folder THEN BOOLEAN ELSE {FALSE}

\* main up to the event loop: checkScreenResolution, LoadPreferences and what the screen
\* cannot do. In the headless build the server is started when the program is a startup
\* item, and is restarted whatever the preferences say.
Launch ==
  /\ phase = "away" /\ launches < MaxLaunches
  /\ launches' = launches + 1 /\ phase' = "event"
  /\ config' = (LoadPreferences(Defaults) \ Unsuited(screen)) \cup (Boxes \cap {"autoRestart"})
  /\ \E startup \in RunningAtStartup :
       IF startup THEN StartServer
       ELSE CheckScreenResolution /\ UNCHANGED <<base, serverState, startButton, startItem>>
  /\ prefs' = OldRemoved
  /\ choices' = [choicesAtQuit EXCEPT !.turnedOff = @ \cup (Boxes \cap Unsuited(screen))]
  /\ UNCHANGED <<machine, screen, cancel, ticks, enabled, optionsOpen, failure, lastState, takes,
                 hidden, clicks, choicesAtQuit>>

\* What is in memory goes with the program.
Gone ==
  /\ config' = Defaults /\ choices' = NoChoices
  /\ ticks' = {} /\ enabled' = {} /\ optionsOpen' = FALSE /\ startButton' = TRUE /\ startItem' = TRUE
  /\ failure' = "none" /\ lastState' = "STOPPED" /\ takes' = {}
  /\ cancel' = FALSE /\ setDepth' = screen /\ base' = screen

\* The end of main: when the loop is left the pointer is shown, and SavePreferences begins.
Leave ==
  /\ phase = "event" /\ cancel /\ serverState = "STOPPED"
  /\ phase' = "saving"
  /\ hidden' = CursorHidden(FALSE, "asSent")
  /\ UNCHANGED <<machine, screen, cancel, chosen, windows, serverState, failure, lastState, takes,
                 setDepth, base, bounds>>

\* CloseResFile writes the settings; until then they are only in memory.
Saved ==
  /\ phase = "saving" /\ phase' = "away"
  /\ prefs' = SavePreferences(config)
  /\ choicesAtQuit' = IF machine.folder THEN choices ELSE choicesAtQuit
  /\ Gone
  /\ UNCHANGED <<machine, screen, serverState, hidden, bounds>>

\* "Unable to open preferences file!", or "Unable to update preferences!" for want of a
\* handle or a resource. What was in the file stays there.
SaveFails ==
  /\ phase = "saving" /\ phase' = "away"
  /\ Gone
  /\ UNCHANGED <<machine, screen, prefs, choicesAtQuit, serverState, hidden, bounds>>

\* The machine is switched off, or the program crashes, before the file is written.
Crash ==
  /\ phase # "away"
  /\ phase' = "away" /\ serverState' = "STOPPED" /\ hidden' = FALSE
  /\ Gone
  /\ UNCHANGED <<machine, screen, prefs, choicesAtQuit, bounds>>

----------------------------------------------------------------------------
(* A pass of the event loop: DoEvent, CheckServerState and the idle tasks.   *)

InLoop == phase = "event" /\ (~cancel \/ serverState # "STOPPED")

NoEvent ==
  /\ InLoop /\ phase' = "check"
  /\ UNCHANGED <<machine, screen, cancel, chosen, windows, serverState, failure, lastState, takes,
                 setDepth, base, hidden, bounds>>

\* The button or the menu item.
ClickStart ==
  /\ InLoop /\ (startButton \/ startItem)
  /\ phase' = "check"
  /\ StartServer
  /\ UNCHANGED <<machine, screen, cancel, chosen, ticks, enabled, optionsOpen, failure, lastState,
                 takes, hidden, bounds>>

ClickQuit ==
  /\ InLoop /\ phase' = "check"
  /\ VncServerStop /\ cancel' = TRUE
  /\ UNCHANGED <<machine, screen, chosen, windows, lastState, takes, setDepth, base, hidden, bounds>>

\* The menu item of the options window; its Okay button only hides it.
ToggleOptions ==
  /\ InLoop /\ phase' = "check"
  /\ optionsOpen' = ~optionsOpen
  /\ IF optionsOpen THEN UNCHANGED <<config, ticks, enabled>>
     ELSE RefreshServerSettings(config, serverState)
  /\ UNCHANGED <<machine, screen, cancel, prefs, choices, choicesAtQuit, startButton,
                 startItem, serverState, failure, lastState, takes, setDepth, base, hidden,
                 bounds>>

\* A box is ticked or unticked, and the setting follows. Without control of the pointer
\* it is not hidden either.
ClickBox(box) ==
  /\ InLoop /\ optionsOpen /\ box \in enabled /\ clicks < MaxClicks
  /\ phase' = "check" /\ clicks' = clicks + 1
  /\ LET ticked == IF box \in ticks THEN ticks \ {box} ELSE ticks \cup {box}
         boxes == IF box \in ticked THEN config \cup {box} ELSE config \ {box} IN
     /\ IF box = "allowControl" THEN RefreshServerSettings(boxes, serverState)
        ELSE config' = boxes /\ ticks' = ticked /\ UNCHANGED enabled
     /\ choices' =
          [ticked |-> IF box \in ticked THEN choices.ticked \cup {box}
                      ELSE choices.ticked \ (IF box = "allowControl" THEN {box, "hideCursor"} ELSE {box}),
           turnedOff |-> choices.turnedOff \ {box}]
  /\ UNCHANGED <<machine, screen, cancel, prefs, choicesAtQuit, optionsOpen, startButton, startItem,
                 serverState, failure, lastState, takes, setDepth, base, hidden, launches>>

\* CheckServerState. After an error that has a number the server is stopped: when the
\* connection broke the button and the menu item are there again, else only the button.
CheckServerState ==
  /\ phase = "check" /\ phase' = "idle"
  /\ IF lastState = serverState
     THEN UNCHANGED <<chosen, windows, serverState, failure, lastState>>
     ELSE /\ lastState' = serverState
          /\ IF serverState # "ERROR" \/ failure = "none"
             THEN UNCHANGED <<serverState, failure, startButton, startItem>>
             ELSE /\ VncServerStop
                  /\ startButton' = TRUE
                  /\ startItem' = (startItem \/ failure = "connection")
          /\ RefreshServerSettings(config, serverState')
          /\ UNCHANGED <<prefs, choices, choicesAtQuit, optionsOpen>>
  /\ UNCHANGED <<machine, screen, cancel, takes, setDepth, base, hidden, bounds>>

\* The idle tasks: the pointer, and the base address of the screen.
IdleTasks ==
  /\ phase = "idle" /\ phase' = "event"
  /\ \E mouse \in {"asSent", "across", "down"} : hidden' = CursorHidden(TRUE, mouse)
  /\ base' = IF machine.colorQD THEN screen ELSE base
  /\ UNCHANGED <<machine, screen, cancel, chosen, windows, serverState, failure, lastState, takes,
                 setDepth, bounds>>

\* The synchronised tasks of a session have failed, and main stops the server.
SyncTasksFailed ==
  /\ phase = "idle" /\ serverState = "RUNNING" /\ phase' = "event"
  /\ \E mouse \in {"asSent", "across", "down"} : hidden' = CursorHidden(TRUE, mouse)
  /\ base' = IF machine.colorQD THEN screen ELSE base
  /\ VncServerStop
  /\ UNCHANGED <<machine, screen, cancel, chosen, windows, lastState, takes, setDepth, bounds>>

ConsoleNext ==
  \/ ServerMoves \/ ScreenChanges
  \/ Launch \/ Leave \/ Saved \/ SaveFails \/ Crash
  \/ NoEvent \/ ClickStart \/ ClickQuit \/ ToggleOptions
  \/ \E box \in Boxes : ClickBox(box)
  \/ CheckServerState \/ IdleTasks \/ SyncTasksFailed

ConsoleSpec == ConsoleInit /\ [][ConsoleNext]_pvars

----------------------------------------------------------------------------

\* The server does what the user last saw in the boxes, in this launch and, once a quit has
\* saved it, in the next ones, whatever sessions, screens and crashes come between, in the
\* middle of another quit even; only what a screen
\* cannot do may be off, and it stays off until it is clicked.
ChoicesKept ==
  phase # "away" =>
    \A box \in Boxes \ {"autoRestart"} :
      /\ box \in config => box \in choices.ticked
      /\ box \in choices.ticked => box \in config \cup choices.turnedOff

\* What does not hold; the README says why. A box that can be clicked shows its setting.
BoxesTellTheTruth ==
  optionsOpen => \A box \in enabled : box \in ticks <=> box \in config

\* A server that has stopped can be started again, unless the program ends.
StartableAgain ==
  phase = "event" /\ ~cancel /\ serverState = "STOPPED" /\ lastState = "STOPPED" => startButton

\* The screen is read with the depth that it has.
CaptureAgrees == serverState = "RUNNING" => base = setDepth

\* A pointer that the user does not want to be hidden can be seen.
PointerSeen == phase = "event" /\ hidden => "hideCursor" \in config
=============================================================================
