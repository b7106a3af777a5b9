-------------------------------- MODULE DebugLog --------------------------------
(***************************************************************************)
(* The ring of deferred output (DebugLog.cpp): dprintf copies a line into  *)
(* it, at interrupt level or in the event loop, and the event loop takes   *)
(* the lines out again, a character at a time.                             *)
(***************************************************************************)
EXTENDS Naturals, Sequences

CONSTANTS
  Capacity,    \* CAPACITY
  LogLines,    \* what is logged: sequences of characters, without the NUL
  MaxLogged,   \* bound: lines that are logged
  LogMishaps   \* what may happen that the code is not made for

Nul == "nul"

AllLogMishaps ==
  {"fullRing",    \* a line comes when there is no room for it
   "brokenLine"}  \* an interrupt logs while the event loop copies a line

ASSUME LogAssumption ==
  /\ Capacity \in Nat \ {0} /\ MaxLogged \in Nat
  /\ \A text \in LogLines : text \in Seq({text[i] : i \in DOMAIN text} \ {Nul})
  /\ LogMishaps \subseteq AllLogMishaps

VARIABLES
  buffer, wrpos, rdpos,
  copying,     \* what dprintf of the event loop has still to copy
  loaded,      \* the value of wrpos it is about to change, or Capacity
  draining,    \* the event loop is in _do_deferred_output
  line,        \* str of _do_deferred_output
  logged, printed  \* history

lvars == <<buffer, wrpos, rdpos, copying, loaded, draining, line, logged, printed>>

LogInit ==
  /\ buffer = [i \in 0..(Capacity - 1) |-> Nul] /\ wrpos = 0 /\ rdpos = 0
  /\ copying = <<>> /\ loaded = Capacity /\ draining = FALSE /\ line = <<>>
  /\ logged = <<>> /\ printed = <<>>

Used == (wrpos + Capacity - rdpos) % Capacity

\* A full ring looks like an empty one.
Fits(text) == Used + Len(copying) + Len(text) + 1 < Capacity

Logs(text) ==
  /\ Len(logged) < MaxLogged
  /\ "fullRing" \in LogMishaps \/ Fits(text)
  /\ logged' = Append(logged, text)

\* _dprintf at interrupt level: nothing comes between.
LogAtInterrupt(text) ==
  /\ "brokenLine" \in LogMishaps \/ copying = <<>>
  /\ Logs(text)
  /\ LET chars == Append(text, Nul)  n == Len(chars) IN
     /\ buffer' = [p \in DOMAIN buffer |->
                     LET i == ((p + Capacity - wrpos) % Capacity) + 1 IN
                     IF i <= n THEN chars[i] ELSE buffer[p]]
     /\ wrpos' = (wrpos + n) % Capacity
  /\ UNCHANGED <<rdpos, copying, loaded, draining, line, printed>>

\* _dprintf in the event loop: the character, and then its place, which is read and
\* written.
LogInMainLoop(text) ==
  /\ copying = <<>> /\ ~draining
  /\ Logs(text)
  /\ copying' = Append(text, Nul)
  /\ UNCHANGED <<buffer, wrpos, rdpos, loaded, draining, line, printed>>

CopyChar ==
  /\ copying # <<>> /\ loaded = Capacity
  /\ buffer' = [buffer EXCEPT ![wrpos] = Head(copying)]
  /\ loaded' = wrpos
  /\ UNCHANGED <<wrpos, rdpos, copying, draining, line, logged, printed>>

MoveOn ==
  /\ loaded # Capacity
  /\ wrpos' = (loaded + 1) % Capacity
  /\ copying' = Tail(copying) /\ loaded' = Capacity
  /\ UNCHANGED <<buffer, rdpos, draining, line, logged, printed>>

----------------------------------------------------------------------------

\* _do_deferred_output, in the event loop. What was left of a line is not kept.
StartOutput ==
  /\ copying = <<>> /\ ~draining /\ rdpos # wrpos
  /\ draining' = TRUE /\ line' = <<>>
  /\ UNCHANGED <<buffer, wrpos, rdpos, copying, loaded, logged, printed>>

TakeChar ==
  /\ draining /\ rdpos # wrpos
  /\ rdpos' = (rdpos + 1) % Capacity
  /\ IF buffer[rdpos] = Nul
     THEN printed' = Append(printed, line) /\ line' = <<>>
     ELSE line' = Append(line, buffer[rdpos]) /\ UNCHANGED printed
  /\ UNCHANGED <<buffer, wrpos, copying, loaded, draining, logged>>

\* A faulty variant: what was logged during the output is taken as seen.
EndOutputEmpties ==
  /\ draining
  /\ draining' = FALSE /\ rdpos' = wrpos
  /\ UNCHANGED <<buffer, wrpos, copying, loaded, line, logged, printed>>

EndOutput ==
  /\ draining /\ rdpos = wrpos
  /\ draining' = FALSE
  /\ UNCHANGED <<buffer, wrpos, rdpos, copying, loaded, line, logged, printed>>

LogNext ==
  \/ \E text \in LogLines : LogAtInterrupt(text) \/ LogInMainLoop(text)
  \/ CopyChar \/ MoveOn
  \/ StartOutput \/ TakeChar \/ EndOutput

LogSpec == LogInit /\ [][LogNext]_lvars

\* The lines come out as they were logged and in this order, however the output and the
\* interrupts take turns, and when the ring is empty all are out.
LinesInOrder ==
  /\ Len(printed) <= Len(logged)
  /\ \A i \in DOMAIN printed : printed[i] = logged[i]
  /\ rdpos = wrpos /\ copying = <<>> => Len(printed) = Len(logged)
=============================================================================
