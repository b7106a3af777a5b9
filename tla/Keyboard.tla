-------------------------------- MODULE Keyboard --------------------------------
(***************************************************************************)
(* The keys that a client presses (VNCKeyboard.cpp): a keysym becomes the  *)
(* code of a key, modifiers are remembered, Ctrl and Alt together stand    *)
(* for Cmd, and the keys that are down are shown to applications in a map. *)
(* What the Event Manager does with posted events is left out.             *)
(***************************************************************************)
EXTENDS Naturals, FiniteSets

CONSTANTS
  ModifierSyms,  \* keysyms of modifiers: a function to ModifierKeys
  CharSyms,      \* keysyms of characters
  KeyTable,      \* transMap: for each character and 0 .. 3, a key code or NoKey
  KeyMishaps     \* what may happen that the code is not made for

NoKey == 255

AllKeyMishaps ==
  {"sharedKey",  \* two keysyms of one key are down together
   "leftHeld"}   \* a session ends, or the server starts anew, with keys down

\* The codes of these keys.
Cmd == 55
Shift == 56
AlphaLock == 57
Option == 58
Control == 59

ModifierKeys == {Cmd, Shift, AlphaLock, Option, Control}

\* Setup asks the keyboard layout for the keys 0 .. 126. The layout gives no character to
\* the key of a modifier.
CharKeys == (0..126) \ ModifierKeys

ASSUME KeyAssumption ==
  /\ \A s \in DOMAIN ModifierSyms : ModifierSyms[s] \in ModifierKeys
  /\ CharSyms \cap DOMAIN ModifierSyms = {}
  /\ KeyTable \in [CharSyms -> [0..3 -> CharKeys \cup {NoKey}]]
  /\ KeyMishaps \subseteq AllKeyMishaps

VARIABLES
  modifiedKeys,  \* the modifiers, by the codes of their keys
  getKeyBuffer,  \* the keys that are down
  lowMemKeys,    \* the map at 0x174, as far as modifiers go
  keysHeld       \* history: the keysyms that the client holds down

kvars == <<modifiedKeys, getKeyBuffer, lowMemKeys, keysHeld>>

KeyInit == modifiedKeys = {} /\ getKeyBuffer = {} /\ lowMemKeys = {} /\ keysHeld = {}

\* VNCKeyboard::Setup, when the server starts. The map of the system is not cleared.
KeySetup ==
  /\ "leftHeld" \in KeyMishaps \/ keysHeld = {}
  /\ modifiedKeys' = {} /\ getKeyBuffer' = {} /\ keysHeld' = {}
  /\ UNCHANGED lowMemKeys

\* A session ends. The next client holds nothing, and no key is let go.
ClientLeaves ==
  /\ "leftHeld" \in KeyMishaps \/ keysHeld = {}
  /\ keysHeld' = {}
  /\ UNCHANGED <<modifiedKeys, getKeyBuffer, lowMemKeys>>

----------------------------------------------------------------------------

\* A faulty variant: Ctrl and Alt are shown beside the Cmd that they stand for.
AlsoCmd(mods) ==
  IF {Option, Control} \subseteq mods /\ Cmd \notin mods THEN mods \cup {Cmd} ELSE mods

\* Ctrl and Alt without Cmd are Cmd.
AsCmd(mods) ==
  IF {Option, Control} \subseteq mods /\ Cmd \notin mods
  THEN (mods \ {Option, Control}) \cup {Cmd} ELSE mods

\* The map gets the key of this modifier, and then the three that may stand for others.
Shows(map, key, down, mods) ==
  LET pressed == IF down THEN map \cup {key} ELSE map \ {key} IN
  (pressed \ {Option, Control, Cmd}) \cup (AsCmd(mods) \cap {Option, Control, Cmd})

PressModifier(sym, down) ==
  LET key  == ModifierSyms[sym]
      mods == IF down THEN modifiedKeys \cup {key} ELSE modifiedKeys \ {key} IN
  /\ modifiedKeys' = mods
  /\ getKeyBuffer' = Shows(getKeyBuffer, key, down, mods)
  /\ lowMemKeys' = Shows(lowMemKeys, key, down, mods)

\* The first of the columns 0 .. 2 that has the character; Setup has filled four.
KeyOf(char) ==
  LET found == {d \in 0..2 : KeyTable[char][d] # NoKey} IN
  IF found = {} THEN NoKey ELSE KeyTable[char][CHOOSE d \in found : \A e \in found : d <= e]

\* A character that no key has is ignored.
PressChar(char, down) ==
  /\ getKeyBuffer' =
       IF KeyOf(char) > 127 THEN getKeyBuffer
       ELSE IF down THEN getKeyBuffer \cup {KeyOf(char)} ELSE getKeyBuffer \ {KeyOf(char)}
  /\ UNCHANGED <<modifiedKeys, lowMemKeys>>

Key(sym) == IF sym \in CharSyms THEN KeyOf(sym) ELSE ModifierSyms[sym]

AllSyms == CharSyms \cup DOMAIN ModifierSyms

\* PressKey, for a client that lets go only what it holds. A key may repeat.
PressKey(sym, down) ==
  /\ down \/ sym \in keysHeld
  /\ "sharedKey" \in KeyMishaps \/ \A s \in keysHeld \ {sym} : Key(s) # Key(sym) \/ Key(s) = NoKey
  /\ keysHeld' = IF down THEN keysHeld \cup {sym} ELSE keysHeld \ {sym}
  /\ IF sym \in CharSyms THEN PressChar(sym, down) ELSE PressModifier(sym, down)

KeyNext ==
  \/ KeySetup \/ ClientLeaves
  \/ \E sym \in AllSyms, down \in BOOLEAN : PressKey(sym, down)

KeySpec == KeyInit /\ [][KeyNext]_kvars

\* In whatever order keys go down and up, applications see the keys that the client
\* holds, with Cmd for Ctrl and Alt, and nothing is down when the client holds nothing.
KeysAsHeld ==
  LET keys == {Key(s) : s \in keysHeld} \ {NoKey} IN
  /\ getKeyBuffer \ ModifierKeys = keys \ ModifierKeys
  /\ getKeyBuffer \cap ModifierKeys =
       IF {Option, Control} \subseteq keys /\ Cmd \notin keys
       THEN ((keys \cap ModifierKeys) \ {Option, Control}) \cup {Cmd}
       ELSE keys \cap ModifierKeys
  /\ lowMemKeys = getKeyBuffer \cap ModifierKeys
=============================================================================
